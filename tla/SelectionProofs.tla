---------------------------- MODULE SelectionProofs ----------------------------
(***************************************************************************)
(* Proofs about Selection, for any repositories, labels, queries and       *)
(* snapshots: the list has each repository that matches once, the detail   *)
(* view has each snapshot, and a key or a refresh that moves the rows      *)
(* keeps what the next key acts on.                                        *)
(***************************************************************************)
EXTENDS Selection, AlgorithmProofs

-----------------------------------------------------------------------------
(* The list of repositories.                                               *)

ListType(l) ==
    /\ l.status \in [RepoRows -> DOMAIN UrgencyRank] /\ l.sort \in DOMAIN SortModes /\ l.group \in 0..Len(GroupBy)

LEMMA RepoRowsAre ==
  /\ Len(Repos) \in Nat /\ RepoRows = 1..Len(Repos) /\ IsFiniteSet(RepoRows)
  /\ \A i \in RepoRows : Repos[i].name \in Nat /\ \A k \in DOMAIN GroupBy : Repos[i].labels[GroupBy[k]] \in Nat
  <1> DEFINE Row == [name : Nat, labels : [Range(GroupBy) -> Nat], found : SUBSET Seq(Letters)]
  <1>1. Repos \in Seq(Row) /\ GroupBy \in Seq(STRING)
    BY RepoListAssumption
  <1>2. Len(Repos) \in Nat /\ RepoRows = 1..Len(Repos)
    <2> HIDE DEF Row
    <2> QED BY <1>1 DEF RepoRows
  <1>3. IsFiniteSet(RepoRows)
    BY <1>2, FS_Interval
  <1>4. \A i \in RepoRows : Repos[i] \in Row
    <2> HIDE DEF Row
    <2> QED BY <1>1, <1>2
  <1>5. \A i \in RepoRows : Repos[i].name \in Nat /\ Repos[i].labels \in [Range(GroupBy) -> Nat]
    BY <1>4
  <1>6. \A k \in DOMAIN GroupBy : GroupBy[k] \in Range(GroupBy)
    BY DEF Range
  <1> QED BY <1>2, <1>3, <1>5, <1>6

LEMMA SortKeyIsNumber ==
  ASSUME NEW l, ListType(l), NEW i \in RepoRows
  PROVE  SortKey(l, i) \in Nat
  <1>1. UrgencyRank[l.status[i]] \in Nat
    BY DEF ListType, UrgencyRank
  <1>2. Repos[i].name \in Nat
    BY RepoRowsAre
  <1> QED BY <1>1, <1>2 DEF SortKey

\* Repositories, in the order asked for and else in that of the configuration.
LEMMA SortRowsLists ==
  ASSUME NEW l, ListType(l), NEW S, S \subseteq RepoRows, IsFiniteSet(S)
  PROVE  Lists(SortRows(l, S), S)
  <1> DEFINE R == {p \in S \X S : SortsBefore(l, p[1], p[2])}
             s == SortRows(l, S)
  <1>1. IsTotalOrder(R, S)
    <2>1. \A i \in S : SortKey(l, i) \in Nat /\ i \in Nat
      BY SortKeyIsNumber, RepoRowsAre
    <2> QED BY <2>1 DEF IsTotalOrder, SortsBefore
  <1>2. ASSUME NEW x \in S PROVE {y \in S : SortsBefore(l, y, x)} = Before(R, S, x)
    BY DEF Before
  <1>3. \A i \in 1..Cardinality(S) : \E x \in S : Cardinality({y \in S : SortsBefore(l, y, x)}) = i - 1
    <2> SUFFICES ASSUME NEW i \in 1..Cardinality(S)
                 PROVE  \E x \in S : Cardinality({y \in S : SortsBefore(l, y, x)}) = i - 1
      OBVIOUS
    <2>1. Cardinality(S) \in Nat
      BY FS_CardinalityType
    <2>2. i - 1 \in 0..(Cardinality(S) - 1)
      BY <2>1
    <2> HIDE DEF R
    <2>3. PICK x \in S : Cardinality(Before(R, S, x)) = i - 1
      <3>1. \A k \in 0..(Cardinality(S) - 1) : \E x \in S : Cardinality(Before(R, S, x)) = k
        BY ONLY <1>1, IsFiniteSet(S), Ranks
      <3> QED BY ONLY <3>1, <2>2
    <2> QED BY <1>2, <2>3
  <1>4. \A i \in 1..Cardinality(S) : s[i] \in S /\ Cardinality(Before(R, S, s[i])) = i - 1
    <2> SUFFICES ASSUME NEW i \in 1..Cardinality(S)
                 PROVE  s[i] \in S /\ Cardinality(Before(R, S, s[i])) = i - 1
      OBVIOUS
    <2>1. s[i] = CHOOSE x \in S : Cardinality({y \in S : SortsBefore(l, y, x)}) = i - 1
      BY DEF Arranged, SortRows
    <2>2. s[i] \in S /\ Cardinality({y \in S : SortsBefore(l, y, s[i])}) = i - 1
      <3> HIDE DEF R, s
      <3> QED BY ONLY <1>3, <2>1, i \in 1..Cardinality(S)
    <2> HIDE DEF R, s
    <2> QED BY <1>2, <2>2
  <1>5. s = [i \in 1..Cardinality(S) |-> s[i]]
    <2> DEFINE at(i) == CHOOSE x \in S : Cardinality({y \in S : SortsBefore(l, y, x)}) = i - 1
    <2>1. s = [i \in 1..Cardinality(S) |-> at(i)]
      BY DEF Arranged, SortRows
    <2> HIDE DEF at, s
    <2> QED BY ONLY <2>1
  <1> HIDE DEF R, s
  <1>6. Lists(s, S)
    BY <1>1, <1>4, <1>5, InOrder
  <1> QED BY <1>6 DEF s

Matching(l) == {i \in RepoRows : MatchRepo(i, l.filter)}

LEMMA DisplayLists ==
  ASSUME NEW l, ListType(l)
  PROVE  Lists(DisplayList(l), Matching(l))
  <1> DEFINE F == Matching(l)
  <1>1. F \subseteq RepoRows /\ IsFiniteSet(F)
    BY RepoRowsAre, FS_Subset DEF Matching
  <1>2. CASE l.group = 0
    <2>1. DisplayList(l) = SortRows(l, F)
      BY <1>2 DEF DisplayList, Matching
    <2>2. Lists(SortRows(l, F), F)
      <3> HIDE DEF F
      <3> QED BY <1>1, SortRowsLists
    <2> QED BY <2>1, <2>2
  <1>3. CASE l.group # 0
    <2> DEFINE key == [i \in F |-> Repos[i].labels[GroupBy[l.group]]]
               K == {Repos[i].labels[GroupBy[l.group]] : i \in F}
               keys == Arranged(K, LAMBDA a, b : a # 0 /\ (b = 0 \/ a < b))
               ss == [v \in DOMAIN keys |-> SortRows(l, {i \in F : Repos[i].labels[GroupBy[l.group]] = keys[v]})]
    <2>1. DisplayList(l) = FlattenSeq(ss)
      BY <1>3 DEF DisplayList, GroupedSections, Matching
    <2>2. l.group \in DOMAIN GroupBy
      BY <1>3, RepoListAssumption DEF ListType
    <2>3. K \subseteq Nat
      BY <1>1, <2>2, RepoRowsAre
    <2>4. key \in Surjection(F, K)
      <3> HIDE DEF F
      <3> QED BY DEF Surjection
    <2>5. IsFiniteSet(K)
      <3> HIDE DEF F, key, K
      <3> QED BY <1>1, <2>4, FS_Surjection
    <2>6. Lists(keys, K)
      <3> HIDE DEF K
      <3> QED BY <2>3, <2>5, KeysInOrder
    <2>7. ASSUME NEW k \in DOMAIN keys PROVE Lists(ss[k], {x \in F : key[x] = keys[k]})
      <3> DEFINE S == {i \in F : Repos[i].labels[GroupBy[l.group]] = keys[k]}
      <3>1. ss[k] = SortRows(l, S) /\ S = {x \in F : key[x] = keys[k]}
        <4> HIDE DEF keys, F
        <4> QED OBVIOUS
      <3>2. S \subseteq RepoRows /\ IsFiniteSet(S)
        <4>1. S \in SUBSET F
          OBVIOUS
        <4> HIDE DEF S, F
        <4> QED BY <1>1, <4>1, FS_Subset
      <3>3. Lists(SortRows(l, S), S)
        <4> HIDE DEF S
        <4> QED BY <3>2, SortRowsLists
      <3> HIDE DEF S, ss, key, keys, F
      <3> QED BY <3>1, <3>3
    <2>8. \A x \in F : key[x] \in K
      <3> HIDE DEF F
      <3> QED OBVIOUS
    <2>9. ss = [k \in DOMAIN keys |-> ss[k]]
      <3> HIDE DEF keys, F
      <3> QED OBVIOUS
    <2> HIDE DEF F, key, K, keys, ss
    <2>10. Lists(FlattenSeq(ss), F)
      BY ONLY <2>6, <2>7, <2>8, <2>9, SectionsList
    <2> QED BY <2>1, <2>10 DEF F
  <1> QED BY <1>2, <1>3

\* The place of a repository: where it is, or the first.
LEMMA Place ==
  ASSUME NEW l, ListType(l), NEW i
  PROVE  /\ IndexOf(l, i) \in Nat \ {0}
         /\ IndexOf(l, i) > 1 => IndexOf(l, i) <= Len(DisplayList(l))
         /\ i \in Matching(l) => IndexOf(l, i) <= Len(DisplayList(l)) /\ DisplayList(l)[IndexOf(l, i)] = i
  <1> DEFINE D == DisplayList(l)
             I == {j \in 1..Len(D) : D[j] = i}
  <1>1. D \in Seq(Matching(l)) /\ (i \in Matching(l) => \E j \in DOMAIN D : D[j] = i)
    BY DisplayLists DEF Lists
  <1>2. Len(D) \in Nat /\ DOMAIN D = 1..Len(D)
    <2> HIDE DEF D
    <2> QED BY <1>1
  <1>3. CASE I = {}
    <2>1. ~Contains(D, i) /\ i \notin Matching(l)
      <3> HIDE DEF D
      <3> QED BY <1>1, <1>2, <1>3 DEF Contains
    <2>2. IndexOf(l, i) = 1
      BY <2>1 DEF IndexOf
    <2> QED BY <2>1, <2>2
  <1>4. CASE I # {}
    <2>1. Contains(D, i)
      <3> HIDE DEF D
      <3> QED BY <1>4 DEF Contains
    <2>2. IndexOf(l, i) = Min(I)
      BY <1>4, <2>1 DEF IndexOf, SelectInSeq
    <2>3. \E k \in I : \A j \in I : k <= j
      <3>1. I \in SUBSET Nat
        <4> HIDE DEF D
        <4> QED BY <1>2
      <3> HIDE DEF I
      <3> QED BY <1>4, <3>1, Least
    <2>4. Min(I) \in I
      <3> HIDE DEF I
      <3> QED BY <2>3 DEF Min
    <2> HIDE DEF D
    <2> QED BY <1>2, <2>2, <2>4 DEF D
  <1> QED BY <1>3, <1>4

\* The selected row is one that matches.
LEMMA Current ==
  ASSUME NEW l, ListType(l), l.cursor \in Nat \ {0}
  PROVE  IF Matching(l) = {} THEN CurrentRow(l) = 0 ELSE CurrentRow(l) \in Matching(l)
  <1> DEFINE D == DisplayList(l)
  <1>1. D \in Seq(Matching(l)) /\ (\A x \in Matching(l) : \E j \in DOMAIN D : D[j] = x)
    BY DisplayLists DEF Lists
  <1>2. CurrentRow(l) = IF D = <<>> THEN 0 ELSE D[IF l.cursor > Len(D) THEN Len(D) ELSE l.cursor]
    BY DEF CurrentRow
  <1> HIDE DEF D
  <1>3. CASE Matching(l) = {}
    <2>1. D = <<>>
      BY <1>1, <1>3
    <2> QED BY <1>2, <1>3, <2>1
  <1>4. CASE Matching(l) # {}
    <2>1. Len(D) \in Nat /\ DOMAIN D = 1..Len(D) /\ D # <<>>
      BY <1>1, <1>4
    <2>2. Len(D) # 0
      BY <1>1, <2>1
    <2>3. (IF l.cursor > Len(D) THEN Len(D) ELSE l.cursor) \in DOMAIN D
      BY <2>1, <2>2
    <2> QED BY <1>1, <1>2, <1>4, <2>1, <2>3
  <1> QED BY <1>3, <1>4

ListFields ==
    [status : [RepoRows -> DOMAIN UrgencyRank], sort : DOMAIN SortModes, group : 0..Len(GroupBy), filter : Seq(Letters),
     filtering : BOOLEAN, cursor : Nat \ {0}, detail : {0} \cup RepoRows]

ListIInv == list \in ListFields /\ (list.cursor > 1 => list.cursor <= Len(DisplayList(list)))

\* What is shown does not depend on where the cursor is.
LEMMA SameDisplay ==
  ASSUME NEW l, NEW k, k.status = l.status, k.sort = l.sort, k.group = l.group, k.filter = l.filter
  PROVE  DisplayList(k) = DisplayList(l) /\ Matching(k) = Matching(l)
  <1>1. \A i, j : SortsBefore(k, i, j) = SortsBefore(l, i, j)
    BY DEF SortsBefore, SortKey
  <1>2. \A S : SortRows(k, S) = SortRows(l, S)
    BY DEF SortRows, SortsBefore, SortKey
  <1>3. \A S : GroupedSections(k, S) = GroupedSections(l, S)
    <2> DEFINE keys(g, S) == Arranged({Repos[i].labels[GroupBy[g]] : i \in S}, LAMBDA a, b : a # 0 /\ (b = 0 \/ a < b))
    <2>1. \A S : GroupedSections(l, S) = [v \in DOMAIN keys(l.group, S) |->
                     SortRows(l, {i \in S : Repos[i].labels[GroupBy[l.group]] = keys(l.group, S)[v]})]
      BY DEF GroupedSections
    <2>2. \A S : GroupedSections(k, S) = [v \in DOMAIN keys(k.group, S) |->
                     SortRows(k, {i \in S : Repos[i].labels[GroupBy[k.group]] = keys(k.group, S)[v]})]
      BY DEF GroupedSections
    <2>3. ASSUME NEW S PROVE GroupedSections(k, S) = GroupedSections(l, S)
      <3> DEFINE d == keys(l.group, S)
                 section(v) == {i \in S : Repos[i].labels[GroupBy[l.group]] = d[v]}
      <3>1. GroupedSections(l, S) = [v \in DOMAIN d |-> SortRows(l, section(v))]
        BY <2>1
      <3>2. GroupedSections(k, S) = [v \in DOMAIN d |-> SortRows(k, section(v))]
        <4> HIDE DEF keys
        <4> QED BY <2>2, k.group = l.group
      <3> HIDE DEF d, section
      <3> QED BY ONLY <1>2, <3>1, <3>2
    <2> QED BY <2>3
  <1> QED BY <1>2, <1>3 DEF DisplayList, Matching

\* A move of the rows that the cursor follows.
LEMMA Followed ==
  ASSUME ListIInv, NEW new \in ListFields, new.filter = list.filter, new.detail = list.detail, new.filtering = list.filtering,
         list' = Follow(new)
  PROVE  ListIInv' /\ ActionRepo(list') = ActionRepo(list)
  <1> DEFINE c == IndexOf(new, CurrentRow(list))
  <1>1. list' = [new EXCEPT !.cursor = c]
    BY DEF Follow
  <1>2. ListType(new) /\ ListType(list)
    BY DEF ListIInv, ListFields, ListType
  <1>3. /\ c \in Nat \ {0} /\ (c > 1 => c <= Len(DisplayList(new)))
        /\ CurrentRow(list) \in Matching(new) => c <= Len(DisplayList(new)) /\ DisplayList(new)[c] = CurrentRow(list)
    BY <1>2, Place
  <1> HIDE DEF c
  <1>4. /\ list' \in ListFields /\ list'.cursor = c /\ list'.detail = list.detail
        /\ list'.status = new.status /\ list'.sort = new.sort /\ list'.group = new.group /\ list'.filter = new.filter
    BY <1>1, <1>3 DEF ListFields
  <1>5. DisplayList(list') = DisplayList(new) /\ Matching(list') = Matching(new)
    BY <1>4, SameDisplay
  <1>6. Matching(new) = Matching(list)
    BY DEF Matching
  <1>7. ListIInv'
    BY <1>3, <1>4, <1>5 DEF ListIInv
  <1>8. CurrentRow(list') = CurrentRow(list)
    <2>1. ListType(list')
      BY <1>4 DEF ListType, ListFields
    <2>2. CASE Matching(list) = {}
      BY <1>2, <1>3, <1>4, <1>5, <1>6, <2>1, <2>2, Current DEF ListIInv, ListFields
    <2>3. CASE Matching(list) # {}
      <3>1. CurrentRow(list) \in Matching(list)
        BY <1>2, <2>3, Current DEF ListIInv, ListFields
      <3>2. c <= Len(DisplayList(new)) /\ DisplayList(new)[c] = CurrentRow(list)
        BY <1>3, <1>6, <3>1
      <3>3. Len(DisplayList(new)) \in Nat
        BY <1>2, DisplayLists DEF Lists
      <3>4. DisplayList(new) # <<>>
        BY <1>3, <3>2
      <3> QED BY <1>3, <1>4, <1>5, <3>2, <3>3, <3>4 DEF CurrentRow
    <2> QED BY <2>2, <2>3
  <1> QED BY <1>4, <1>7, <1>8 DEF ActionRepo

\* A query edited, one field of the record at a time.
LEMMA Fields ==
  ASSUME NEW A, NEW B, NEW C, NEW D, NEW E, NEW F, NEW G, NEW T,
         T = [status : A, sort : B, group : C, filter : D, filtering : E, cursor : F, detail : G], NEW l \in T
  PROVE  /\ \A f \in D : [l EXCEPT !.filter = f] \in T
         /\ \A b \in E : [l EXCEPT !.filtering = b] \in T
         /\ \A c \in F : [l EXCEPT !.cursor = c] \in T
  OBVIOUS

LEMMA Typed ==
  ASSUME NEW l, l \in ListFields, NEW f, f \in Seq(Letters), NEW b, b \in BOOLEAN
  PROVE  [l EXCEPT !.filtering = b, !.filter = f, !.cursor = 1] \in ListFields
  <1>1. [l EXCEPT !.filtering = b] \in ListFields
    BY Fields DEF ListFields
  <1>2. [[l EXCEPT !.filtering = b] EXCEPT !.filter = f] \in ListFields
    BY <1>1, Fields DEF ListFields
  <1>3. 1 \in Nat \ {0}
    OBVIOUS
  <1>4. [[[l EXCEPT !.filtering = b] EXCEPT !.filter = f] EXCEPT !.cursor = 1] \in ListFields
    BY <1>2, <1>3, Fields DEF ListFields
  <1> QED BY <1>4

LEMMA ListInitInv == ListInit => ListIInv
  <1> SUFFICES ASSUME ListInit PROVE ListIInv
    OBVIOUS
  <1>1. "grey" \in DOMAIN UrgencyRank /\ 1 \in DOMAIN SortModes /\ 0 \in 0..Len(GroupBy)
    BY RepoListAssumption DEF UrgencyRank, SortModes
  <1> QED BY <1>1 DEF ListInit, ListIInv, ListFields

LEMMA ListStep ==
  ASSUME ListIInv, [ListNext]_list
  PROVE  ListIInv' /\ (ActionRepoKept \/ list' = list)
  <1>1. CASE list' = list
    BY <1>1 DEF ListIInv
  <1>2. CASE MoveListCursor
    <2>1. PICK page \in RepoRows :
            \/ list.cursor > page /\ list' = [list EXCEPT !.cursor = @ - page]
            \/ list.cursor + page <= Len(DisplayList(list)) /\ list' = [list EXCEPT !.cursor = @ + page]
      BY <1>2 DEF MoveListCursor
    <2>2. page \in Nat \ {0} /\ list.cursor \in Nat \ {0} /\ Len(DisplayList(list)) \in Nat
      <3>1. ListType(list) /\ list.cursor \in Nat \ {0}
        BY DEF ListIInv, ListFields, ListType
      <3>2. Len(DisplayList(list)) \in Nat
        BY <3>1, DisplayLists DEF Lists
      <3> QED BY <3>1, <3>2, RepoRowsAre
    <2>3. \E c \in Nat \ {0} : list' = [list EXCEPT !.cursor = c] /\ (c <= Len(DisplayList(list)) \/ c <= list.cursor)
      <3>1. CASE list.cursor > page /\ list' = [list EXCEPT !.cursor = @ - page]
        <4>1. list.cursor - page \in Nat \ {0} /\ list.cursor - page <= list.cursor
          BY <2>2, <3>1
        <4> QED BY <3>1, <4>1
      <3>2. CASE list.cursor + page <= Len(DisplayList(list)) /\ list' = [list EXCEPT !.cursor = @ + page]
        <4>1. list.cursor + page \in Nat \ {0}
          BY <2>2
        <4> QED BY <3>2, <4>1
      <3> QED BY <2>1, <3>1, <3>2
    <2>4. PICK c \in Nat \ {0} : list' = [list EXCEPT !.cursor = c] /\ (c <= Len(DisplayList(list)) \/ c <= list.cursor)
      BY <2>3
    <2>5. /\ list' \in ListFields /\ list'.cursor = c /\ list'.status = list.status /\ list'.sort = list.sort
          /\ list'.group = list.group /\ list'.filter = list.filter
      BY <2>4 DEF ListIInv, ListFields
    <2>6. DisplayList(list') = DisplayList(list)
      BY <2>5, SameDisplay
    <2>7. c > 1 => c <= Len(DisplayList(list))
      BY <2>2, <2>4 DEF ListIInv
    <2> QED BY <2>5, <2>6, <2>7 DEF ListIInv, ActionRepoKept
  <1>3. CASE OpenRepo \/ CloseRepo \/ StartFilter
    <2>1. CurrentRow(list) # 0 => CurrentRow(list) \in RepoRows
      <3>1. ListType(list) /\ list.cursor \in Nat \ {0}
        BY DEF ListIInv, ListFields, ListType
      <3> QED BY <3>1, Current DEF Matching
    <2>2. /\ list' \in ListFields /\ list'.cursor = list.cursor /\ list'.status = list.status /\ list'.sort = list.sort
          /\ list'.group = list.group /\ list'.filter = list.filter
      BY <1>3, <2>1 DEF OpenRepo, CloseRepo, StartFilter, ListIInv, ListFields
    <2>3. DisplayList(list') = DisplayList(list)
      BY <2>2, SameDisplay
    <2> QED BY <2>2, <2>3 DEF ListIInv, ActionRepoKept
  <1>4. CASE FilterKey
    <2>1. CASE list' = [list EXCEPT !.filtering = FALSE]
      <3>1. /\ list' \in ListFields /\ list'.cursor = list.cursor /\ list'.status = list.status /\ list'.sort = list.sort
            /\ list'.group = list.group /\ list'.filter = list.filter
        BY <2>1 DEF ListIInv, ListFields
      <3>2. DisplayList(list') = DisplayList(list)
        BY <3>1, SameDisplay
      <3> QED BY <3>1, <3>2 DEF ListIInv, ActionRepoKept
    <2>2. CASE \E f \in Seq(Letters), b \in BOOLEAN : list' = [list EXCEPT !.filtering = b, !.filter = f, !.cursor = 1]
      <3> PICK f \in Seq(Letters), b \in BOOLEAN : list' = [list EXCEPT !.filtering = b, !.filter = f, !.cursor = 1]
        BY <2>2
      <3>1. /\ list' \in ListFields /\ list'.cursor = 1 /\ list'.status = list.status /\ list'.sort = list.sort
            /\ list'.group = list.group
        <4>0. list \in ListFields /\ list' = [list EXCEPT !.filtering = b, !.filter = f, !.cursor = 1]
          BY DEF ListIInv
        <4>1. list' \in ListFields
          BY ONLY <4>0, f \in Seq(Letters), b \in BOOLEAN, Typed
        <4>2. list'.cursor = 1 /\ list'.status = list.status /\ list'.sort = list.sort /\ list'.group = list.group
          BY ONLY <4>0 DEF ListFields
        <4> QED BY <4>1, <4>2
      <3> QED BY <3>1 DEF ListIInv, ActionRepoKept
    <2>3. list.filter \in Seq(Letters) /\ list.filtering = TRUE /\ list = [list EXCEPT !.filtering = TRUE]
      BY <1>4 DEF FilterKey, ListIInv, ListFields
    <2>4. CASE list' = [list EXCEPT !.filtering = FALSE, !.filter = <<>>, !.cursor = 1]
      <3>1. <<>> \in Seq(Letters)
        OBVIOUS
      <3> QED BY <2>2, <2>4, <3>1
    <2>5. CASE list.filter # <<>> /\ list' = [list EXCEPT !.filter = Front(@), !.cursor = 1]
      <3>1. Front(list.filter) \in Seq(Letters)
        BY <2>3, <2>5 DEF Front
      <3>2. list' = [list EXCEPT !.filtering = TRUE, !.filter = Front(list.filter), !.cursor = 1]
        BY <2>3, <2>5 DEF ListIInv, ListFields
      <3> QED BY <2>2, <3>1, <3>2
    <2>6. CASE \E c \in Letters : Len(list.filter) < QueryMax /\ list' = [list EXCEPT !.filter = Append(@, c), !.cursor = 1]
      <3>1. PICK c \in Letters : list' = [list EXCEPT !.filter = Append(@, c), !.cursor = 1]
        BY <2>6
      <3>2. Append(list.filter, c) \in Seq(Letters)
        BY <2>3
      <3>3. list' = [list EXCEPT !.filtering = TRUE, !.filter = Append(list.filter, c), !.cursor = 1]
        BY <2>3, <3>1 DEF ListIInv, ListFields
      <3> QED BY <2>2, <3>2, <3>3
    <2> QED BY <1>4, <2>1, <2>4, <2>5, <2>6 DEF FilterKey
  <1>5. CASE CycleSort
    <2> DEFINE new == [list EXCEPT !.sort = (@ % Len(SortModes)) + 1]
    <2>1. list.sort \in 1..3 /\ DOMAIN SortModes = 1..3 /\ Len(SortModes) = 3
      BY DEF ListIInv, ListFields, SortModes
    <2>2. /\ new \in ListFields /\ new.filter = list.filter /\ new.detail = list.detail /\ new.filtering = list.filtering
          /\ list' = Follow(new)
      BY <1>5, <2>1 DEF CycleSort, ListIInv, ListFields
    <2> HIDE DEF new
    <2> QED BY <2>2, Followed DEF ActionRepoKept
  <1>6. CASE CycleGrouping
    <2> DEFINE new == [list EXCEPT !.group = (@ + 1) % (Len(GroupBy) + 1)]
    <2>1. list.group \in 0..Len(GroupBy) /\ Len(GroupBy) \in Nat
      BY RepoListAssumption DEF ListIInv, ListFields
    <2>2. (list.group + 1) % (Len(GroupBy) + 1) \in 0..Len(GroupBy)
      BY <2>1
    <2>3. /\ new \in ListFields /\ new.filter = list.filter /\ new.detail = list.detail /\ new.filtering = list.filtering
          /\ list' = Follow(new)
      BY <1>6, <2>2 DEF CycleGrouping, ListIInv, ListFields
    <2> HIDE DEF new
    <2> QED BY <2>3, Followed DEF ActionRepoKept
  <1>7. CASE RowRefreshed
    <2>1. PICK i \in RepoRows, u \in DOMAIN UrgencyRank \ {"grey"} : list' = Follow([list EXCEPT !.status[i] = u])
      BY <1>7 DEF RowRefreshed
    <2> DEFINE new == [list EXCEPT !.status[i] = u]
    <2>2. /\ new \in ListFields /\ new.filter = list.filter /\ new.detail = list.detail /\ new.filtering = list.filtering
          /\ list' = Follow(new)
      BY <2>1 DEF ListIInv, ListFields
    <2> HIDE DEF new
    <2> QED BY <2>2, Followed DEF ActionRepoKept
  <1> QED BY <1>1, <1>2, <1>3, <1>4, <1>5, <1>6, <1>7 DEF ListNext

ListSpec == ListInit /\ [][ListNext]_list

LEMMA ListAlways == ListSpec => []ListIInv
  <1>1. ListIInv /\ [ListNext]_list => ListIInv'
    BY ListStep
  <1> QED BY <1>1, ListInitInv, PTL DEF ListSpec

\* The list never shows a cursor past its rows (list_keys.go, applyRefresh).
THEOREM ListTypeCorrect == ListSpec => []ListTypeOK
  <1>1. ListIInv => ListTypeOK
    BY DEF ListIInv, ListFields, ListTypeOK
  <1> QED BY <1>1, ListAlways, PTL

\* Whatever is typed, sorted, grouped and refreshed, the list shows each repository
\* that matches once, and no other (displayList).
THEOREM ListIsWhole == ListSpec => []ListShowsMatches
  <1>1. ListIInv => ListShowsMatches
    <2> SUFFICES ASSUME ListIInv PROVE ListShowsMatches
      OBVIOUS
    <2>1. Lists(DisplayList(list), Matching(list))
      BY DisplayLists DEF ListIInv, ListFields, ListType
    <2> QED BY <2>1 DEF ListShowsMatches, Lists, Matching, IsInjective
  <1> QED BY <1>1, ListAlways, PTL

-----------------------------------------------------------------------------
(* The detail view.                                                        *)

\* Snapshots, newest first.
LEMMA NewestFirst ==
  ASSUME NEW S, S \subseteq Snaps, IsFiniteSet(S)
  PROVE  Lists(Arranged(S, Newer), S)
  <1> DEFINE R == {p \in S \X S : Newer(p[1], p[2])}
             s == Arranged(S, Newer)
  <1>1. IsTotalOrder(R, S)
    <2> \A a, b \in S : a.time \in Nat /\ a.id \in Nat /\ (a.id = b.id => a = b)
      BY DetailAssumption
    <2> QED BY DEF IsTotalOrder, Newer
  <1>2. ASSUME NEW x \in S PROVE {y \in S : Newer(y, x)} = Before(R, S, x)
    BY DEF Before
  <1>3. \A i \in 1..Cardinality(S) : \E x \in S : Cardinality({y \in S : Newer(y, x)}) = i - 1
    <2> SUFFICES ASSUME NEW i \in 1..Cardinality(S)
                 PROVE  \E x \in S : Cardinality({y \in S : Newer(y, x)}) = i - 1
      OBVIOUS
    <2>1. Cardinality(S) \in Nat
      BY FS_CardinalityType
    <2>2. i - 1 \in 0..(Cardinality(S) - 1)
      BY <2>1
    <2> HIDE DEF R
    <2>3. PICK x \in S : Cardinality(Before(R, S, x)) = i - 1
      <3>1. \A k \in 0..(Cardinality(S) - 1) : \E x \in S : Cardinality(Before(R, S, x)) = k
        BY ONLY <1>1, IsFiniteSet(S), Ranks
      <3> QED BY ONLY <3>1, <2>2
    <2> QED BY <1>2, <2>3
  <1>4. \A i \in 1..Cardinality(S) : s[i] \in S /\ Cardinality(Before(R, S, s[i])) = i - 1
    <2> SUFFICES ASSUME NEW i \in 1..Cardinality(S)
                 PROVE  s[i] \in S /\ Cardinality(Before(R, S, s[i])) = i - 1
      OBVIOUS
    <2>1. s[i] = CHOOSE x \in S : Cardinality({y \in S : Newer(y, x)}) = i - 1
      BY DEF Arranged
    <2>2. s[i] \in S /\ Cardinality({y \in S : Newer(y, s[i])}) = i - 1
      <3> HIDE DEF R, s
      <3> QED BY ONLY <1>3, <2>1, i \in 1..Cardinality(S)
    <2> HIDE DEF R, s
    <2> QED BY <1>2, <2>2
  <1>5. s = [i \in 1..Cardinality(S) |-> s[i]]
    <2> DEFINE at(i) == CHOOSE x \in S : Cardinality({y \in S : Newer(y, x)}) = i - 1
    <2>1. s = [i \in 1..Cardinality(S) |-> at(i)]
      BY DEF Arranged
    <2> HIDE DEF at, s
    <2> QED BY ONLY <2>1
  <1> HIDE DEF R, s
  <1>6. Lists(s, S)
    BY <1>1, <1>4, <1>5, InOrder
  <1> QED BY <1>6 DEF s

Nodes(S) == {n \in [head : S, peers : SUBSET S] : \A p \in n.peers : Collapsible(n.head, p)}

Shows(nodes, s) == \E k \in DOMAIN nodes : s = nodes[k].head \/ s \in nodes[k].peers

\* A snapshot, folded into the last row or in a row of its own.
FoldInto(nodes, s) ==
    IF nodes # <<>> /\ Collapsible(Last(nodes).head, s)
    THEN [nodes EXCEPT ![Len(nodes)].peers = @ \cup {s}]
    ELSE Append(nodes, [head |-> s, peers |-> {}])

LEMMA FoldShows ==
  ASSUME NEW S, NEW nodes \in Seq(Nodes(S)), NEW s \in S
  PROVE  /\ FoldInto(nodes, s) \in Seq(Nodes(S))
         /\ Shows(FoldInto(nodes, s), s)
         /\ \A t : Shows(nodes, t) => Shows(FoldInto(nodes, s), t)
  <1> DEFINE W == Nodes(S)
             n == Len(nodes)
  <1>1. n \in Nat /\ DOMAIN nodes = 1..n /\ nodes \in [1..n -> W] /\ \A k \in 1..n : nodes[k] \in W
    <2>1. nodes \in Seq(W)
      OBVIOUS
    <2> HIDE DEF W
    <2> QED BY ONLY <2>1
  <1>2. CASE nodes # <<>> /\ Collapsible(Last(nodes).head, s)
    <2> DEFINE node == [nodes[n] EXCEPT !.peers = @ \cup {s}]
               new == [nodes EXCEPT ![n] = node]
    <2>1. n \in 1..n /\ Last(nodes) = nodes[n]
      <3> HIDE DEF W
      <3> QED BY <1>2 DEF Last
    <2>2. nodes[n] \in [head : S, peers : SUBSET S] /\ \A p \in nodes[n].peers : Collapsible(nodes[n].head, p)
      BY <1>1, <2>1 DEF Nodes
    <2>3. node.head = nodes[n].head /\ node.peers = nodes[n].peers \cup {s} /\ node \in [head : S, peers : SUBSET S]
      BY <2>2
    <2>4. node \in W
      BY <1>2, <2>1, <2>2, <2>3 DEF Nodes
    <2>5. FoldInto(nodes, s) = new
      BY <1>2 DEF FoldInto
    <2>6. new \in [1..n -> W] /\ new[n] = node /\ \A k \in 1..n : k # n => new[k] = nodes[k]
      <3> HIDE DEF W, node
      <3> QED BY <1>1, <2>1, <2>4
    <2> HIDE DEF new, node, W
    <2>7. new \in Seq(W) /\ DOMAIN new = 1..n
      <3> HIDE DEF n
      <3> QED BY ONLY <1>1, <2>6
    <2>8. Shows(new, s)
      BY <2>1, <2>3, <2>6, <2>7 DEF Shows
    <2>9. ASSUME NEW t, Shows(nodes, t) PROVE Shows(new, t)
      <3>1. PICK k \in 1..n : t = nodes[k].head \/ t \in nodes[k].peers
        BY <1>1, <2>9 DEF Shows
      <3>2. CASE k = n
        BY <2>3, <2>6, <2>7, <3>1, <3>2 DEF Shows
      <3>3. CASE k # n
        BY <2>6, <2>7, <3>1, <3>3 DEF Shows
      <3> QED BY <3>2, <3>3
    <2> QED BY <2>5, <2>7, <2>8, <2>9 DEF W
  <1>3. CASE ~(nodes # <<>> /\ Collapsible(Last(nodes).head, s))
    <2> DEFINE node == [head |-> s, peers |-> {}]
               new == Append(nodes, node)
    <2>1. node \in W /\ node.head = s
      BY DEF Nodes
    <2>2. FoldInto(nodes, s) = new
      BY <1>3 DEF FoldInto
    <2> HIDE DEF node, W
    <2>3. new \in Seq(W) /\ DOMAIN new = 1..(n + 1) /\ new[n + 1] = node /\ \A k \in 1..n : new[k] = nodes[k]
      BY <1>1, <2>1
    <2> HIDE DEF new
    <2>4. Shows(new, s)
      BY <1>1, <2>1, <2>3 DEF Shows
    <2>5. ASSUME NEW t, Shows(nodes, t) PROVE Shows(new, t)
      <3>1. PICK k \in 1..n : t = nodes[k].head \/ t \in nodes[k].peers
        BY <1>1, <2>5 DEF Shows
      <3>2. k \in 1..(n + 1)
        BY <1>1
      <3> QED BY <2>3, <3>1, <3>2 DEF Shows
    <2> QED BY <2>2, <2>3, <2>4, <2>5 DEF W
  <1> QED BY <1>2, <1>3

\* collapseTreeRuns loses no snapshot, and folds none into another's contents.
LEMMA Collapsed ==
  ASSUME NEW S, NEW snaps \in Seq(S)
  PROVE  /\ CollapseTreeRuns(snaps) \in Seq(Nodes(S))
         /\ \A s : Has(snaps, s) => Shows(CollapseTreeRuns(snaps), s)
  <1> DEFINE n == Len(snaps)
             W == Seq(Nodes(S))
             AreRows(f) == f = [i \in 0..n |-> IF i = 0 THEN <<>> ELSE FoldInto(f[i - 1], snaps[i])]
             rows == CHOOSE f : AreRows(f)
  <1>1. n \in Nat /\ DOMAIN snaps = 1..n /\ \A i \in 1..n : snaps[i] \in S
    OBVIOUS
  <1>2. CollapseTreeRuns(snaps) = rows[n]
    BY DEF CollapseTreeRuns, FoldInto
  <1>3. \E f : AreRows(f)
    <2> DEFINE step == [p \in (1..n) \X W |-> FoldInto(p[2], snaps[p[1]])]
    <2>1. \A i \in 1..n : \A nodes \in W : FoldInto(nodes, snaps[i]) \in W
      BY <1>1, FoldShows
    <2>2. IsStep(step, n, W) /\ <<>> \in W
      <3>1. <<>> \in W
        OBVIOUS
      <3>2. step \in [(1..n) \X W -> W]
        <4> HIDE DEF W
        <4> QED BY <2>1
      <3> QED BY <3>1, <3>2 DEF IsStep
    <2>3. PICK f : Iterates(f, step, <<>>, n, W)
      <3> HIDE DEF step, n, W
      <3> QED BY ONLY <1>1, <2>2, Recursion
    <2>4. f \in [0..n -> W] /\ f[0] = <<>> /\ \A i \in 1..n : f[i] = step[<<i, f[i - 1]>>]
      <3> HIDE DEF step, n, W
      <3> QED BY <2>3 DEF Iterates
    <2>5. ASSUME NEW i \in 1..n PROVE f[i] = FoldInto(f[i - 1], snaps[i])
      <3>1. i - 1 \in 0..n
        BY <1>1
      <3> HIDE DEF n, W
      <3>2. f[i - 1] \in W
        BY <2>4, <3>1
      <3> QED BY <2>4, <3>2
    <2>6. \A i \in 0..n : f[i] = IF i = 0 THEN <<>> ELSE FoldInto(f[i - 1], snaps[i])
      <3> HIDE DEF step, W
      <3> QED BY <1>1, <2>4, <2>5
    <2> HIDE DEF step, n, W
    <2> QED BY <2>4, <2>6
  <1>4. AreRows(rows)
    <2> HIDE DEF AreRows
    <2> QED BY <1>3
  <1>5. \A i \in 0..n : rows[i] = IF i = 0 THEN <<>> ELSE FoldInto(rows[i - 1], snaps[i])
    <2> HIDE DEF rows, n
    <2> QED BY <1>4
  <1> HIDE DEF rows, AreRows
  <1> DEFINE P == {m \in 0..n : rows[m] \in W /\ \A k \in 1..m : Shows(rows[m], snaps[k])}
  <1>6. 0 \in P
    <2>1. rows[0] = <<>> /\ <<>> \in W /\ 0 \in 0..n /\ 1..0 = {}
      BY <1>1, <1>5
    <2> HIDE DEF W
    <2> QED BY <2>1
  <1>7. ASSUME NEW m \in 0..(n - 1), m \in P PROVE m + 1 \in P
    <2>1. m + 1 \in 1..n /\ m + 1 # 0 /\ (m + 1) - 1 = m /\ m + 1 \in 0..n /\ 1..(m + 1) = (1..m) \cup {m + 1}
      BY <1>1
    <2>2. rows[m + 1] = FoldInto(rows[m], snaps[m + 1])
      BY <1>5, <2>1
    <2>3. rows[m] \in W /\ snaps[m + 1] \in S /\ \A k \in 1..m : Shows(rows[m], snaps[k])
      BY <1>1, <1>7, <2>1
    <2>4. /\ rows[m + 1] \in W /\ Shows(rows[m + 1], snaps[m + 1])
          /\ \A t : Shows(rows[m], t) => Shows(rows[m + 1], t)
      <3>1. rows[m] \in Seq(Nodes(S))
        BY <2>3
      <3> HIDE DEF n, W
      <3>2. /\ FoldInto(rows[m], snaps[m + 1]) \in Seq(Nodes(S)) /\ Shows(FoldInto(rows[m], snaps[m + 1]), snaps[m + 1])
            /\ \A t : Shows(rows[m], t) => Shows(FoldInto(rows[m], snaps[m + 1]), t)
        <4> DEFINE next == snaps[m + 1]
                   nodes == rows[m]
        <4>1. next \in S /\ nodes \in Seq(Nodes(S))
          BY <2>3, <3>1
        <4> HIDE DEF next, nodes
        <4>2. /\ FoldInto(nodes, next) \in Seq(Nodes(S)) /\ Shows(FoldInto(nodes, next), next)
              /\ \A t : Shows(nodes, t) => Shows(FoldInto(nodes, next), t)
          BY ONLY <4>1, FoldShows
        <4> QED BY <4>2 DEF next, nodes
      <3> QED BY <2>2, <3>2 DEF W
    <2> HIDE DEF W
    <2> QED BY <2>1, <2>3, <2>4
  <1>8. n \in P
    <2>1. \A m \in 0..n : m \in P
      <3> HIDE DEF P, n
      <3> QED BY ONLY <1>1, <1>6, <1>7, Induction
    <2> QED BY <1>1, <2>1
  <1> QED BY <1>1, <1>2, <1>8 DEF Has

\* The rows of one section.
RowsOf(section, collapse) ==
    IF collapse THEN CollapseTreeRuns(section)
    ELSE [i \in DOMAIN section |-> [head |-> section[i], peers |-> {}]]

LEMMA SectionRows ==
  ASSUME NEW S, NEW T, T \subseteq S, NEW section, Lists(section, T), NEW collapse \in BOOLEAN
  PROVE  RowsOf(section, collapse) \in Seq(Nodes(S)) /\ \A s \in T : Shows(RowsOf(section, collapse), s)
  <1>1. section \in Seq(S) /\ \A s \in T : Has(section, s)
    <2>1. section \in Seq(T) /\ \A s \in T : Has(section, s)
      BY DEF Lists, Has
    <2> QED BY <2>1, SeqMonotone
  <1>2. CASE collapse
    BY <1>1, <1>2, Collapsed DEF RowsOf
  <1>3. CASE ~collapse
    <2> DEFINE W == Nodes(S)
               n == Len(section)
               rows == [i \in 1..n |-> [head |-> section[i], peers |-> {}]]
    <2>1. n \in Nat /\ DOMAIN section = 1..n /\ \A i \in 1..n : section[i] \in S
      BY <1>1
    <2>2. RowsOf(section, collapse) = rows
      BY <1>3, <2>1 DEF RowsOf
    <2>3. \A i \in 1..n : rows[i] \in W /\ rows[i].head = section[i]
      BY <2>1 DEF Nodes
    <2>4. rows \in [1..n -> W]
      <3>1. rows = [i \in 1..n |-> rows[i]]
        OBVIOUS
      <3> HIDE DEF rows, n, W
      <3> QED BY <2>3, <3>1
    <2> HIDE DEF rows, n, W
    <2>5. rows \in Seq(W) /\ DOMAIN rows = 1..n
      BY ONLY <2>1, <2>4
    <2>6. \A s \in T : Shows(rows, s)
      BY <1>1, <2>1, <2>3, <2>5 DEF Shows, Has
    <2> QED BY <2>2, <2>5, <2>6 DEF W
  <1> QED BY <1>2, <1>3

Shown(d) == d.snaps \subseteq Snaps /\ IsFiniteSet(d.snaps) /\ d.mode \in DOMAIN Modes /\ d.collapse \in BOOLEAN

\* However they are grouped and folded, the rows have every snapshot.
LEMMA RowsShowAll ==
  ASSUME NEW d, Shown(d)
  PROVE  SnapDisplay(d) \in Seq(Nodes(d.snaps)) /\ \A s \in d.snaps : Shows(SnapDisplay(d), s)
  <1> DEFINE S == d.snaps
             key == [s \in S |-> IF Modes[d.mode] = "off" THEN 0 ELSE s[Modes[d.mode]]]
             K == {IF Modes[d.mode] = "off" THEN 0 ELSE s[Modes[d.mode]] : s \in S}
             keys == Arranged(K, LAMBDA i, j : i # 0 /\ (j = 0 \/ i < j))
             part(i) == {s \in S : (IF Modes[d.mode] = "off" THEN 0 ELSE s[Modes[d.mode]]) = keys[i]}
             section(i) == Arranged(part(i), Newer)
             ss == [i \in DOMAIN keys |-> RowsOf(section(i), d.collapse)]
  <1>1. S \subseteq Snaps /\ IsFiniteSet(S) /\ d.mode \in 1..4 /\ d.collapse \in BOOLEAN
    BY DEF Shown, Modes
  <1>2. SnapDisplay(d) = FlattenSeq(ss)
    <2> DEFINE sections == SnapSections(S, d.mode)
    <2>1. sections = [i \in DOMAIN keys |-> section(i)]
      BY DEF SnapSections
    <2>2. SnapDisplay(d) = FlattenSeq([i \in DOMAIN sections |-> RowsOf(sections[i], d.collapse)])
      BY DEF SnapDisplay, RowsOf
    <2> HIDE DEF keys, section, sections
    <2>3. [i \in DOMAIN sections |-> RowsOf(sections[i], d.collapse)] = ss
      BY ONLY <2>1
    <2> QED BY ONLY <2>2, <2>3
  <1>3. \A s \in S : key[s] \in Nat /\ key[s] \in K
    <2>1. Modes[d.mode] \in {"off", "host", "tags", "paths"}
      BY <1>1 DEF Modes
    <2>2. \A s \in S : s.host \in Nat /\ s.tags \in Nat /\ s.paths \in Nat
      BY <1>1, DetailAssumption
    <2> QED BY <2>1, <2>2
  <1>4. K \subseteq Nat /\ IsFiniteSet(K)
    <2>1. K \subseteq Nat
      BY <1>3
    <2>2. key \in Surjection(S, K)
      <3> HIDE DEF S
      <3> QED BY DEF Surjection
    <2> HIDE DEF S, key, K
    <2> QED BY <1>1, <2>1, <2>2, FS_Surjection
  <1>5. Lists(keys, K)
    <2> HIDE DEF K
    <2> QED BY <1>4, KeysInOrder
  <1>6. DOMAIN keys = 1..Len(keys) /\ Len(keys) \in Nat
    <2> HIDE DEF keys, K
    <2> QED BY ONLY <1>5 DEF Lists
  <1>7. ASSUME NEW i \in DOMAIN keys
        PROVE  ss[i] \in Seq(Nodes(S)) /\ \A s \in part(i) : Shows(ss[i], s)
    <2>1. part(i) \subseteq S /\ part(i) \in SUBSET S
      OBVIOUS
    <2>2. part(i) \subseteq Snaps /\ IsFiniteSet(part(i))
      <3> HIDE DEF part, S
      <3> QED BY <1>1, <2>1, FS_Subset
    <2>3. Lists(section(i), part(i))
      <3> HIDE DEF part, S
      <3> QED BY <2>2, NewestFirst
    <2>4. ss[i] = RowsOf(section(i), d.collapse)
      <3> HIDE DEF section, keys
      <3> QED OBVIOUS
    <2> HIDE DEF section, part, keys, S, ss
    <2> QED BY <1>1, <2>1, <2>3, <2>4, SectionRows
  <1> DEFINE V == Nodes(S)
  <1>8. ss \in Seq(Seq(V)) /\ DOMAIN ss = DOMAIN keys
    <2>1. ss = [i \in DOMAIN keys |-> ss[i]]
      <3> HIDE DEF keys, section
      <3> QED OBVIOUS
    <2> DEFINE W == Seq(V)
    <2>2. \A i \in DOMAIN keys : ss[i] \in W
      BY <1>7
    <2> HIDE DEF ss, keys, V, W
    <2>3. ss \in [1..Len(keys) -> W] /\ DOMAIN ss = DOMAIN keys
      BY ONLY <1>6, <2>1, <2>2
    <2>4. ss \in Seq(W)
      BY ONLY <1>6, <2>3
    <2> QED BY <2>3, <2>4 DEF W
  <1>9. FlattenSeq(ss) \in Seq(V) /\ \A v : Has(FlattenSeq(ss), v) <=> \E k \in DOMAIN ss : Has(ss[k], v)
    <2> HIDE DEF ss, V
    <2> QED BY <1>8, Flattened
  <1>10. ASSUME NEW s \in S PROVE Shows(FlattenSeq(ss), s)
    <2>1. key[s] \in K
      BY <1>3
    <2>2. PICK i \in DOMAIN keys : keys[i] = key[s]
      <3> HIDE DEF keys, K, key
      <3> QED BY <1>5, <2>1 DEF Lists
    <2>3. s \in part(i)
      <3> HIDE DEF keys
      <3> QED BY <2>2
    <2>4. Shows(ss[i], s)
      <3> HIDE DEF ss, part, keys
      <3> QED BY <1>7, <2>3
    <2> HIDE DEF ss, keys, V
    <2>5. PICK k \in DOMAIN ss[i] : s = ss[i][k].head \/ s \in ss[i][k].peers
      BY <2>4 DEF Shows
    <2>6. Has(ss[i], ss[i][k])
      BY DEF Has
    <2>7. Has(FlattenSeq(ss), ss[i][k])
      BY <1>8, <1>9, <2>6
    <2> QED BY <2>5, <2>7 DEF Has, Shows
  <1> HIDE DEF ss
  <1> QED BY <1>2, <1>9, <1>10

-----------------------------------------------------------------------------
(* The marks. *)

Apart(marks) == \A i, j \in DOMAIN marks : i # j => marks[i].id # marks[j].id

HeadOf(nodes, s) == nodes[CHOOSE i \in DOMAIN nodes : InNode(nodes[i], s.id)].head

\* A mark, if a row has it, becomes a mark of that row.
Keep(out, s, nodes) ==
    IF (\A i \in DOMAIN nodes : ~InNode(nodes[i], s.id)) \/ Contains(out, HeadOf(nodes, s))
    THEN out ELSE Append(out, HeadOf(nodes, s))

\* The row that has a snapshot is a row of the same contents and source.
LEMMA HeadOfIs ==
  ASSUME NEW S, S \subseteq Snaps, NEW nodes \in Seq(Nodes(S)), NEW s \in Snaps,
         \E i \in DOMAIN nodes : InNode(nodes[i], s.id)
  PROVE  HeadOf(nodes, s) \in S /\ SameBackup(s, HeadOf(nodes, s))
  <1> DEFINE k == CHOOSE i \in DOMAIN nodes : InNode(nodes[i], s.id)
  <1>1. k \in DOMAIN nodes /\ InNode(nodes[k], s.id) /\ HeadOf(nodes, s) = nodes[k].head
    BY DEF HeadOf
  <1> HIDE DEF k
  <1>2. nodes[k] \in Nodes(S)
    <2> DEFINE W == Nodes(S)
    <2>1. nodes \in Seq(W)
      OBVIOUS
    <2> HIDE DEF W
    <2>2. nodes[k] \in W
      BY ONLY <1>1, <2>1
    <2> QED BY <2>2 DEF W
  <1>3. /\ nodes[k].head \in S /\ nodes[k].peers \subseteq S
        /\ \A p \in nodes[k].peers : Collapsible(nodes[k].head, p)
    BY <1>2 DEF Nodes
  <1>4. PICK p \in {nodes[k].head} \cup nodes[k].peers : p.id = s.id
    BY <1>1 DEF InNode
  <1>5. p = s
    BY <1>3, <1>4, DetailAssumption
  <1>6. s = nodes[k].head \/ Collapsible(nodes[k].head, s)
    BY <1>3, <1>4, <1>5
  <1> QED BY <1>1, <1>3, <1>6 DEF SameBackup, Collapsible

LEMMA ShowsIsInNode ==
  ASSUME NEW nodes, NEW s, Shows(nodes, s)
  PROVE  \E i \in DOMAIN nodes : InNode(nodes[i], s.id)
  BY DEF Shows, InNode

LEMMA Keeps ==
  ASSUME NEW S, S \subseteq Snaps, NEW nodes \in Seq(Nodes(S)), NEW s \in Snaps, NEW out \in Seq(S), Apart(out)
  PROVE  /\ Keep(out, s, nodes) \in Seq(S) /\ Apart(Keep(out, s, nodes)) /\ Len(Keep(out, s, nodes)) <= Len(out) + 1
         /\ \A v : Has(out, v) => Has(Keep(out, s, nodes), v)
         /\ Shows(nodes, s) => \E v : Has(Keep(out, s, nodes), v) /\ SameBackup(s, v)
  <1> DEFINE h == HeadOf(nodes, s)
  <1>1. Len(out) \in Nat /\ DOMAIN out = 1..Len(out) /\ \A i \in DOMAIN out : out[i] \in S
    OBVIOUS
  <1>2. CASE \A i \in DOMAIN nodes : ~InNode(nodes[i], s.id)
    <2>1. Keep(out, s, nodes) = out
      BY <1>2 DEF Keep
    <2> QED BY <1>1, <1>2, <2>1, ShowsIsInNode
  <1>3. CASE \E i \in DOMAIN nodes : InNode(nodes[i], s.id)
    <2>1. h \in S /\ SameBackup(s, h)
      BY <1>3, HeadOfIs
    <2>2. CASE Contains(out, h)
      <3>1. Keep(out, s, nodes) = out
        BY <2>2 DEF Keep
      <3>2. Has(out, h)
        BY <1>1, <2>2 DEF Contains, Has
      <3> QED BY <1>1, <2>1, <3>1, <3>2
    <2>3. CASE ~Contains(out, h)
      <3> DEFINE new == Append(out, h)
      <3>1. Keep(out, s, nodes) = new
        BY <1>3, <2>3 DEF Keep
      <3> HIDE DEF h
      <3>2. /\ new \in Seq(S) /\ Len(new) = Len(out) + 1 /\ DOMAIN new = 1..(Len(out) + 1)
            /\ new[Len(out) + 1] = h /\ \A i \in 1..Len(out) : new[i] = out[i]
        BY <1>1, <2>1
      <3> HIDE DEF new
      <3>3. \A i \in 1..Len(out) : out[i].id # h.id
        BY <1>1, <2>1, <2>3, DetailAssumption DEF Contains
      <3>4. Apart(new)
        BY <1>1, <3>2, <3>3 DEF Apart
      <3>5. Has(new, h) /\ \A v : Has(out, v) => Has(new, v)
        BY <1>1, <3>2 DEF Has
      <3>6. Len(new) <= Len(out) + 1
        BY <1>1, <3>2
      <3> QED BY <2>1, <3>1, <3>2, <3>4, <3>5, <3>6
    <2> QED BY <2>2, <2>3
  <1> QED BY <1>2, <1>3

\* Each mark that a row has stays a mark, of a snapshot with the same contents
\* and source, and no snapshot is marked twice.
LEMMA NormalizedMarks ==
  ASSUME NEW S, S \subseteq Snaps, NEW nodes \in Seq(Nodes(S)), NEW marks \in Seq(Snaps)
  PROVE  /\ Normalized(marks, nodes) \in Seq(S) /\ Apart(Normalized(marks, nodes))
         /\ Len(Normalized(marks, nodes)) <= Len(marks)
         /\ \A i \in DOMAIN marks : Shows(nodes, marks[i]) =>
                \E v : Has(Normalized(marks, nodes), v) /\ SameBackup(marks[i], v)
  <1> DEFINE n == Len(marks)
             W == {out \in Seq(S) : Apart(out)}
             IsKept(f) == f = [i \in 0..n |-> IF i = 0 THEN <<>> ELSE Keep(f[i - 1], marks[i], nodes)]
             kept == CHOOSE f : IsKept(f)
  <1>1. n \in Nat /\ DOMAIN marks = 1..n /\ \A i \in 1..n : marks[i] \in Snaps
    OBVIOUS
  <1>2. Normalized(marks, nodes) = kept[n]
    BY DEF Normalized, Keep, HeadOf
  <1>3. <<>> \in W /\ Len(<<>>) = 0
    BY DEF Apart
  <1>4. \A i \in 1..n : \A out \in W : Keep(out, marks[i], nodes) \in W
    BY <1>1, Keeps
  <1>5. \E f : IsKept(f)
    <2> DEFINE step == [p \in (1..n) \X W |-> Keep(p[2], marks[p[1]], nodes)]
    <2>1. IsStep(step, n, W)
      <3>1. step \in [(1..n) \X W -> W]
        <4> HIDE DEF W
        <4> QED BY <1>4
      <3> QED BY <3>1 DEF IsStep
    <2>2. PICK f : Iterates(f, step, <<>>, n, W)
      <3> HIDE DEF step, n, W
      <3> QED BY ONLY <1>1, <1>3, <2>1, Recursion
    <2>3. f \in [0..n -> W] /\ f[0] = <<>> /\ \A i \in 1..n : f[i] = step[<<i, f[i - 1]>>]
      <3> HIDE DEF step, n, W
      <3> QED BY <2>2 DEF Iterates
    <2>4. ASSUME NEW i \in 1..n PROVE f[i] = Keep(f[i - 1], marks[i], nodes)
      <3>1. i - 1 \in 0..n
        BY <1>1
      <3> HIDE DEF n, W
      <3>2. f[i - 1] \in W
        BY <2>3, <3>1
      <3> QED BY <2>3, <3>2
    <2>5. \A i \in 0..n : f[i] = IF i = 0 THEN <<>> ELSE Keep(f[i - 1], marks[i], nodes)
      <3> HIDE DEF step, W
      <3> QED BY <1>1, <2>3, <2>4
    <2> HIDE DEF step, n, W
    <2> QED BY <2>3, <2>5
  <1>6. IsKept(kept)
    <2> HIDE DEF IsKept
    <2> QED BY <1>5
  <1>7. \A i \in 0..n : kept[i] = IF i = 0 THEN <<>> ELSE Keep(kept[i - 1], marks[i], nodes)
    <2> HIDE DEF kept, n
    <2> QED BY <1>6
  <1> HIDE DEF kept, IsKept
  <1> DEFINE Good(out, m) ==
                 /\ out \in W /\ Len(out) <= m
                 /\ \A i \in 1..m : Shows(nodes, marks[i]) => \E v : Has(out, v) /\ SameBackup(marks[i], v)
             P == {m \in 0..n : Good(kept[m], m)}
  <1>8. 0 \in P
    <2>1. kept[0] = <<>> /\ 0 \in 0..n /\ 1..0 = {}
      BY <1>1, <1>7
    <2> HIDE DEF W
    <2> QED BY <1>3, <2>1
  <1>9. ASSUME NEW m \in 0..(n - 1), m \in P PROVE m + 1 \in P
    <2>1. m + 1 \in 1..n /\ m + 1 # 0 /\ (m + 1) - 1 = m /\ m + 1 \in 0..n /\ 1..(m + 1) = (1..m) \cup {m + 1}
      BY <1>1
    <2> DEFINE out == kept[m]
               s == marks[m + 1]
    <2>2. Good(out, m)
      BY <1>9
    <2>3. kept[m + 1] = Keep(out, s, nodes)
      BY <1>7, <2>1
    <2>4. s \in Snaps /\ out \in Seq(S) /\ Apart(out) /\ Len(out) <= m /\ Len(out) \in Nat
      BY <1>1, <2>1, <2>2
    <2> DEFINE new == Keep(out, s, nodes)
    <2>5. /\ new \in Seq(S) /\ Apart(new) /\ Len(new) <= Len(out) + 1
          /\ \A v : Has(out, v) => Has(new, v)
          /\ Shows(nodes, s) => \E v : Has(new, v) /\ SameBackup(s, v)
      <3> HIDE DEF out, s
      <3> QED BY <2>4, Keeps
    <2>6. new \in W /\ Len(new) <= m + 1 /\ Len(new) \in Nat
      <3>1. new \in W /\ Len(new) \in Nat
        <4> HIDE DEF new
        <4> QED BY <2>5
      <3> HIDE DEF new, out
      <3> QED BY <2>4, <2>5, <3>1
    <2>7. \A i \in 1..(m + 1) : Shows(nodes, marks[i]) => \E v : Has(new, v) /\ SameBackup(marks[i], v)
      <3> SUFFICES ASSUME NEW i \in 1..(m + 1), Shows(nodes, marks[i])
                   PROVE  \E v : Has(new, v) /\ SameBackup(marks[i], v)
        OBVIOUS
      <3>1. CASE i \in 1..m
        <4>1. PICK v : Has(out, v) /\ SameBackup(marks[i], v)
          <5> HIDE DEF out
          <5> QED BY <2>2, <3>1
        <4> HIDE DEF new, out
        <4> QED BY <2>5, <4>1
      <3>2. CASE i = m + 1
        <4> HIDE DEF new
        <4> QED BY <2>5, <3>2
      <3> QED BY <2>1, <3>1, <3>2
    <2>8. Good(new, m + 1)
      <3> HIDE DEF new, W
      <3> QED BY <2>6, <2>7
    <2> HIDE DEF Good
    <2> QED BY <2>1, <2>3, <2>8
  <1>10. Good(kept[n], n)
    <2>1. \A m \in 0..n : m \in P
      <3> HIDE DEF P, n
      <3> QED BY ONLY <1>1, <1>8, <1>9, Induction
    <2>2. n \in P
      BY <1>1, <2>1
    <2> HIDE DEF Good
    <2> QED BY <2>2
  <1> QED BY <1>1, <1>2, <1>10

-----------------------------------------------------------------------------
(* The steps. *)

DetailFields == [snaps : Refreshed, mode : DOMAIN Modes, collapse : BOOLEAN, cursor : Nat \ {0}, marks : Seq(Snaps)]

DetailIInv == detail \in DetailFields /\ Len(detail.marks) <= 2 /\ Apart(detail.marks)

\* The rows depend on the snapshots and on how they are grouped and folded.
LEMMA SameRows ==
  ASSUME NEW d, NEW e, d.snaps = e.snaps, d.mode = e.mode, d.collapse = e.collapse
  PROVE  SnapDisplay(d) = SnapDisplay(e)
  BY DEF SnapDisplay

LEMMA FieldsShown ==
  ASSUME NEW d \in DetailFields
  PROVE  Shown(d)
  BY DetailAssumption DEF DetailFields, Shown

\* The row under the cursor is there as long as a snapshot is.
LEMMA CursorSelects ==
  ASSUME NEW d \in DetailFields, d.snaps # {}
  PROVE  /\ SnapDisplay(d) # <<>> /\ Len(SnapDisplay(d)) \in Nat \ {0}
         /\ SelectedSnap(d) \in d.snaps
  <1> DEFINE rows == SnapDisplay(d)
             W == Nodes(d.snaps)
  <1>1. rows \in Seq(W) /\ \E s \in d.snaps : Shows(rows, s)
    BY FieldsShown, RowsShowAll
  <1>2. DOMAIN rows # {}
    <2> HIDE DEF rows, W
    <2> QED BY <1>1 DEF Shows
  <1> DEFINE k == Clamp(d.cursor, Len(rows))
  <1>3. Len(rows) \in Nat \ {0} /\ rows # <<>> /\ k \in DOMAIN rows
    <2>1. d.cursor \in Nat \ {0}
      BY DEF DetailFields
    <2> HIDE DEF rows, W
    <2>2. Len(rows) \in Nat /\ DOMAIN rows = 1..Len(rows)
      BY <1>1
    <2>3. Len(rows) # 0
      BY <1>2, <2>2
    <2> QED BY <1>2, <2>1, <2>2, <2>3 DEF Clamp
  <1>4. rows[k] \in W
    <2> HIDE DEF rows, W, k
    <2> QED BY <1>1, <1>3
  <1>5. SelectedSnap(d) = rows[k].head
    BY DEF SelectedSnap, SelectedNode
  <1> QED BY <1>3, <1>4, <1>5 DEF Nodes

\* The row a snapshot is in.
LEMMA RowOf ==
  ASSUME NEW nodes, NEW W, nodes \in Seq(W), NEW id
  PROVE  /\ IndexOfSnap(nodes, id) \in Nat \ {0}
         /\ (\E i \in DOMAIN nodes : InNode(nodes[i], id)) =>
                IndexOfSnap(nodes, id) \in DOMAIN nodes /\ InNode(nodes[IndexOfSnap(nodes, id)], id)
  <1> DEFINE I == {j \in 1..Len(nodes) : InNode(nodes[j], id)}
  <1>1. Len(nodes) \in Nat /\ DOMAIN nodes = 1..Len(nodes)
    OBVIOUS
  <1>2. CASE I = {}
    <2>1. IndexOfSnap(nodes, id) = 1
      BY <1>2 DEF IndexOfSnap, SelectInSeq
    <2> QED BY <1>1, <1>2, <2>1
  <1>3. CASE I # {}
    <2>1. \E k \in I : \A j \in I : k <= j
      <3>1. I \in SUBSET Nat
        BY <1>1
      <3> HIDE DEF I
      <3> QED BY <1>3, <3>1, Least
    <2>2. Min(I) \in I
      <3> HIDE DEF I
      <3> QED BY <2>1 DEF Min
    <2>3. Min(I) # 0
      BY <1>1, <2>2
    <2>4. IndexOfSnap(nodes, id) = Min(I)
      BY <1>3, <2>3 DEF IndexOfSnap, SelectInSeq
    <2> QED BY <1>1, <2>2, <2>4
  <1> QED BY <1>2, <1>3

\* Marks that follow new rows.
LEMMA MarksFollow ==
  ASSUME NEW d \in DetailFields, NEW new \in DetailFields, Len(d.marks) <= 2, new.marks = d.marks
  PROVE  LET marks == Normalized(d.marks, SnapDisplay(new))
         IN  /\ marks \in Seq(Snaps) /\ Apart(marks) /\ Len(marks) <= 2
             /\ \A i \in DOMAIN d.marks : d.marks[i] \in new.snaps =>
                    \E j \in DOMAIN marks : SameBackup(d.marks[i], marks[j])
  <1> DEFINE rows == SnapDisplay(new)
             S == new.snaps
             marks == Normalized(d.marks, rows)
  <1>1. rows \in Seq(Nodes(S)) /\ (\A s \in S : Shows(rows, s)) /\ S \subseteq Snaps
    BY FieldsShown, RowsShowAll DEF Shown
  <1>2. d.marks \in Seq(Snaps) /\ Len(d.marks) \in Nat
    BY DEF DetailFields
  <1>3. /\ marks \in Seq(S) /\ Apart(marks) /\ Len(marks) <= Len(d.marks)
        /\ \A i \in DOMAIN d.marks : Shows(rows, d.marks[i]) => \E v : Has(marks, v) /\ SameBackup(d.marks[i], v)
    <2> HIDE DEF rows, S
    <2> QED BY <1>1, <1>2, NormalizedMarks
  <1> HIDE DEF marks, rows
  <1>4. marks \in Seq(Snaps)
    BY <1>1, <1>3, SeqMonotone
  <1>5. Len(marks) \in Nat
    BY <1>4
  <1> QED BY <1>1, <1>2, <1>3, <1>4, <1>5 DEF Has, marks, rows

LEMMA InRange ==
  ASSUME NEW i \in Nat, NEW n \in Nat, i <= n
  PROVE  Clamp(i, n) = i
  BY DEF Clamp

LEMMA Reanchors ==
  ASSUME NEW d \in DetailFields, Len(d.marks) <= 2, d.snaps # {},
         NEW new \in DetailFields, new.snaps = d.snaps, new.marks = d.marks
  PROVE  LET e == Reanchored(d, new)
         IN  /\ e \in DetailFields /\ Len(e.marks) <= 2 /\ Apart(e.marks)
             /\ e.snaps = d.snaps
             /\ InNode(SelectedNode(e), SelectedSnap(d).id)
             /\ \A i \in DOMAIN d.marks : d.marks[i] \in e.snaps =>
                    \E j \in DOMAIN e.marks : SameBackup(d.marks[i], e.marks[j])
  <1> DEFINE rows == SnapDisplay(new)
             marks == Normalized(d.marks, rows)
             at == IndexOfSnap(rows, SelectedSnap(d).id)
             e == Reanchored(d, new)
  <1>1. rows # <<>> /\ SelectedSnap(d) \in d.snaps
    BY CursorSelects
  <1>2. e = [new EXCEPT !.marks = marks, !.cursor = at]
    BY <1>1 DEF Reanchored
  <1>3. /\ marks \in Seq(Snaps) /\ Apart(marks) /\ Len(marks) <= 2
        /\ \A i \in DOMAIN d.marks : d.marks[i] \in new.snaps =>
               \E j \in DOMAIN marks : SameBackup(d.marks[i], marks[j])
    BY MarksFollow
  <1>4. rows \in Seq(Nodes(d.snaps)) /\ \A s \in d.snaps : Shows(rows, s)
    BY FieldsShown, RowsShowAll
  <1>5. at \in Nat \ {0} /\ at \in DOMAIN rows /\ InNode(rows[at], SelectedSnap(d).id)
    <2>1. \E i \in DOMAIN rows : InNode(rows[i], SelectedSnap(d).id)
      BY <1>1, <1>4, ShowsIsInNode
    <2> HIDE DEF rows
    <2> QED BY <1>4, <2>1, RowOf
  <1> HIDE DEF marks, at
  <1>6. /\ e \in DetailFields /\ e.snaps = new.snaps /\ e.mode = new.mode /\ e.collapse = new.collapse
        /\ e.marks = marks /\ e.cursor = at
    <2> HIDE DEF e
    <2> QED BY <1>2, <1>3, <1>5 DEF DetailFields
  <1> HIDE DEF e
  <1>7. SnapDisplay(e) = rows
    BY <1>6, SameRows
  <1>8. SelectedNode(e) = rows[at]
    <2>1. Clamp(at, Len(rows)) = at
      <3> HIDE DEF rows
      <3>1. Len(rows) \in Nat /\ DOMAIN rows = 1..Len(rows)
        BY <1>4
      <3>2. at \in Nat /\ at <= Len(rows)
        BY <1>5, <3>1
      <3> QED BY ONLY <3>1, <3>2, InRange
    <2> QED BY <1>6, <1>7, <2>1 DEF SelectedNode
  <1> QED BY <1>3, <1>5, <1>6, <1>8 DEF e

\* Without snapshots there is no row, and nothing the cursor could keep.
LEMMA ReanchorsNone ==
  ASSUME NEW d \in DetailFields, Len(d.marks) <= 2, d.snaps = {},
         NEW new \in DetailFields, new.snaps = d.snaps, new.marks = d.marks
  PROVE  LET e == Reanchored(d, new)
         IN  /\ e \in DetailFields /\ Len(e.marks) <= 2 /\ Apart(e.marks) /\ e.snaps = {}
  <1> DEFINE rows == SnapDisplay(new)
             marks == Normalized(d.marks, rows)
             e == Reanchored(d, new)
  <1>1. rows = <<>>
    <2>1. rows \in Seq(Nodes(d.snaps))
      BY FieldsShown, RowsShowAll
    <2>2. Nodes(d.snaps) = {}
      BY DEF Nodes
    <2> HIDE DEF rows
    <2> QED BY <2>1, <2>2
  <1>2. e = [new EXCEPT !.marks = marks, !.cursor = 1]
    BY <1>1 DEF Reanchored
  <1>3. marks \in Seq(Snaps) /\ Apart(marks) /\ Len(marks) <= 2
    BY MarksFollow
  <1> HIDE DEF marks, e
  <1>4. e \in DetailFields /\ e.snaps = new.snaps /\ e.marks = marks
    <2>1. 1 \in Nat \ {0}
      OBVIOUS
    <2> QED BY <1>2, <1>3, <2>1 DEF DetailFields
  <1> QED BY <1>3, <1>4 DEF e

LEMMA DetailInitInv == DetailInit => DetailIInv
  <1> SUFFICES ASSUME DetailInit PROVE DetailIInv
    OBVIOUS
  <1>1. PICK S \in Refreshed : detail = [snaps |-> S, mode |-> 1, collapse |-> FALSE, cursor |-> 1, marks |-> <<>>]
    BY DEF DetailInit
  <1>2. 1 \in DOMAIN Modes
    BY DEF Modes
  <1> QED BY <1>1, <1>2 DEF DetailIInv, DetailFields, Apart

LEMMA OtherKeys ==
  ASSUME Navigate \/ BrowseKeys \/ FindKeys \/ DiffKeys \/ Deliver
  PROVE  detail' = detail
  <1>1. CASE Navigate
    BY <1>1 DEF Navigate
  <1>2. CASE BrowseKeys
    BY <1>2 DEF BrowseKeys, StartBrowse, BrowseBack, RestoreSearch, OpenDir, ParentDir, OpenSearch, EditQuery,
                AcceptSearch, LeaveSearch
  <1>3. CASE FindKeys
    BY <1>3 DEF FindKeys, StartFind, HostToggle, FindBack
  <1>4. CASE DiffKeys
    BY <1>4 DEF DiffKeys, StartDiff, Rerun, ToggleFilter, MoveInTree, OpenDiffSearch, AcceptDiffSearch,
                UndoDiffSearch, DiffBack, OpenDiffInfo, CloseDiffInfo
  <1>5. CASE Deliver
    <2>1. PICK f \in flight : BrowseAnswer(f) \/ FindAnswer(f) \/ DiffAnswer(f)
      BY <1>5 DEF Deliver
    <2>2. CASE BrowseAnswer(f)
      BY <2>2 DEF BrowseAnswer, DropBrowse, ApplyIndexed, ApplyDir, ApplySearch
    <2>3. CASE FindAnswer(f)
      BY <2>3 DEF FindAnswer
    <2>4. CASE DiffAnswer(f)
      BY <2>4 DEF DiffAnswer
    <2> QED BY <2>1, <2>2, <2>3, <2>4
  <1> QED BY <1>1, <1>2, <1>3, <1>4, <1>5

\* One field at a time.
LEMMA DetailField ==
  ASSUME NEW d, d \in DetailFields
  PROVE  /\ \A m \in DOMAIN Modes : [d EXCEPT !.mode = m] \in DetailFields
         /\ \A b \in BOOLEAN : [d EXCEPT !.collapse = b] \in DetailFields
         /\ \A c \in Nat \ {0} : [d EXCEPT !.cursor = c] \in DetailFields
         /\ \A k \in Seq(Snaps) : [d EXCEPT !.marks = k] \in DetailFields
  <1>1. \A m \in DOMAIN Modes : [d EXCEPT !.mode = m] \in DetailFields
    BY DEF DetailFields
  <1>2. \A b \in BOOLEAN : [d EXCEPT !.collapse = b] \in DetailFields
    BY DEF DetailFields
  <1>3. \A c \in Nat \ {0} : [d EXCEPT !.cursor = c] \in DetailFields
    BY DEF DetailFields
  <1>4. \A k \in Seq(Snaps) : [d EXCEPT !.marks = k] \in DetailFields
    BY DEF DetailFields
  <1> QED BY <1>1, <1>2, <1>3, <1>4

LEMMA Opened ==
  ASSUME NEW d, d \in DetailFields
  PROVE  /\ [d EXCEPT !.cursor = 1, !.mode = 1, !.collapse = FALSE] \in DetailFields
         /\ [d EXCEPT !.marks = <<>>, !.mode = 1, !.collapse = FALSE] \in DetailFields
  <1>1. 1 \in DOMAIN Modes /\ <<>> \in Seq(Snaps)
    BY DEF Modes
  <1>2. [[[d EXCEPT !.cursor = 1] EXCEPT !.mode = 1] EXCEPT !.collapse = FALSE] \in DetailFields
    <2>1. [d EXCEPT !.cursor = 1] \in DetailFields
      BY DetailField
    <2>2. [[d EXCEPT !.cursor = 1] EXCEPT !.mode = 1] \in DetailFields
      BY <1>1, <2>1, DetailField
    <2> QED BY <2>2, DetailField
  <1>3. [[[d EXCEPT !.marks = <<>>] EXCEPT !.mode = 1] EXCEPT !.collapse = FALSE] \in DetailFields
    <2>1. [d EXCEPT !.marks = <<>>] \in DetailFields
      BY <1>1, DetailField
    <2>2. [[d EXCEPT !.marks = <<>>] EXCEPT !.mode = 1] \in DetailFields
      BY <1>1, <2>1, DetailField
    <2> QED BY <2>2, DetailField
  <1>4. [d EXCEPT !.cursor = 1, !.mode = 1, !.collapse = FALSE] = [[[d EXCEPT !.cursor = 1] EXCEPT !.mode = 1] EXCEPT !.collapse = FALSE]
    OBVIOUS
  <1>5. [d EXCEPT !.marks = <<>>, !.mode = 1, !.collapse = FALSE] = [[[d EXCEPT !.marks = <<>>] EXCEPT !.mode = 1] EXCEPT !.collapse = FALSE]
    OBVIOUS
  <1> QED BY <1>2, <1>3, <1>4, <1>5

LEMMA Marked ==
  ASSUME DetailIInv, detail.snaps # {},
         LET snap == SelectedSnap(detail)
             at == {i \in DOMAIN detail.marks : detail.marks[i].id = snap.id}
             added == Append(detail.marks, snap)
         IN  \/ \E i \in at : detail' = [detail EXCEPT !.marks = RemoveAt(@, i)]
             \/ at = {} /\ detail' = [detail EXCEPT !.marks = IF Len(added) > 2 THEN Tail(added) ELSE added]
  PROVE  DetailIInv' /\ detail'.snaps = detail.snaps /\ detail'.mode = detail.mode /\ detail'.collapse = detail.collapse
  <1> DEFINE snap == SelectedSnap(detail)
             marks == detail.marks
             n == Len(marks)
             added == Append(marks, snap)
  <1>1. detail \in DetailFields /\ marks \in Seq(Snaps) /\ n \in 0..2 /\ DOMAIN marks = 1..n /\ Apart(marks)
    <2>1. detail \in DetailFields /\ marks \in Seq(Snaps) /\ Apart(marks) /\ n <= 2
      BY DEF DetailIInv, DetailFields
    <2>2. n \in Nat /\ DOMAIN marks = 1..n
      <3> HIDE DEF marks
      <3> QED BY <2>1
    <2> HIDE DEF n, marks
    <2> QED BY <2>1, <2>2
  <1>2. snap \in Snaps
    <2>1. snap \in detail.snaps /\ detail.snaps \subseteq Snaps
      BY <1>1, CursorSelects, FieldsShown DEF Shown
    <2> QED BY <2>1
  <1> HIDE DEF snap
  <1>3. ASSUME NEW new \in Seq(Snaps), Len(new) <= 2, Apart(new), detail' = [detail EXCEPT !.marks = new]
        PROVE  DetailIInv' /\ detail'.snaps = detail.snaps /\ detail'.mode = detail.mode /\ detail'.collapse = detail.collapse
    <2>1. detail' \in DetailFields /\ detail'.marks = new
      BY <1>1, <1>3 DEF DetailFields
    <2>2. detail'.snaps = detail.snaps /\ detail'.mode = detail.mode /\ detail'.collapse = detail.collapse
      BY <1>1, <1>3 DEF DetailFields
    <2>3. Len(detail'.marks) <= 2 /\ Apart(detail'.marks)
      BY <1>3, <2>1
    <2> QED BY <2>1, <2>2, <2>3 DEF DetailIInv
  <1>4. CASE \E i \in DOMAIN marks : detail' = [detail EXCEPT !.marks = RemoveAt(@, i)]
    <2>1. PICK i \in DOMAIN marks : detail' = [detail EXCEPT !.marks = RemoveAt(marks, i)]
      BY <1>4
    <2> DEFINE new == RemoveAt(marks, i)
    <2>2. new = SubSeq(marks, 1, i - 1) \o SubSeq(marks, i + 1, n)
      BY DEF RemoveAt
    <2>3. new \in Seq(Snaps) /\ Len(new) <= 2 /\ Len(new) <= 1
      <3> DEFINE a == SubSeq(marks, 1, i - 1)
                 b == SubSeq(marks, i + 1, n)
      <3> HIDE DEF marks
      <3>1. i \in 1..n /\ i - 1 \in 0..n
        BY <1>1
      <3>2. a \in Seq(Snaps) /\ Len(a) = i - 1
        BY <1>1, <3>1
      <3>3. b \in Seq(Snaps) /\ Len(b) = n - i
        BY <1>1, <3>1
      <3>4. new = a \o b
        BY <2>2
      <3> HIDE DEF a, b, n, new
      <3>5. a \o b \in Seq(Snaps) /\ Len(a \o b) = (i - 1) + (n - i)
        BY <3>2, <3>3
      <3>6. (i - 1) + (n - i) <= 1 /\ (i - 1) + (n - i) <= 2
        BY ONLY <1>1, <3>1
      <3>7. new \in Seq(Snaps) /\ Len(new) = (i - 1) + (n - i)
        BY ONLY <3>4, <3>5
      <3> QED BY ONLY <3>6, <3>7
    <2>4. Apart(new)
      <3>1. DOMAIN new \subseteq {1}
        <4> HIDE DEF new
        <4> QED BY <2>3
      <3> HIDE DEF new
      <3> QED BY <3>1 DEF Apart
    <2> HIDE DEF new
    <2> QED BY <1>3, <2>1, <2>3, <2>4 DEF new
  <1>5. CASE /\ \A i \in DOMAIN marks : marks[i].id # snap.id
             /\ detail' = [detail EXCEPT !.marks = IF Len(added) > 2 THEN Tail(added) ELSE added]
    <2>1. /\ added \in Seq(Snaps) /\ Len(added) = n + 1 /\ added[n + 1] = snap /\ \A i \in 1..n : added[i] = marks[i]
      BY <1>1, <1>2
    <2> HIDE DEF added
    <2>2. Apart(added)
      <3>1. DOMAIN added = 1..(n + 1)
        <4> HIDE DEF n
        <4> QED BY ONLY <2>1
      <3>2. \A i \in 1..n : marks[i].id # snap.id
        BY <1>1, <1>5
      <3>3. \A i, j \in 1..n : i # j => marks[i].id # marks[j].id
        BY <1>1 DEF Apart
      <3> HIDE DEF n
      <3> QED BY ONLY <1>1, <2>1, <3>1, <3>2, <3>3 DEF Apart
    <2>3. CASE Len(added) > 2
      <3>1. n = 2 /\ Len(added) = 3
        <4> HIDE DEF n
        <4> QED BY ONLY <1>1, <2>1, <2>3
      <3>2. Tail(added) \in Seq(Snaps) /\ Len(Tail(added)) = 2 /\ \A i \in 1..2 : Tail(added)[i] = added[i + 1]
        BY ONLY <2>1, <3>1
      <3>3. Apart(Tail(added))
        <4> DEFINE rest == Tail(added)
        <4>1. rest \in Seq(Snaps) /\ Len(rest) = 2 /\ \A i \in 1..2 : rest[i] = added[i + 1]
          BY <3>2
        <4>2. added \in Seq(Snaps) /\ Len(added) = 3
          BY <2>1, <3>1
        <4> HIDE DEF rest
        <4>3. DOMAIN rest = 1..2
          BY ONLY <4>1
        <4>4. DOMAIN added = 1..3
          BY ONLY <4>2
        <4>5. added[2].id # added[3].id
          BY ONLY <2>2, <4>4 DEF Apart
        <4>6. rest[1] = added[2] /\ rest[2] = added[3]
          BY ONLY <4>1
        <4>7. Apart(rest)
          BY ONLY <4>3, <4>5, <4>6 DEF Apart
        <4> QED BY <4>7 DEF rest
      <3>4. detail' = [detail EXCEPT !.marks = Tail(added)]
        BY <1>5, <2>3
      <3> DEFINE rest == Tail(added)
      <3>5. rest \in Seq(Snaps) /\ Len(rest) <= 2 /\ Apart(rest) /\ detail' = [detail EXCEPT !.marks = rest]
        <4>1. rest \in Seq(Snaps) /\ Len(rest) = 2
          BY <3>2
        <4>2. Apart(rest) /\ detail' = [detail EXCEPT !.marks = rest]
          BY ONLY <3>3, <3>4
        <4> HIDE DEF rest
        <4> QED BY ONLY <4>1, <4>2
      <3> HIDE DEF rest
      <3> QED BY <1>3, <3>5
    <2>4. CASE ~(Len(added) > 2)
      <3>1. Len(added) <= 2
        BY <1>1, <2>1, <2>4
      <3> QED BY <1>3, <1>5, <2>1, <2>2, <2>4, <3>1
    <2> QED BY <2>3, <2>4
  <1> QED BY <1>4, <1>5 DEF snap

\* A step that leaves the rows where they are.
LEMMA RowsStay ==
  ASSUME detail'.snaps = detail.snaps, detail'.mode = detail.mode, detail'.collapse = detail.collapse
  PROVE  SelectionKept
  BY DEF SelectionKept

LEMMA DetailStep ==
  ASSUME DetailIInv, [ViewsNext]_viewsVars
  PROVE  DetailIInv' /\ (SelectionKept \/ viewsVars' = viewsVars)
  <1>1. CASE detail' = detail
    BY <1>1, RowsStay DEF DetailIInv, Apart, viewsVars
  <1>2. CASE DetailNext
    <2>0. detail \in DetailFields /\ Len(detail.marks) <= 2 /\ Apart(detail.marks)
      BY DEF DetailIInv
    <2>1. CASE EnterDetail
      <3>1. detail' = [detail EXCEPT !.cursor = 1, !.mode = 1, !.collapse = FALSE] /\ view = "list"
        BY <2>1 DEF EnterDetail
      <3>2. detail' \in DetailFields
        BY <2>0, <3>1, Opened
      <3>3. detail'.marks = detail.marks /\ detail'.snaps = detail.snaps
        BY <2>0, <3>1 DEF DetailFields
      <3> QED BY <2>0, <3>1, <3>2, <3>3 DEF DetailIInv, SelectionKept, SameBackup
    <2>2. CASE LeaveDetail
      <3>1. detail' = [detail EXCEPT !.marks = <<>>, !.mode = 1, !.collapse = FALSE] /\ view' = "list"
        BY <2>2 DEF LeaveDetail
      <3>2. detail' \in DetailFields
        BY <2>0, <3>1, Opened
      <3>3. detail'.marks = <<>>
        BY <2>0, <3>1 DEF DetailFields
      <3> QED BY <3>1, <3>2, <3>3 DEF DetailIInv, SelectionKept, Apart
    <2>3. CASE MoveCursor
      <3>1. \E c \in Nat \ {0} : detail' = [detail EXCEPT !.cursor = c]
        <4>1. detail.cursor \in Nat \ {0}
          BY <2>0 DEF DetailFields
        <4>2. detail.cursor > 1 => detail.cursor - 1 \in Nat \ {0}
          BY <4>1
        <4>3. detail.cursor + 1 \in Nat \ {0}
          BY <4>1
        <4> QED BY <2>3, <4>2, <4>3 DEF MoveCursor
      <3>2. /\ detail' \in DetailFields /\ detail'.marks = detail.marks /\ detail'.snaps = detail.snaps
            /\ detail'.mode = detail.mode /\ detail'.collapse = detail.collapse
        BY <2>0, <3>1 DEF DetailFields
      <3>3. DetailIInv'
        BY <2>0, <3>2 DEF DetailIInv
      <3> QED BY <3>2, <3>3, RowsStay
    <2>4. CASE ToggleDetailMark
      BY <2>4, Marked, RowsStay DEF ToggleDetailMark, InDetail
    <2>5. CASE \E new \in DetailFields : /\ new.snaps = detail.snaps /\ new.marks = detail.marks
                                         /\ detail' = Reanchored(detail, new)
      <3>1. PICK new \in DetailFields : /\ new.snaps = detail.snaps /\ new.marks = detail.marks
                                        /\ detail' = Reanchored(detail, new)
        BY <2>5
      <3>2. CASE detail.snaps # {}
        <4>1. /\ detail' \in DetailFields /\ Len(detail'.marks) <= 2 /\ Apart(detail'.marks)
              /\ InNode(SelectedNode(detail'), SelectedSnap(detail).id)
              /\ \A i \in DOMAIN detail.marks : detail.marks[i] \in detail'.snaps =>
                     \E j \in DOMAIN detail'.marks : SameBackup(detail.marks[i], detail'.marks[j])
          BY <2>0, <3>1, <3>2, Reanchors
        <4> QED BY <4>1 DEF DetailIInv, SelectionKept
      <3>3. CASE detail.snaps = {}
        <4>1. detail' \in DetailFields /\ Len(detail'.marks) <= 2 /\ Apart(detail'.marks) /\ detail'.snaps = {}
          BY <2>0, <3>1, <3>3, ReanchorsNone
        <4> QED BY <3>3, <4>1 DEF DetailIInv, SelectionKept
      <3> QED BY <3>2, <3>3
    <2>6. CASE CycleSnapGroup
      <3> DEFINE new == [detail EXCEPT !.mode = (@ % Len(Modes)) + 1]
      <3>1. DOMAIN Modes = 1..4 /\ Len(Modes) = 4 /\ detail.mode \in 1..4
        BY <2>0 DEF Modes, DetailFields
      <3>2. (detail.mode % Len(Modes)) + 1 \in DOMAIN Modes
        BY <3>1
      <3>3. new \in DetailFields /\ new.snaps = detail.snaps /\ new.marks = detail.marks
        BY <2>0, <3>2 DEF DetailFields
      <3> QED BY <2>5, <2>6, <3>3 DEF CycleSnapGroup
    <2>7. CASE CycleSnapCollapse
      <3> DEFINE new == [detail EXCEPT !.collapse = ~@]
      <3>1. new \in DetailFields /\ new.snaps = detail.snaps /\ new.marks = detail.marks
        BY <2>0 DEF DetailFields
      <3> QED BY <2>5, <2>7, <3>1 DEF CycleSnapCollapse
    <2>8. CASE OpenInfo
      BY <1>1, <2>8 DEF OpenInfo
    <2>9. CASE ApplyRefreshed
      <3>1. PICK S \in Refreshed :
              LET new == [detail EXCEPT !.snaps = S]
              IN  detail' = [new EXCEPT !.marks = Normalized(@, SnapDisplay(new))]
        BY <2>9 DEF ApplyRefreshed
      <3> DEFINE new == [detail EXCEPT !.snaps = S]
                 marks == Normalized(detail.marks, SnapDisplay(new))
      <3>2. new \in DetailFields /\ new.snaps = S /\ new.marks = detail.marks
        BY <2>0 DEF DetailFields
      <3>3. detail' = [new EXCEPT !.marks = marks]
        BY <3>1, <3>2
      <3>4. new.mode = detail.mode /\ new.collapse = detail.collapse
        BY <2>0 DEF DetailFields
      <3> HIDE DEF new
      <3>5. /\ marks \in Seq(Snaps) /\ Apart(marks) /\ Len(marks) <= 2
            /\ \A i \in DOMAIN detail.marks : detail.marks[i] \in S =>
                   \E j \in DOMAIN marks : SameBackup(detail.marks[i], marks[j])
        BY <2>0, <3>2, MarksFollow
      <3> HIDE DEF marks
      <3>6. /\ detail' \in DetailFields /\ detail'.marks = marks /\ detail'.snaps = S
            /\ detail'.mode = detail.mode /\ detail'.collapse = detail.collapse
        BY <3>2, <3>3, <3>4, <3>5 DEF DetailFields
      <3> QED BY <3>5, <3>6 DEF DetailIInv, SelectionKept
    <2> QED BY <1>2, <2>1, <2>2, <2>3, <2>4, <2>6, <2>7, <2>8, <2>9 DEF DetailNext
  <1> QED BY <1>1, <1>2, OtherKeys DEF ViewsNext, viewsVars

ViewsSpec == ViewsInit /\ [][ViewsNext]_viewsVars

LEMMA DetailAlways == ViewsSpec => []DetailIInv
  <1>1. ViewsInit => DetailIInv
    BY DetailInitInv DEF ViewsInit
  <1>2. DetailIInv /\ [ViewsNext]_viewsVars => DetailIInv'
    BY DetailStep
  <1> QED BY <1>1, <1>2, PTL DEF ViewsSpec

\* At most two marks, of different snapshots, and a cursor on a place, whatever a
\* refresh, a grouping or a fold does to the rows (snapshotdiff.go, snapgroup.go).
THEOREM DetailTypeCorrect == ViewsSpec => []DetailTypeOK
  <1>1. DetailIInv => DetailTypeOK
    BY DetailAssumption DEF DetailIInv, DetailFields, DetailTypeOK, Apart
  <1> QED BY <1>1, DetailAlways, PTL

\* What the next key acts on stays under the cursor, and the marks on the same
\* contents, wherever the code moves the rows (snapgroup.go, applyRefresh).
THEOREM SelectionIsKept == ViewsSpec /\ ListSpec => SelectionStays
  <1>1. DetailIInv /\ [ViewsNext]_viewsVars => [SelectionKept]_viewsVars
    BY DetailStep
  <1>2. ListIInv /\ [ListNext]_list => [ActionRepoKept]_list
    BY ListStep
  <1> QED BY <1>1, <1>2, DetailAlways, ListAlways, PTL DEF ViewsSpec, ListSpec, SelectionStays
===============================================================================
