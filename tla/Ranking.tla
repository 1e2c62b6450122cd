-------------------------------- MODULE Ranking ---------------------------------
(***************************************************************************)
(* Filename search (internal/model/fuzzy.go, internal/browsedb/queries.go  *)
(* Search and insertTopN).  A character is a record of a letter, whether   *)
(* it is upper case, and whether it separates words; a name or a query is  *)
(* a sequence of them.                                                     *)
(***************************************************************************)
EXTENDS Integers, Arrange, FiniteSets, SequencesExt

Fold(c) == c.letter

\* FuzzyScore walks the candidate once and takes the first match of each query
\* character: Step returns where that match is, or 0 when there is none left.
Step(cand, from, q) ==
    SelectInSubSeq(cand, from, Len(cand), LAMBDA c : Fold(c) = Fold(q))

\* The positions it matches, or <<>> when a query character finds none.
Positions(cand, query) ==
    LET next(ps, q) ==
            IF ps # <<>> /\ Last(ps) = 0 THEN ps
            ELSE Append(ps, Step(cand, IF ps = <<>> THEN 1 ELSE Last(ps) + 1, q))
        all == FoldLeft(next, <<>>, query)
    IN  IF Contains(all, 0) THEN <<>> ELSE all

\* The bonus of the i-th match: 16, for a start 16, for contiguity or a word
\* boundary 8, for the exact case 2.
Bonus(cand, query, ps, i) ==
    16 + (IF ps[i] = 1 THEN 16
          ELSE IF i > 1 /\ ps[i] = ps[i - 1] + 1 THEN 8
          ELSE IF cand[ps[i] - 1].sep THEN 8 ELSE 0)
       + (IF cand[ps[i]] = query[i] THEN 2 ELSE 0)

Matches(cand, query) == query # <<>> /\ Positions(cand, query) # <<>>

Score(cand, query) ==
    LET ps == Positions(cand, query)
    IN  FoldLeft(LAMBDA sum, i : sum + Bonus(cand, query, ps, i), 0 - Len(cand), [i \in DOMAIN ps |-> i])

\* BetterFuzzy: score, then the shorter name, then the path (a number here).
Better(a, b) ==
    \/ a.score > b.score
    \/ a.score = b.score /\ Len(a.name) < Len(b.name)
    \/ a.score = b.score /\ Len(a.name) = Len(b.name) /\ a.path < b.path

Rank(e, query) == [name |-> e.name, path |-> e.path, score |-> Score(e.name, query)]

\* insertTopN: nothing that cannot beat the last of a full list; otherwise in
\* front of the first it outranks, and the last one falls out.
InsertTopN(top, r, limit) ==
    LET at == SelectInSeq(top, LAMBDA t : Better(r, t))
        longer == IF at = 0 THEN Append(top, r) ELSE InsertAt(top, at, r)
    IN  IF Len(top) >= limit /\ ~Better(r, Last(top)) THEN top
        ELSE SubSeq(longer, 1, IF Len(longer) > limit THEN limit ELSE Len(longer))

\* A query of spaces asks for nothing; elsewhere a space is a character like others.
Blank(query) == \A i \in DOMAIN query : query[i].letter = " "

\* browsedb's Search: rows in the order the database yields them.
TopN(entries, query, limit) ==
    LET insert(top, e) == IF Matches(e.name, query) THEN InsertTopN(top, Rank(e, query), limit) ELSE top
    IN  IF Blank(query) THEN <<>> ELSE FoldLeft(insert, <<>>, entries)

\* RankFuzzy: the same ranking over entries already in memory, sorted and cut.
RankFuzzy(entries, query, limit) ==
    LET found == KeptOf(entries, [i \in DOMAIN entries |-> Matches(entries[i].name, query)])
        ranks == [i \in DOMAIN found |-> Rank(found[i], query)]
        sorted == StableSorted(ranks, {p \in (DOMAIN ranks) \X (DOMAIN ranks) : Better(ranks[p[1]], ranks[p[2]])})
    IN  IF Blank(query) THEN <<>>
        ELSE IF limit > 0 /\ Len(sorted) > limit THEN SubSeq(sorted, 1, limit) ELSE sorted

-----------------------------------------------------------------------------
(* The order of a directory (internal/tui/arrange.go).  The name of a row  *)
(* is a pair of its lower case and itself, all numbers, as its path is;    *)
(* the modification time 0 is unknown.                                     *)

NameLess(a, b) ==
    \/ a.name[1] < b.name[1]
    \/ a.name[1] = b.name[1] /\ a.name[2] < b.name[2]
    \/ a.name = b.name /\ a.path < b.path

BrowseLess(a, b, mode) ==
    \/ a.isDir /\ ~b.isDir
    \/ /\ a.isDir = b.isDir
       /\ CASE mode = "size" /\ a.size # b.size -> a.size > b.size
            [] mode = "modified" /\ (a.mtime = 0 <=> b.mtime # 0) -> a.mtime # 0
            [] mode = "modified" /\ 0 \notin {a.mtime, b.mtime} /\ a.mtime # b.mtime -> a.mtime > b.mtime
            [] OTHER -> NameLess(a, b)

InBrowseOrder(rows, mode) ==
    StableSorted(rows, {p \in (DOMAIN rows) \X (DOMAIN rows) : BrowseLess(rows[p[1]], rows[p[2]], mode)})

\* canonical is in the order of the database: directories, then names.
SortedBrowseRows(canonical, mode) == IF mode = "name" THEN canonical ELSE InBrowseOrder(canonical, mode)

\* Rows have one order in each mode, whichever way they came, directories stay in
\* front, and rows without a time end each of the two parts (browseLess).
BrowseOrderIsTotal(rows, mode) ==
    LET canonical == InBrowseOrder(SetToSeq(rows), "name")
        shown == SortedBrowseRows(canonical, mode)
    IN  /\ Range(shown) = rows /\ Len(shown) = Cardinality(rows)
        /\ shown = SortedBrowseRows(Reverse(canonical), mode) \/ mode = "name"
        /\ \A i, j \in DOMAIN shown : i < j =>
              /\ BrowseLess(shown[i], shown[j], mode) /\ ~BrowseLess(shown[j], shown[i], mode)
              /\ shown[j].isDir => shown[i].isDir
              /\ (mode = "modified" /\ shown[i].isDir = shown[j].isDir /\ shown[i].mtime = 0) => shown[j].mtime = 0

-----------------------------------------------------------------------------
\* likeSubsequence: what the LIKE pattern of the query admits.
Like(cand, query) ==
    \E f \in [DOMAIN query -> DOMAIN cand] :
        /\ \A i, j \in DOMAIN query : i < j => f[i] < f[j]
        /\ \A i \in DOMAIN query : Fold(cand[f[i]]) = Fold(query[i])

\* A search misses nothing and shows the best: the scorer accepts what the
\* database's prefilter admits, and the kept rows are the best of all matches,
\* best first, in whatever order the rows came (queries.go, Search, insertTopN).
SearchFindsBest(entries, query, limit) ==
    LET matches == {e \in Range(entries) : ~Blank(query) /\ Matches(e.name, query)}
        ranks == {Rank(e, query) : e \in matches}
        top == TopN(entries, query, limit)
    IN  /\ query # <<>> => \A e \in Range(entries) : Matches(e.name, query) <=> Like(e.name, query)
        /\ Range(top) \subseteq ranks /\ \A i, j \in DOMAIN top : i < j => Better(top[i], top[j])
        /\ Len(top) = IF Cardinality(ranks) < limit THEN Cardinality(ranks) ELSE limit
        /\ \A r \in ranks \ Range(top), i \in DOMAIN top : Better(top[i], r)

\* The ranking in memory shows the same (fuzzy.go, RankFuzzy).
SearchIsExact(entries, query, limit) ==
    SearchFindsBest(entries, query, limit) /\ TopN(entries, query, limit) = RankFuzzy(entries, query, limit)
===============================================================================
