-------------------------------- MODULE RepoList --------------------------------
(***************************************************************************)
(* The list of repositories (internal/tui: arrange.go, group.go, list.go,  *)
(* list_keys.go, applyRefresh): a filter, a sort order, a grouping by one  *)
(* of the configured labels, and a cursor into what they leave, while      *)
(* refreshes change the rows.  Names and label values are numbers in the   *)
(* order the code sorts them by, names that differ in case only the same;  *)
(* positions count from 1.                                                 *)
(***************************************************************************)
EXTENDS Integers, Arrange, Sequences, FiniteSets, SequencesExt

CONSTANTS Repos,     \* the configuration's: [name, labels, found], found the queries it matches
          GroupBy,   \* the configured label keys; 0 is a label a repository lacks
          Letters,   \* what the user types
          QueryMax   \* bound on the length of a query

ASSUME RepoListAssumption ==
    /\ GroupBy \in Seq(STRING) /\ QueryMax \in Nat /\ Repos # <<>>
    /\ Repos \in Seq([name : Nat, labels : [Range(GroupBy) -> Nat], found : SUBSET Seq(Letters)])

VARIABLE list  \* [status, sort, group, filter, filtering, cursor, detail]

SortModes == <<"config", "urgency", "name">>
UrgencyRank == [error |-> 0, red |-> 1, amber |-> 2, green |-> 3, grey |-> 4]
RepoRows == DOMAIN Repos

ListInit ==
    list = [status |-> [i \in RepoRows |-> "grey"], sort |-> 1, group |-> 0, filter |-> <<>>,
            filtering |-> FALSE, cursor |-> 1, detail |-> 0]

-----------------------------------------------------------------------------
(* displayList: what is rendered is what the cursor counts.                *)

MatchRepo(i, query) == query = <<>> \/ query \in Repos[i].found

\* sortRows is stable on rows in the order of the configuration.
SortKey(l, i) ==
    CASE SortModes[l.sort] = "urgency" -> UrgencyRank[l.status[i]]
      [] SortModes[l.sort] = "name" -> Repos[i].name
      [] OTHER -> 0
SortsBefore(l, i, j) == SortKey(l, i) < SortKey(l, j) \/ (SortKey(l, i) = SortKey(l, j) /\ i < j)
SortRows(l, rows) == Arranged(rows, LAMBDA i, j : SortsBefore(l, i, j))

\* groupedSections: sections by value, repositories without the label last.
GroupedSections(l, rows) ==
    LET value(i) == Repos[i].labels[GroupBy[l.group]]
        values == Arranged({value(i) : i \in rows}, LAMBDA a, b : a # 0 /\ (b = 0 \/ a < b))
    IN  [v \in DOMAIN values |-> SortRows(l, {i \in rows : value(i) = values[v]})]

DisplayList(l) ==
    LET filtered == {i \in RepoRows : MatchRepo(i, l.filter)}
    IN  IF l.group = 0 THEN SortRows(l, filtered) ELSE FlattenSeq(GroupedSections(l, filtered))

\* currentRow, 0 when the filter hides every row.
CurrentRow(l) ==
    LET rows == DisplayList(l) IN IF rows = <<>> THEN 0 ELSE rows[IF l.cursor > Len(rows) THEN Len(rows) ELSE l.cursor]

\* indexOf: the first row where the repository is hidden.
IndexOf(l, i) == IF Contains(DisplayList(l), i) THEN SelectInSeq(DisplayList(l), LAMBDA r : r = i) ELSE 1

\* The cursor follows the selected repository to its place in the new display.
Follow(new) == [new EXCEPT !.cursor = IndexOf(new, CurrentRow(list))]

\* actionRepo: what refresh and shell keys act on.
ActionRepo(l) == IF l.detail # 0 THEN l.detail ELSE CurrentRow(l)

-----------------------------------------------------------------------------
(* handleListKey and handleFilterKey. *)

InList == list.detail = 0 /\ ~list.filtering

\* Up, down, and the page keys, whose step is the height of the screen; a step
\* past an end is one to the end.
MoveListCursor ==
    /\ InList
    /\ \E page \in RepoRows :
          \/ list.cursor > page /\ list' = [list EXCEPT !.cursor = @ - page]
          \/ list.cursor + page <= Len(DisplayList(list)) /\ list' = [list EXCEPT !.cursor = @ + page]

\* enter pins the repository by name; back from detail.
OpenRepo == InList /\ CurrentRow(list) # 0 /\ list' = [list EXCEPT !.detail = CurrentRow(list)]
CloseRepo == list.detail # 0 /\ list' = [list EXCEPT !.detail = 0]

CycleSort == InList /\ list' = Follow([list EXCEPT !.sort = (@ % Len(SortModes)) + 1])

CycleGrouping ==
    /\ InList /\ GroupBy # <<>>
    /\ list' = Follow([list EXCEPT !.group = (@ + 1) % (Len(GroupBy) + 1)])

StartFilter == InList /\ list' = [list EXCEPT !.filtering = TRUE]

FilterKey ==
    /\ list.filtering
    /\ \/ list' = [list EXCEPT !.filtering = FALSE]
       \/ list' = [list EXCEPT !.filtering = FALSE, !.filter = <<>>, !.cursor = 1]
       \/ list.filter # <<>> /\ list' = [list EXCEPT !.filter = Front(@), !.cursor = 1]
       \/ \E c \in Letters :
             Len(list.filter) < QueryMax /\ list' = [list EXCEPT !.filter = Append(@, c), !.cursor = 1]

\* applyRefresh: a row is replaced, whatever is on the screen.
RowRefreshed ==
    \E i \in RepoRows, s \in DOMAIN UrgencyRank \ {"grey"} : list' = Follow([list EXCEPT !.status[i] = s])

ListNext ==
    \/ MoveListCursor \/ OpenRepo \/ CloseRepo \/ CycleSort \/ CycleGrouping
    \/ StartFilter \/ FilterKey \/ RowRefreshed

-----------------------------------------------------------------------------
\* The cursor is never past the rows: what is stored is what is highlighted.
ListTypeOK ==
    /\ list.status \in [RepoRows -> DOMAIN UrgencyRank] /\ list.sort \in DOMAIN SortModes
    /\ list.group \in 0..Len(GroupBy) /\ list.filter \in Seq(Letters) /\ list.filtering \in BOOLEAN
    /\ list.detail \in {0} \cup RepoRows
    /\ list.cursor >= 1 /\ (list.cursor > 1 => list.cursor <= Len(DisplayList(list)))

\* No repository that matches is lost or shown twice by sorting and grouping.
ListShowsMatches ==
    LET rows == DisplayList(list)
    IN  IsInjective(rows) /\ {rows[i] : i \in DOMAIN rows} = {i \in RepoRows : MatchRepo(i, list.filter)}

\* What a key acts on changes by the user's own move, open, or typing only: a
\* refresh, a new order and a new grouping keep it under the cursor, at whatever
\* place they put it.
ActionRepoKept ==
    (list'.status # list.status \/ list'.sort # list.sort \/ list'.group # list.group)
       => ActionRepo(list') = ActionRepo(list)
===============================================================================
