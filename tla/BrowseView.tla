------------------------------ MODULE BrowseView ------------------------------
(***************************************************************************)
(* The browse view (internal/tui: browse.go, browsesearch.go): the index   *)
(* command, directory listings with their cache, and the search overlay    *)
(* with its parked result set.  Rows are recorded as what they answer:     *)
(* [snap, dir] for a listing, [snap, query] for a search.  The order of    *)
(* rows, the cursor, progress counts and notices are left out; which row   *)
(* the cursor is on is any row.                                            *)
(***************************************************************************)
EXTENDS DetailView

CONSTANTS SnapDirs,  \* the directories of every snapshot, as sequences of names
          Queries    \* how long a query may get; a query is the number of its letters

ASSUME BrowseAssumption == <<>> \in SnapDirs /\ Queries \in Nat

VARIABLE browse

NoRows == [snap |-> 0]
NoCache == [dir \in {} |-> NoRows]
BrowseKinds == {"index", "dir", "search"}

BrowseInit ==
    browse = [snap |-> 0, dir |-> <<>>, rows |-> NoRows, cache |-> NoCache, indexed |-> FALSE,
              loading |-> FALSE, gen |-> 0, cancel |-> 0,
              searching |-> FALSE, suspended |-> FALSE, query |-> 0, shown |-> 0, found |-> NoRows]

-----------------------------------------------------------------------------
(* The helpers of the controller, on a state s = [b, commands]. *)

Here == [b |-> browse, commands |-> flight]
Become(s) == browse' = s.b /\ flight' = s.commands

\* supersedeBrowse.
Supersede(s) ==
    [b |-> [s.b EXCEPT !.gen = @ + 1, !.cancel = 0], commands |-> Cancelled(s.commands, BrowseKinds, s.b.cancel)]

\* beginBrowseOp and the command it is begun for.
BeginOp(s, what, ask) ==
    LET t == Supersede(s)
    IN  [b |-> [t.b EXCEPT !.cancel = t.b.gen], commands |-> t.commands \cup {Command(what, t.b.gen, ask)}]

Loading(s, loading) == [s EXCEPT !.b.loading = loading]

\* beginListDir: from the cache at once, or by a command.
BeginListDir(s, dir) ==
    IF dir \in DOMAIN s.b.cache
    THEN Loading([Supersede(s) EXCEPT !.b = [@ EXCEPT !.dir = dir, !.rows = s.b.cache[dir]]], FALSE)
    ELSE Loading(BeginOp(s, "dir", [snap |-> s.b.snap, dir |-> dir]), TRUE)

\* exitBrowseSearch.
ExitSearch(s) ==
    [s EXCEPT !.b = [@ EXCEPT !.searching = FALSE, !.suspended = FALSE, !.query = 0, !.shown = 0, !.found = NoRows]]

\* clearBrowse: the cancel function is dropped, not called.
ClearBrowse(s) ==
    ExitSearch([s EXCEPT !.b = [@ EXCEPT !.snap = 0, !.dir = <<>>, !.rows = NoRows, !.cache = NoCache,
                                         !.indexed = FALSE, !.loading = FALSE, !.cancel = 0]])

-----------------------------------------------------------------------------
(* Keys. *)

Stay == UNCHANGED <<view, prevView, extractReturn, quitting>>
InBrowse == view = "browse" /\ ~browse.searching
Idle == InBrowse /\ ~browse.loading

\* startBrowse on the selected snapshot, with beginIndex.
StartBrowse ==
    /\ InDetail /\ Press("browse") /\ view' = "browse"
    /\ \E id \in {SelectedSnap(detail).id} :
          LET fresh == [Here EXCEPT !.b = [@ EXCEPT !.snap = id, !.dir = <<>>, !.rows = NoRows, !.cache = NoCache,
                                                     !.indexed = FALSE]]
          IN  Become(Loading(BeginOp(fresh, "index", [snap |-> id]), TRUE))
    /\ UNCHANGED <<prevView, extractReturn, quitting, detail>>

\* Mutant: leaving drops the cancel function instead of calling it.
BrowseBackForgets ==
    /\ ~quitting /\ InBrowse /\ view' = "detail"
    /\ Become(ClearBrowse([Here EXCEPT !.b.gen = @ + 1]))
    /\ UNCHANGED <<prevView, extractReturn, quitting, budget, detail>>

\* browseBack: q, or esc with no search parked.
BrowseBack ==
    /\ ~quitting /\ InBrowse /\ view' = "detail"
    /\ Become(ClearBrowse(Supersede(Here)))
    /\ UNCHANGED <<prevView, extractReturn, quitting, budget, detail>>

\* Mutant: a jump that has not answered yet goes on while the search is open again.
RestoreSearchLoading ==
    /\ InBrowse /\ browse.suspended /\ Press("browse")
    /\ browse' = [browse EXCEPT !.searching = TRUE, !.suspended = FALSE]
    /\ Stay /\ UNCHANGED <<flight, detail>>

\* esc with a parked search: restoreBrowseSearch.
RestoreSearch ==
    /\ InBrowse /\ browse.suspended /\ Press("browse")
    /\ LET s == IF browse.loading THEN Loading(Supersede(Here), FALSE) ELSE Here
       IN  Become([s EXCEPT !.b = [@ EXCEPT !.searching = TRUE, !.suspended = FALSE]])
    /\ Stay /\ UNCHANGED detail

\* openBrowseDir, on a directory of the rows shown, and browseToParent.
OpenDir ==
    /\ Idle /\ browse.rows # NoRows /\ Press("browse")
    /\ \E dir \in SnapDirs : dir # <<>> /\ Front(dir) = browse.rows.dir /\ Become(BeginListDir(Here, dir))
    /\ Stay /\ UNCHANGED detail

ParentDir ==
    /\ Idle /\ browse.dir # <<>> /\ Press("browse")
    /\ Become(BeginListDir(Here, Front(browse.dir)))
    /\ Stay /\ UNCHANGED detail

OpenSearch ==
    /\ Idle /\ browse.indexed /\ Press("browse")
    /\ Become([ExitSearch(Here) EXCEPT !.b.searching = TRUE])
    /\ Stay /\ UNCHANGED detail

InSearch == view = "browse" /\ browse.searching

\* fireBrowseSearch.
FireSearch(query) ==
    LET s == [Here EXCEPT !.b.query = query]
    IN  IF query = 0 THEN [Supersede(s) EXCEPT !.b = [@ EXCEPT !.found = NoRows, !.shown = 0]]
        ELSE BeginOp(s, "search", [snap |-> s.b.snap, query |-> query])

\* A letter is typed or deleted.
EditQuery ==
    /\ InSearch /\ Press("browse")
    /\ \E query \in {browse.query - 1, browse.query + 1} \cap 0..Queries : Become(FireSearch(query))
    /\ Stay /\ UNCHANGED detail

CancelSearch(s) == ExitSearch(Supersede(s))

\* acceptBrowseSearch: to the parent of the selected match, or out of a search without one.
AcceptSearch ==
    /\ InSearch /\ browse.shown = browse.query /\ Press("browse")
    /\ \/ browse.found = NoRows /\ Become(CancelSearch(Here))
       \/ /\ browse.found # NoRows
          /\ LET parked == [Here EXCEPT !.b = [@ EXCEPT !.searching = FALSE, !.suspended = TRUE]]
             IN  \E dir \in SnapDirs : Become(BeginListDir(parked, dir))
    /\ Stay /\ UNCHANGED detail

\* cancelBrowseSearch.
LeaveSearch ==
    /\ ~quitting /\ InSearch
    /\ Become(CancelSearch(Here))
    /\ Stay /\ UNCHANGED <<budget, detail>>

-----------------------------------------------------------------------------
(* Messages.  A command whose context was cancelled answers like any other.*)

Answered(f) == [Here EXCEPT !.commands = @ \ {f}]

\* A message of an older generation changes nothing.
DropBrowse(f) ==
    /\ Message(f, BrowseKinds) /\ f.gen # browse.gen
    /\ Become(Answered(f)) /\ UNCHANGED <<view, detail>>

\* applyBrowseIndexed.
ApplyIndexed(f) ==
    /\ Message(f, {"index"}) /\ f.gen = browse.gen
    /\ \/ /\ Become(BeginListDir([Answered(f) EXCEPT !.b = [@ EXCEPT !.indexed = TRUE]], <<>>)) /\ UNCHANGED view
       \/ /\ Become(ClearBrowse(Supersede(Answered(f)))) /\ view' = "detail"
    /\ UNCHANGED detail

Listed(f) ==
    LET rows == [snap |-> f.ask.snap, dir |-> f.ask.dir]
        cache == [d \in {f.ask.dir} \cup DOMAIN browse.cache |-> IF d = f.ask.dir THEN rows ELSE browse.cache[d]]
    IN  [Answered(f) EXCEPT !.b = [@ EXCEPT !.loading = FALSE, !.dir = f.ask.dir, !.rows = rows, !.cache = cache]]

\* Mutant: whatever listing arrives is shown.
ApplyDirLate(f) ==
    /\ Message(f, {"dir"})
    /\ Become(Listed(f)) \/ Become(Loading(Answered(f), FALSE))
    /\ UNCHANGED <<view, detail>>

\* applyBrowseDir: a failed listing leaves the rows.
ApplyDir(f) ==
    /\ Message(f, {"dir"}) /\ f.gen = browse.gen
    /\ Become(Listed(f)) \/ Become(Loading(Answered(f), FALSE))
    /\ UNCHANGED <<view, detail>>

\* applyBrowseSearch: matches, or none of them, or an error.
ApplySearch(f) ==
    /\ Message(f, {"search"}) /\ f.gen = browse.gen
    /\ IF browse.searching /\ f.ask.query = browse.query
       THEN \E rows \in {NoRows, f.ask} : Become([Answered(f) EXCEPT !.b = [@ EXCEPT !.shown = f.ask.query, !.found = rows]])
       ELSE Become(Answered(f))
    /\ UNCHANGED <<view, detail>>

BrowseAnswer(f) == DropBrowse(f) \/ ApplyIndexed(f) \/ ApplyDir(f) \/ ApplySearch(f)

BrowseKeys ==
    \/ StartBrowse \/ BrowseBack \/ RestoreSearch \/ OpenDir \/ ParentDir
    \/ OpenSearch \/ EditQuery \/ AcceptSearch \/ LeaveSearch

-----------------------------------------------------------------------------
\* What is shown in browse answers what its labels ask: the rows are the
\* listing of the directory and snapshot named above them, as is everything the
\* cache will serve, and the results offered under the query they are said to be
\* of are those of that query in that snapshot; a search runs and navigation
\* works on an indexed snapshot only; and the search has the keys in browse only
\* (browse.go, browsesearch.go).
BrowseAnswersQuestion ==
    /\ browse.rows # NoRows => browse.rows = [snap |-> browse.snap, dir |-> browse.dir]
    /\ \A dir \in DOMAIN browse.cache : browse.cache[dir] = [snap |-> browse.snap, dir |-> dir]
    /\ browse.found # NoRows => browse.found = [snap |-> browse.snap, query |-> browse.shown]
    /\ browse.rows # NoRows \/ browse.searching \/ browse.suspended => browse.indexed
    /\ browse.searching => view = "browse" /\ ~browse.suspended /\ ~browse.loading
    /\ browse.suspended => browse.shown = browse.query /\ browse.found # NoRows
===============================================================================
