--------------------------------- MODULE Views ---------------------------------
(***************************************************************************)
(* All screens together (handleKey, handleQuitKey, Update in internal/tui):*)
(* keys go to the screen in front, answers arrive whenever they are ready, *)
(* under whatever screen.  One repository, pinned; the extract modal has a *)
(* module of its own and is a screen that closes.                          *)
(***************************************************************************)
EXTENDS DiffView

viewsVars == <<navVars, detail, browse, find, diff>>

ViewsInit == NavInit /\ DetailInit /\ BrowseInit /\ FindInit /\ DiffInit

Typing == browse.searching \/ diff.searching

Navigate ==
    /\ \/ ToggleHelp(Typing) \/ Quit \/ GoBack \/ ExtractCloses
       \/ InDetail /\ OpenExtract("detail")
       \/ Idle /\ browse.rows # NoRows /\ OpenExtract("browse")
       \/ ~FindLoading /\ find.rows # NoRows /\ OpenExtract("find")
       \/ DiffIdle /\ OpenExtract("diff")
    /\ UNCHANGED <<detail, browse, find, diff>>

\* A command answers.
Deliver ==
    \E f \in flight :
        \/ BrowseAnswer(f) /\ UNCHANGED <<find, diff>>
        \/ FindAnswer(f) /\ UNCHANGED diff
        \/ DiffAnswer(f)

ViewsNext ==
    \/ Navigate
    \/ DetailNext /\ UNCHANGED <<browse, find, diff>>
    \/ BrowseKeys /\ UNCHANGED <<find, diff>>
    \/ FindKeys /\ UNCHANGED diff
    \/ DiffKeys
    \/ Deliver

\* Every command ends, each has its timeout, and Update takes every message.
ViewsFairness == WF_viewsVars(Deliver)

-----------------------------------------------------------------------------
\* Every screen shows the answer to the question its labels ask, in whatever
\* order keys and answers came (browse.go, browsesearch.go, findversions.go,
\* snapshotdiff.go, snapshotdiffinfo.go).
ShownAnswersQuestion == BrowseAnswersQuestion /\ FindAnswersQuestion /\ DiffAnswersQuestion

\* No restic process and no query works for a screen that was left, for a
\* question that was replaced, or for a program that has quit: a command whose
\* context is still open is the one its controller waits for, and the view that
\* started it is in front or behind the help overlay (supersedeBrowse,
\* supersedeFind, supersedeSnapshotDiff, dropDiffInfo, quitModel).
NothingWorksUnseen ==
    \A f \in flight : f.live =>
        /\ ~quitting
        /\ f.what \in BrowseKinds => f.gen = browse.gen /\ InFront = "browse" /\ (browse.loading \/ browse.searching)
        /\ f.what = "find" => f.gen = find.gen /\ FindLoading /\ InFront = "find"
        /\ f.what = "diff" => f.gen = diff.gen /\ DiffLoading /\ InFront = "diff"
        /\ f.what = "info" => f.gen = diff.infoGen /\ InfoLoading /\ InFront = "diffInfo"

\* Nothing is left waiting: no view says it is loading, and the search shows the
\* results of what was typed.
Settled ==
    \/ quitting
    \/ /\ ~browse.loading /\ ~FindLoading /\ ~DiffLoading /\ ~InfoLoading
       /\ browse.searching => browse.shown = browse.query

\* Once the user stops, every view comes to rest: none waits for an answer that
\* was dropped as stale (restoreBrowseSearch, beginListDir, rerunSnapshotDiff).
Settles == <>[]Settled
===============================================================================
