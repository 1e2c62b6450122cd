------------------------------- MODULE DiffView -------------------------------
(***************************************************************************)
(* The snapshot diff (internal/tui: snapshotdiff.go, snapshotdiffsearch.go,*)
(* snapshotdiffinfo.go, on app/diff.go): a streamed diff that may be run   *)
(* again swapped or with metadata while the old tree stays, a search with  *)
(* a jump that can be undone, and the info screen with its own lookup.  A  *)
(* tree is recorded as the run it came from, whether it is partial, and its*)
(* directories; how lines become a tree is module DiffModel.  Filters only *)
(* hide rows, so a key that needs a row may find one or not.               *)
(***************************************************************************)
EXTENDS FindView

CONSTANT DiffDirs  \* the directories under the root that a diff shows, per metadata mode

\* BuildDiffTree makes every directory on the way to a line.
ASSUME DiffAssumption ==
    /\ DiffDirs \in [BOOLEAN -> SUBSET (Seq(STRING) \ {<<>>})]
    /\ \A meta \in BOOLEAN : \A d \in DiffDirs[meta] : Front(d) \in DiffDirs[meta] \cup {<<>>}

VARIABLE diff

Root == <<>>
NoTree == [dirs |-> {}]
NoRow == [path |-> Root]
NoSide == [want |-> FALSE, of |-> 0]

DiffInit ==
    diff = [older |-> 0, newer |-> 0, meta |-> FALSE, tree |-> NoTree, dir |-> Root, err |-> "",
            gen |-> 0, cancel |-> 0, infoGen |-> 0, infoCancel |-> 0,
            searching |-> FALSE, jumped |-> FALSE, origin |-> Root,
            infoRow |-> NoRow, first |-> NoSide, second |-> NoSide]

DiffLoading == diff.cancel # 0
InfoLoading == diff.infoCancel # 0

DiffNow == [diff |-> diff, commands |-> flight]
Hold(s) == diff' = s.diff /\ flight' = s.commands

-----------------------------------------------------------------------------
(* Helpers, on a state s = [diff, commands]. *)

CancelDiff(s) ==
    [diff |-> [s.diff EXCEPT !.cancel = 0], commands |-> Cancelled(s.commands, {"diff"}, s.diff.cancel)]
SupersedeDiff(s) ==
    [diff |-> [s.diff EXCEPT !.gen = @ + 1, !.cancel = 0], commands |-> Cancelled(s.commands, {"diff"}, s.diff.cancel)]

\* dropDiffInfo.
DropInfo(s) ==
    [diff |-> [s.diff EXCEPT !.infoGen = @ + 1, !.infoCancel = 0, !.infoRow = NoRow, !.first = NoSide, !.second = NoSide],
     commands |-> Cancelled(s.commands, {"info"}, s.diff.infoCancel)]

ExitDiffSearch(s) == [s EXCEPT !.diff = [@ EXCEPT !.searching = FALSE, !.jumped = FALSE, !.origin = Root]]

\* clearSnapshotDiff: the metadata mode is kept for the next diff.
ClearDiff(s) ==
    DropInfo(ExitDiffSearch([s EXCEPT !.diff = [@ EXCEPT !.older = 0, !.newer = 0, !.tree = NoTree, !.dir = Root,
                                                         !.err = "", !.cancel = 0]]))

\* dispatchSnapshotDiff.
DispatchDiff(s, older, newer, meta) ==
    [diff |-> [s.diff EXCEPT !.cancel = s.diff.gen, !.err = ""],
     commands |-> s.commands \cup {Command("diff", s.diff.gen, [older |-> older, newer |-> newer, meta |-> meta])}]

\* existingDiffDir: the nearest directory at or above the one requested.
ExistingDiffDir(tree, requested) ==
    LET here == {k \in 0..Len(requested) : k = 0 \/ SubSeq(requested, 1, k) \in tree.dirs}
    IN  SubSeq(requested, 1, CHOOSE k \in here : \A j \in here : j <= k)

\* rebuildDiffRows.
ShowDir(s, dir) == [s EXCEPT !.diff = [@ EXCEPT !.dir = dir]]

\* cancelDiffSearch: back to where the search was opened.
CancelDiffSearch(s) == ShowDir(ExitDiffSearch(s), ExistingDiffDir(s.diff.tree, s.diff.origin))

-----------------------------------------------------------------------------
(* Keys. *)

InDiff == view = "diff" /\ ~diff.searching
DiffIdle == InDiff /\ ~DiffLoading

\* A row of the directory shown, a directory or not.
Rows == {Append(diff.dir, "file")} \cup {d \in diff.tree.dirs : Front(d) = diff.dir}

\* startSnapshotDiff on the pair of detail, where there is one.
StartDiff ==
    /\ InDetail /\ Press("diff") /\ view' = "diff"
    /\ \E pair \in {DiffPair(detail)} \cap (Snaps \X Snaps) :
          LET fresh == [ClearDiff(SupersedeDiff(DiffNow)) EXCEPT !.diff = [@ EXCEPT !.older = pair[1].id, !.newer = pair[2].id]]
          IN  Hold(DispatchDiff(fresh, pair[1].id, pair[2].id, diff.meta))
    /\ UNCHANGED <<prevView, extractReturn, quitting, detail, browse, find>>

\* swapSnapshotDiff and toggleDiffMetadata: rerunSnapshotDiff.
Rerun ==
    /\ DiffIdle /\ Press("diff")
    /\ LET fresh == SupersedeDiff(ExitDiffSearch(DiffNow))
       IN  \/ Hold(DispatchDiff(fresh, diff.newer, diff.older, diff.meta))
           \/ Hold(DispatchDiff(fresh, diff.older, diff.newer, ~diff.meta))
    /\ Stay /\ UNCHANGED <<detail, browse, find>>

\* toggleDiffFilter: a jump can no longer be undone.
ToggleFilter ==
    /\ ~quitting /\ DiffIdle /\ diff.jumped
    /\ Hold(ExitDiffSearch(DiffNow))
    /\ Stay /\ UNCHANGED <<budget, detail, browse, find>>

\* enterDiffDir and diffParentDir.
MoveInTree ==
    /\ DiffIdle /\ Press("diff")
    /\ \/ \E d \in Rows \cap diff.tree.dirs : Hold(ShowDir(DiffNow, d))
       \/ diff.dir # Root /\ Hold(ShowDir(DiffNow, Front(diff.dir)))
    /\ Stay /\ UNCHANGED <<detail, browse, find>>

OpenDiffSearch ==
    /\ DiffIdle /\ Press("diff")
    /\ LET s == ExitDiffSearch(DiffNow) IN Hold([s EXCEPT !.diff = [@ EXCEPT !.searching = TRUE, !.origin = diff.dir]])
    /\ Stay /\ UNCHANGED <<detail, browse, find>>

\* acceptDiffSearch: to the directory of the match; without a match like cancelling.
AcceptDiffSearch ==
    /\ view = "diff" /\ diff.searching /\ Press("diff")
    /\ \E parent \in diff.tree.dirs \cup {Root} :
          LET s == [ExitDiffSearch(DiffNow) EXCEPT !.diff = [@ EXCEPT !.origin = diff.origin, !.jumped = TRUE]]
          IN  Hold(ShowDir(s, ExistingDiffDir(diff.tree, parent)))
    /\ Stay /\ UNCHANGED <<detail, browse, find>>

\* esc in the search or after a jump, q after a jump.
UndoDiffSearch ==
    /\ ~quitting /\ view = "diff" /\ (diff.searching \/ diff.jumped)
    /\ Hold(CancelDiffSearch(DiffNow))
    /\ Stay /\ UNCHANGED <<budget, detail, browse, find>>

\* snapshotDiffBack.
DiffBack ==
    /\ ~quitting /\ InDiff /\ ~diff.jumped /\ view' = "detail"
    /\ Hold(ClearDiff(SupersedeDiff(DiffNow)))
    /\ UNCHANGED <<prevView, extractReturn, quitting, budget, detail, browse, find>>

\* openDiffInfo: a row marked only + or only - is looked up on one side.
OpenDiffInfo ==
    /\ DiffIdle /\ Press("diff") /\ view' = "diffInfo"
    /\ \E row \in Rows, sides \in {{"first"}, {"second"}, {"first", "second"}} :
          LET s == DropInfo(DiffNow)
              ask == [row |-> row, first |-> IF "first" \in sides THEN diff.older ELSE 0,
                      second |-> IF "second" \in sides THEN diff.newer ELSE 0]
          IN  Hold([diff |-> [s.diff EXCEPT !.infoCancel = s.diff.infoGen, !.infoRow = [path |-> row],
                                            !.first = [@ EXCEPT !.want = "first" \in sides],
                                            !.second = [@ EXCEPT !.want = "second" \in sides]],
                    commands |-> s.commands \cup {Command("info", s.diff.infoGen, ask)}])
    /\ UNCHANGED <<prevView, extractReturn, quitting, detail, browse, find>>

\* closeDiffInfo.
CloseDiffInfo ==
    /\ ~quitting /\ view = "diffInfo" /\ view' = "diff"
    /\ Hold(DropInfo(DiffNow))
    /\ UNCHANGED <<prevView, extractReturn, quitting, budget, detail, browse, find>>

-----------------------------------------------------------------------------
(* Messages. *)

\* BuildDiffTree of all the lines, or of some of them.
TreeOf(ask, dirs, partial) ==
    [older |-> ask.older, newer |-> ask.newer, meta |-> ask.meta, partial |-> partial, dirs |-> dirs]

Install(s, tree) ==
    ShowDir([s EXCEPT !.diff = [@ EXCEPT !.older = tree.older, !.newer = tree.newer, !.meta = tree.meta, !.tree = tree,
                                         !.err = IF tree.partial THEN "partial" ELSE ""]],
            ExistingDiffDir(tree, s.diff.dir))

\* applySnapshotDiffMsg: a failure keeps the tree that is there, shows the part
\* that was read, or leaves.
ApplyDiff(f) ==
    LET s == CancelDiff([DiffNow EXCEPT !.commands = @ \ {f}])
    IN  \/ Hold(Install(s, TreeOf(f.ask, DiffDirs[f.ask.meta], FALSE))) /\ UNCHANGED view
        \/ diff.tree # NoTree /\ Hold(s) /\ UNCHANGED view
        \/ diff.tree = NoTree /\ Hold(ClearDiff(SupersedeDiff(s))) /\ view' = "detail"
        \/ /\ diff.tree = NoTree /\ UNCHANGED view
           /\ \E dirs \in {{}, DiffDirs[f.ask.meta]} : Hold(Install(s, TreeOf(f.ask, dirs, TRUE)))

\* The records found, 0 for a side not looked up, not found or failed.
Found(id) == IF id = 0 THEN {0} ELSE {0, id}

\* applyDiffInfoMsg.
ApplyInfo(f) ==
    /\ \E first \in Found(f.ask.first), second \in Found(f.ask.second) :
          diff' = [diff EXCEPT !.infoCancel = 0, !.first = [@ EXCEPT !.of = first],
                                !.second = [@ EXCEPT !.of = second]]
    /\ flight' = Cancelled(flight \ {f}, {"info"}, diff.infoCancel) /\ UNCHANGED view

DiffAnswer(f) ==
    /\ Message(f, {"diff", "info"})
    /\ IF f.what = "diff" /\ f.gen = diff.gen THEN ApplyDiff(f)
       ELSE IF f.what = "info" /\ f.gen = diff.infoGen /\ InfoLoading THEN ApplyInfo(f)
       ELSE flight' = flight \ {f} /\ UNCHANGED <<view, diff>>
    /\ UNCHANGED <<detail, browse, find>>

DiffKeys ==
    \/ StartDiff \/ Rerun \/ ToggleFilter \/ MoveInTree \/ OpenDiffSearch \/ AcceptDiffSearch
    \/ UndoDiffSearch \/ DiffBack \/ OpenDiffInfo \/ CloseDiffInfo

-----------------------------------------------------------------------------
\* The tree is the one its labels name, in the metadata mode shown, whatever
\* reruns are under way or have failed; the directory shown, and the one a
\* search returns to, exist in it; and the info screen shows records of the
\* snapshots and the row it names (snapshotdiff.go, snapshotdiffinfo.go).
DiffAnswersQuestion ==
    LET there(dir) == dir = Root \/ dir \in diff.tree.dirs
    IN  /\ diff.tree # NoTree => <<diff.tree.older, diff.tree.newer, diff.tree.meta>> = <<diff.older, diff.newer, diff.meta>>
        /\ diff.tree # NoTree => there(diff.dir) /\ there(diff.origin)
        /\ diff.first.of \in {0, IF diff.first.want THEN diff.older ELSE 0}
        /\ diff.second.of \in {0, IF diff.second.want THEN diff.newer ELSE 0}
        /\ InFront = "diff" => diff.older # 0 /\ (DiffLoading \/ diff.tree # NoTree)
        /\ diff.searching \/ diff.jumped => InFront \in {"diff", "diffInfo", "extract"} /\ diff.tree # NoTree
        /\ (InFront = "diffInfo") = (diff.infoRow # NoRow)
        /\ InFront \in {"list", "detail"} => diff.tree = NoTree /\ diff.older = 0

\* snapshotdiff.go keeps the warning with the tree lest "an incomplete tree look
\* complete": a partial tree that is not about to be replaced carries it.
PartialTreeIsMarked == diff.tree # NoTree /\ diff.tree.partial /\ ~DiffLoading => diff.err = "partial"
===============================================================================
