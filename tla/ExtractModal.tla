----------------------------- MODULE ExtractModal -----------------------------
(***************************************************************************)
(* The extract modal (internal/tui/extract.go) under its root              *)
(* (internal/tui/app.go, routing.go).  The user opens a modal from another *)
(* view, confirms, retargets, cancels and leaves it; its work runs in      *)
(* command goroutines whose results come back as messages, in any order    *)
(* and as late as they like.                                               *)
(*                                                                         *)
(* The code tells a message's age by its gen, counted from zero in each    *)
(* modal, and by whether a modal is active.  The session field of runs and *)
(* messages is history: no guard reads it.  A path is a root and an item   *)
(* (one side of a diff, or a plain source); extractDeleteStagingDoneMsg is *)
(* "delete", extractBackToBrowseMsg is "back", and so on.  Rendering, the  *)
(* progress samples, advisory free space and notices are left out.         *)
(***************************************************************************)
EXTENDS Integers, Sequences, FiniteSets, Bags, BagsExt

CONSTANTS Roots,       \* target roots a picker may choose
          DefaultRoot, \* extract.target_root
          NoRoot,      \* no target remembered
          Selections,  \* what can be extracted: sequences of items, diffs have two
          RememberTarget, \* extract.remember_target
          Occupied,    \* sets of targets that may be there from the start
          MaxModals,   \* bounds how often a modal is opened
          MaxRuns,     \* bounds the dispatched runs
          MaxGen       \* bounds a modal's generations

ASSUME ModalAssumption ==
    /\ DefaultRoot \in Roots /\ NoRoot \notin Roots
    /\ RememberTarget \in BOOLEAN
    /\ MaxModals \in Nat /\ MaxRuns \in Nat /\ MaxGen \in Nat
    /\ Selections # {} /\ \A s \in Selections : s \in Seq({s[i] : i \in DOMAIN s}) /\ Len(s) \in {1, 2}
    /\ \A o \in Occupied : o \subseteq Roots \X UNION {{s[i] : i \in DOMAIN s} : s \in Selections}

Items == UNION {{s[i] : i \in DOMAIN s} : s \in Selections}
Paths == Roots \X Items
NoPath == <<NoRoot>>

VARIABLES
    m,          \* Model.extract
    active,     \* extractActive(): the modal's view, or help over it
    session,    \* how many modals were opened
    memo,       \* Model.extractTargetMemo
    runs,       \* the App.Extract calls dispatched so far
    deletions,  \* DeleteExtractStaging calls under way
    msgs,       \* messages on their way to Update
    staging,    \* staging directories on disk
    final,      \* published or otherwise occupied targets
    stopAsked   \* history: back was pressed on a running extract since enter

vars == <<m, active, session, memo, runs, deletions, msgs, staging, final, stopAsked>>
diskVars == <<staging, final>>
rootVars == <<active, session, memo>>

States == {"review", "running", "success", "canceled", "error", "picker", "keepDelete"}
NoRun == 0

TypeOK ==
    /\ m.state \in States /\ m.gen \in 0..MaxGen /\ m.cancel \in 0..MaxRuns
    /\ m.root \in Roots /\ m.priv \in BOOLEAN /\ m.isSudoBusy \in BOOLEAN
    /\ m.refused \in BOOLEAN /\ m.resultStaging \in Paths \cup {NoPath}
    /\ m.ranTargetRoot \in Roots \cup {NoRoot} /\ m.counts \in 0..MaxModals
    /\ \A i \in DOMAIN m.queue : m.queue[i] \in Items
    /\ \A i \in DOMAIN m.published : m.published[i] \in Paths
    /\ active \in BOOLEAN /\ session \in 0..MaxModals
    /\ memo \in Roots \cup {NoRoot}
    /\ \A i \in DOMAIN runs : /\ runs[i].path \in Paths
                              /\ runs[i].phase \in {"start", "restore", "over"}
    /\ \A d \in deletions : d.path \in Paths
    /\ staging \subseteq Paths /\ final \subseteq Paths
    /\ stopAsked \in BOOLEAN

\* newExtractModel, newExtractDiffModel: every request is planned up front.
NewModal(sel, root) ==
    [state |-> "review", gen |-> 0, cancel |-> NoRun, item |-> Head(sel),
     queue |-> Tail(sel), diff |-> Len(sel) = 2, published |-> <<>>, root |-> root,
     priv |-> FALSE, isSudoBusy |-> FALSE, refused |-> FALSE,
     resultStaging |-> NoPath, ranTargetRoot |-> NoRoot, counts |-> 0]

\* extractModel{} while no modal is open; nothing reads it.
ZeroModal == NewModal(CHOOSE s \in Selections : TRUE, DefaultRoot)

Init ==
    /\ m = ZeroModal /\ active = FALSE /\ session = 0 /\ memo = NoRoot
    /\ runs = <<>> /\ deletions = {} /\ msgs = EmptyBag
    /\ staging = {} /\ final \in Occupied
    /\ stopAsked = FALSE

Path(x) == <<x.root, x.item>>
Fresh(path) == path \notin staging \cup final

Note(type, s, gen) ==
    [type |-> type, session |-> s, gen |-> gen, out |-> "none", path |-> NoPath]
Send(msg) == msgs' = BagAdd(msgs, msg)

\* A cancel function has no effect on a run that is over.
CancelRun(r) ==
    IF r # NoRun => runs[r].phase = "over"
    THEN runs ELSE [runs EXCEPT ![r].canceled = TRUE]

\* supersede: the next generation, and the current operation canceled.
Supersede ==
    /\ m.gen < MaxGen
    /\ runs' = CancelRun(m.cancel)

\* Mutant: the run is dispatched in the generation it supersedes.
StartRunOldGen(x) ==
    /\ x.gen < MaxGen /\ Len(runs) < MaxRuns
    /\ runs' = Append(CancelRun(x.cancel),
                      [session |-> session, gen |-> x.gen, path |-> Path(x),
                       canceled |-> FALSE, phase |-> "start"])
    /\ m' = [x EXCEPT !.gen = @ + 1, !.cancel = Len(runs) + 1, !.state = "running",
                      !.ranTargetRoot = x.root, !.isSudoBusy = FALSE]

\* startRun for the request of modal x: supersede, then dispatch.
StartRun(x) ==
    /\ x.gen < MaxGen /\ Len(runs) < MaxRuns
    /\ runs' = Append(CancelRun(x.cancel),
                      [session |-> session, gen |-> x.gen + 1, path |-> Path(x),
                       canceled |-> FALSE, phase |-> "start"])
    /\ m' = [x EXCEPT !.gen = @ + 1, !.cancel = Len(runs) + 1, !.state = "running",
                      !.ranTargetRoot = x.root, !.isSudoBusy = FALSE]

-----------------------------------------------------------------------------
(* Keys *)

\* e in another view; a directory also asks the browse index for its counts.
OpenModal ==
    /\ ~active /\ session < MaxModals
    /\ session' = session + 1
    /\ active' = TRUE
    /\ stopAsked' = FALSE
    /\ \E sel \in Selections, isDir \in BOOLEAN :
          /\ m' = NewModal(sel, IF memo = NoRoot THEN DefaultRoot ELSE memo)
          /\ isDir => Len(sel) = 1
          /\ msgs' = IF isDir
                     THEN BagAdd(msgs, Note("counts", session + 1, 0))
                     ELSE msgs
    /\ UNCHANGED <<memo, runs, deletions, diskVars>>

\* Mutant: esc shows the end of the run before it has ended.
CancelKeyShows ==
    /\ active /\ m.state = "running"
    /\ runs' = CancelRun(m.cancel)
    /\ m' = [m EXCEPT !.state = "canceled"]
    /\ stopAsked' = TRUE
    /\ UNCHANGED <<rootVars, deletions, msgs, diskVars>>

\* esc or q while a run is live only cancels it; its result ends the state.
CancelKey ==
    /\ active /\ m.state = "running"
    /\ runs' = CancelRun(m.cancel)
    /\ stopAsked' = TRUE
    /\ UNCHANGED <<m, rootVars, deletions, msgs, diskVars>>

\* esc or q elsewhere supersedes and asks the root to close.
LeaveKey ==
    /\ active /\ m.state \in States \ {"running", "picker"}
    /\ Supersede
    /\ m' = [m EXCEPT !.gen = @ + 1, !.cancel = NoRun]
    /\ Send(Note("back", session, m.gen))
    /\ UNCHANGED <<rootVars, deletions, diskVars, stopAsked>>

ClosePickerKey ==
    /\ active /\ m.state = "picker"
    /\ m' = [m EXCEPT !.state = "review"]
    /\ UNCHANGED <<rootVars, runs, deletions, msgs, diskVars, stopAsked>>

InReview == active /\ m.state = "review" /\ ~m.isSudoBusy

TargetKey ==
    /\ InReview
    /\ m' = [m EXCEPT !.state = "picker"]
    /\ UNCHANGED <<rootVars, runs, deletions, msgs, diskVars, stopAsked>>

PrivKey ==
    /\ InReview
    /\ m' = [m EXCEPT !.priv = ~@]
    /\ UNCHANGED <<rootVars, runs, deletions, msgs, diskVars, stopAsked>>

\* Mutant: the probe answers to the generation it supersedes.
EnterKeyOldGen ==
    /\ InReview
    /\ m.gen + Len(m.queue) + 2 <= MaxGen /\ Len(runs) + Len(m.queue) < MaxRuns
    /\ stopAsked' = FALSE
    /\ \/ ~m.priv /\ StartRun(m) /\ UNCHANGED msgs
       \/ /\ m.priv
          /\ Supersede
          /\ m' = [m EXCEPT !.gen = @ + 1, !.cancel = NoRun, !.isSudoBusy = TRUE]
          /\ Send(Note("probe", session, m.gen))
    /\ UNCHANGED <<rootVars, deletions, diskVars>>

\* enter: a privileged request probes sudo first, in a generation of its own.
EnterKey ==
    /\ InReview
    /\ m.gen + Len(m.queue) + 2 <= MaxGen /\ Len(runs) + Len(m.queue) < MaxRuns
    /\ stopAsked' = FALSE
    /\ \/ /\ ~m.priv
          /\ StartRun(m)
          /\ UNCHANGED msgs
       \/ /\ m.priv
          /\ Supersede
          /\ m' = [m EXCEPT !.gen = @ + 1, !.cancel = NoRun, !.isSudoBusy = TRUE]
          /\ Send(Note("probe", session, m.gen + 1))
    /\ UNCHANGED <<rootVars, deletions, diskVars>>

\* Selecting a root replans every remaining side and takes it only if all fit.
PickRoot ==
    /\ active /\ m.state = "picker"
    /\ \E root \in Roots :
          /\ \A item \in {m.item} \cup {m.queue[i] : i \in DOMAIN m.queue} :
                Fresh(<<root, item>>)
          /\ m' = [m EXCEPT !.root = root, !.state = "review"]
    /\ UNCHANGED <<rootVars, runs, deletions, msgs, diskVars, stopAsked>>

StagingPending == m.resultStaging \in staging

\* d on a terminal screen with staging left: delete what the run reported, if it
\* is what the modal planned.
DeleteKey ==
    /\ active /\ m.state \in {"canceled", "error"} /\ StagingPending
    /\ m' = [m EXCEPT !.state = "keepDelete"]
    /\ \/ /\ m.resultStaging = Path(m)
          /\ deletions' = deletions \cup
                {[session |-> session, gen |-> m.gen, path |-> m.resultStaging]}
          /\ UNCHANGED msgs
       \/ m.resultStaging # Path(m) /\ Send(Note("delete", session, m.gen)) /\ UNCHANGED deletions
    /\ UNCHANGED <<rootVars, runs, diskVars, stopAsked>>

\* Mutant: a diff may be retargeted half way.
RetargetAnyTime ==
    /\ active /\ m.state \in {"canceled", "error"} /\ ~StagingPending /\ m.refused
    /\ m' = [m EXCEPT !.state = "picker", !.refused = FALSE, !.resultStaging = NoPath]
    /\ UNCHANGED <<rootVars, runs, deletions, msgs, diskVars, stopAsked>>

\* t after a refusal, before any side of a diff was published.
RetargetKey ==
    /\ active /\ m.state \in {"canceled", "error"} /\ ~StagingPending
    /\ m.refused /\ m.published = <<>>
    /\ m' = [m EXCEPT !.state = "picker", !.refused = FALSE, !.resultStaging = NoPath]
    /\ UNCHANGED <<rootVars, runs, deletions, msgs, diskVars, stopAsked>>

-----------------------------------------------------------------------------
(* Messages, and what Update does with each *)

\* Mutant: a side counts as published before its error is looked at.
ApplyRunCountsAll(msg) ==
    \/ msg.gen # m.gen /\ UNCHANGED <<m, runs>>
    \/ /\ msg.gen = m.gen
       /\ m' = [m EXCEPT !.resultStaging = msg.path, !.published = Append(@, msg.path),
                         !.state = IF msg.out = "ok" THEN "success" ELSE "error"]
       /\ UNCHANGED runs

\* Mutant: the result of a canceled run is taken for a stale one.
ApplyRunUncanceled(msg) ==
    IF msg.gen # m.gen \/ msg.out = "canceled" THEN UNCHANGED <<m, runs>>
    ELSE /\ m' = [m EXCEPT !.resultStaging = msg.path,
                           !.state = IF msg.out = "ok" THEN "success" ELSE "error"]
         /\ UNCHANGED runs

\* applyRunDone and advanceQueue, which plans the next side again and shows an
\* error should that fail.
ApplyRun(msg) ==
    LET done == [m EXCEPT !.resultStaging = msg.path, !.refused = FALSE,
                    !.published = IF m.diff THEN Append(@, Path(m)) ELSE @]
        next == [done EXCEPT !.item = Head(m.queue), !.queue = Tail(m.queue)]
    IN  \/ msg.gen # m.gen /\ UNCHANGED <<m, runs>>
        \/ /\ msg.gen = m.gen /\ msg.out # "ok"
           /\ m' = [m EXCEPT !.resultStaging = msg.path,
                             !.state = IF msg.out = "canceled" THEN "canceled" ELSE "error",
                             !.refused = msg.out = "refused"]
           /\ UNCHANGED runs
        \/ /\ msg.gen = m.gen /\ msg.out = "ok" /\ m.queue # <<>>
           /\ StartRun(next) \/ (m' = [done EXCEPT !.state = "error"] /\ UNCHANGED runs)
        \/ /\ msg.gen = m.gen /\ msg.out = "ok" /\ m.queue = <<>>
           /\ m' = [done EXCEPT !.state = "success"]
           /\ UNCHANGED runs

\* Counts are taken if they are known and not superseded.
ApplyCounts(msg) ==
    /\ \/ m' = m
       \/ msg.gen = m.gen /\ m' = [m EXCEPT !.counts = msg.session]
    /\ UNCHANGED runs

Awaited(msg) == msg.gen = m.gen /\ m.state = "review" /\ m.isSudoBusy
Refuse == m' = [m EXCEPT !.isSudoBusy = FALSE] /\ UNCHANGED runs

\* applySudoProbe: ready, unavailable, or sudo must ask for a password, which
\* suspends the program and comes back as a message of the same generation.
ApplyProbe(msg) ==
    \/ ~Awaited(msg) /\ UNCHANGED <<m, runs>> /\ msgs' = BagRemove(msgs, msg)
    \/ Awaited(msg) /\ (StartRun(m) \/ Refuse) /\ msgs' = BagRemove(msgs, msg)
    \/ /\ Awaited(msg)
       /\ msgs' = BagAdd(BagRemove(msgs, msg), Note("auth", session, m.gen))
       /\ UNCHANGED <<m, runs>>

ApplyAuth(msg) ==
    \/ ~Awaited(msg) /\ UNCHANGED <<m, runs>>
    \/ Awaited(msg) /\ (StartRun(m) \/ Refuse)

\* applyDeleteStagingDone closes the modal by way of the root.
ApplyDelete(msg) ==
    /\ msgs' = IF msg.gen = m.gen
               THEN BagAdd(BagRemove(msgs, msg), Note("back", session, m.gen))
               ELSE BagRemove(msgs, msg)
    /\ UNCHANGED <<m, runs>>

\* Only the target of an extraction that ran is remembered.
Remembered ==
    IF RememberTarget /\ m.ranTargetRoot # NoRoot THEN m.ranTargetRoot ELSE memo

\* Mutant: the root zeroes the modal without superseding its run.
ApplyBackForgets ==
    /\ memo' = Remembered
    /\ m' = ZeroModal
    /\ active' = FALSE
    /\ UNCHANGED runs

\* The root supersedes and zeroes the modal.
ApplyBack ==
    /\ memo' = Remembered
    /\ runs' = CancelRun(m.cancel)
    /\ m' = ZeroModal
    /\ active' = FALSE

\* Update receives a message; it drops every one that finds no active modal.
Receive(msg) ==
    \/ /\ ~active
       /\ msgs' = BagRemove(msgs, msg)
       /\ UNCHANGED <<m, runs, active, memo>>
    \/ active /\ msg.type = "probe" /\ ApplyProbe(msg) /\ UNCHANGED <<active, memo>>
    \/ active /\ msg.type = "delete" /\ ApplyDelete(msg) /\ UNCHANGED <<active, memo>>
    \/ /\ active /\ msg.type \notin {"probe", "delete"}
       /\ msgs' = BagRemove(msgs, msg)
       /\ \/ msg.type = "run" /\ ApplyRun(msg) /\ UNCHANGED <<active, memo>>
          \/ msg.type = "counts" /\ ApplyCounts(msg) /\ UNCHANGED <<active, memo>>
          \/ msg.type = "auth" /\ ApplyAuth(msg) /\ UNCHANGED <<active, memo>>
          \/ msg.type = "back" /\ ApplyBack

Deliver ==
    /\ \E msg \in DOMAIN msgs : Receive(msg)
    /\ UNCHANGED <<session, deletions, diskVars, stopAsked>>

-----------------------------------------------------------------------------
(* Command goroutines *)

\* Run r returns: its result names the staging directory it created, if any.
Return(r, out, path) ==
    /\ runs' = [runs EXCEPT ![r].phase = "over"]
    /\ Send([type |-> "run", session |-> runs[r].session, gen |-> runs[r].gen,
             out |-> out, path |-> path])

\* Mutant: staging is made with MkdirAll, so one left behind is used again.
RunBeginsReusing(r) ==
    /\ runs[r].phase = "start"
    /\ runs[r].path \notin final
    /\ staging' = staging \cup {runs[r].path}
    /\ runs' = [runs EXCEPT ![r].phase = "restore"]
    /\ UNCHANGED <<m, rootVars, msgs, deletions, final, stopAsked>>

\* App.Extract up to the exclusive Mkdir of staging: an occupied target is
\* refused, secrets or the file system may fail it, and a privileged one asks the
\* context before it starts its helper.
RunBegins(r) ==
    /\ runs[r].phase = "start"
    /\ \/ /\ Fresh(runs[r].path)
          /\ staging' = staging \cup {runs[r].path}
          /\ runs' = [runs EXCEPT ![r].phase = "restore"]
          /\ UNCHANGED msgs
       \/ ~Fresh(runs[r].path) /\ Return(r, "refused", NoPath) /\ UNCHANGED staging
       \/ \E out \in {"failed", "canceled"} : Return(r, out, NoPath) /\ UNCHANGED staging
    /\ UNCHANGED <<m, rootVars, deletions, final, stopAsked>>

\* Publishing is past the last look at the context: a cancel can come too late.
RunPublishes(r) ==
    /\ runs[r].phase = "restore"
    /\ runs[r].path \in staging \ final
    /\ staging' = staging \ {runs[r].path}
    /\ final' = final \cup {runs[r].path}
    /\ Return(r, "ok", runs[r].path)
    /\ UNCHANGED <<m, rootVars, deletions, stopAsked>>

\* The restore fails, is canceled or timed out, or publishing fails, which no cancel
\* is looked for in, or finds its target taken by somebody else; staging stays.
RunFails(r) ==
    /\ runs[r].phase = "restore"
    /\ \/ \E out \in {"failed", "canceled"} : Return(r, out, runs[r].path) /\ UNCHANGED final
       \/ Return(r, "refused", runs[r].path) /\ final' = final \cup {runs[r].path}
    /\ UNCHANGED <<m, rootVars, deletions, staging, stopAsked>>

\* DeleteExtractStaging returns; RemoveAll unlinks the directory itself last.
DeletionEnds(d) ==
    /\ deletions' = deletions \ {d}
    /\ staging' = staging \ {d.path} \/ UNCHANGED staging
    /\ Send(Note("delete", d.session, d.gen))
    /\ UNCHANGED <<m, rootVars, runs, final, stopAsked>>

Key ==
    \/ CancelKey \/ LeaveKey \/ ClosePickerKey \/ TargetKey \/ PrivKey \/ EnterKey
    \/ PickRoot \/ DeleteKey \/ RetargetKey

RunStep(r) == RunBegins(r) \/ RunPublishes(r) \/ RunFails(r)

Next ==
    \/ OpenModal \/ Key \/ Deliver
    \/ \E r \in DOMAIN runs : RunStep(r)
    \/ \E d \in deletions : DeletionEnds(d)

Spec == Init /\ [][Next]_vars
\* Commands run to their end by themselves once canceled, and Update handles
\* every message; nothing makes a user press a key or restic finish.
Fairness ==
    /\ \A r \in 1..MaxRuns :
          WF_vars(r \in DOMAIN runs /\ (RunBegins(r) \/ (runs[r].canceled /\ RunFails(r))))
    /\ WF_vars(Deliver)

FairSpec == Spec /\ Fairness

-----------------------------------------------------------------------------
(* Properties *)

Live(r) == runs[r].phase # "over" /\ ~runs[r].canceled
Pending(type) == {msg \in DOMAIN msgs : msg.type = type /\ msg.session = session
                                        /\ msg.gen = m.gen}

\* Whatever the user reopens and however late the answers are, at most one
\* extraction is live, and none once its modal is gone.
OneLiveRun ==
    /\ \A r1, r2 \in DOMAIN runs : Live(r1) /\ Live(r2) => r1 = r2
    /\ \A r \in DOMAIN runs : Live(r) => active /\ runs[r].session = session

\* A live or unwinding restore never loses its staging directory to a deletion
\* somebody asked for earlier, in this modal or in one before.
StagingKept ==
    \A r \in DOMAIN runs : runs[r].phase = "restore" => runs[r].path \in staging

\* The running screen always has an end coming: its run is still at work or has
\* sent its result.
RunningHasEnd ==
    active /\ m.state = "running" =>
        \/ \E r \in DOMAIN runs : /\ runs[r].session = session
                                  /\ runs[r].gen = m.gen
                                  /\ runs[r].phase # "over"
        \/ Pending("run") # {}

\* A review debounced by a sudo check has the answer to it coming, unless the
\* user left it and the modal is about to close.
SudoHasEnd ==
    active /\ m.state = "review" /\ m.isSudoBusy =>
        \/ Pending("probe") \cup Pending("auth") # {}
        \/ \E msg \in DOMAIN msgs : msg.type = "back"

\* A terminal screen shows the end of the last run: nothing goes on behind it.
TerminalMeansOver ==
    active /\ m.state \in {"success", "canceled", "error"} =>
        \A r \in DOMAIN runs : runs[r].phase = "over"

\* Sides listed as published are on disk, all under the root the modal shows,
\* and success means that none is missing.
PublishedHere ==
    active =>
        /\ \A i \in DOMAIN m.published : m.published[i] \in final /\ m.published[i][1] = m.root
        /\ m.state = "success" => m.queue = <<>> /\ Path(m) \in final

\* A canceled run is not shown as running for ever.
CancelIsSeen ==
    \A r \in 1..MaxRuns :
        r \in DOMAIN runs /\ runs[r].canceled ~>
            ~(active /\ m.state = "running" /\ m.cancel = r)

\* Once back was pressed on a running extract no further side is started.
CancelStopsExtract == [][stopAsked /\ stopAsked' => Len(runs') = Len(runs)]_vars

\* A deletion left running when its modal was left has no say in a later one.
LateDeleteDiscarded ==
    [][\A msg \in DOMAIN msgs :
          msg.type = "delete" /\ msg.session # session /\ Receive(msg) =>
              msgs' = BagRemove(msgs, msg)]_vars
===============================================================================
