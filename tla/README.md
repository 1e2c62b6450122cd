# resticscope in TLA+

Specifications, model-checking runs and machine-checked proofs for resticscope, a terminal UI
over restic repositories written in Go. Paths below are relative to `src/`; the line ranges
every definition stands for are in `PROJECT.json` ("map").

## 1. Inventory

### 1.1 How the program is put together

One process runs one command: the TUI (`internal/tui`), or a subcommand such as
`status --refresh` (`cmd/resticscope`). Both sit on `internal/app`, which decides what to do,
and `internal/resticx`, which runs restic as a child process and parses what it prints.
State outlives a process in three places only: the cache directory (one JSON file per
repository), the extract target root (staging directories and published directories), and
session directories of the browse database (removed at exit, scavenged by others after a
crash). Several processes may run at once and share all three.

Inside the TUI there is one goroutine that owns all view state (`Update`). Everything slow is
a command: a goroutine that calls into `internal/app` and whose result comes back as a
message, in whatever order the commands end. The view may have moved on by then; each view
guards itself with a *generation* it counts up and with cancel functions it calls.

### 1.2 Components

| component | state it keeps | operations | talks to |
|---|---|---|---|
| Browse session (`app/browsesession.go`) | `opMu`, `mu`, store, closed, inflight | beginOp, IndexSnapshot, ListDir, SubtreeCounts, SearchSnapshot, Close | restic stream, browse database, every goroutine of the browse view |
| Browse database (`browsedb/`) | SQLite tables, one connection, the index transaction | Begin, Entry, Commit, Rollback, queries | browse session |
| Session directories (`browsedb/sessions.go`) | directories and advisory locks | LockSession, CleanStaleSessions | other processes |
| Extract modal (`tui/extract.go`) | state, gen, cancel, queue, published, target root, memo | keys, run/sudo/delete/probe results | root `Update`, extract pipeline |
| Extract pipeline (`app/extract*.go`) | staging and target directories | plan, restore, normalise, publish, delete staging | restic, file system, privileged helper |
| Privileged helper (`app/extract_privileged*.go`, `extract_helper.go`) | a child process under sudo, its event stream | run, cancel by closing stdin, hand ownership over | extract pipeline |
| Refresh (`app/refresh.go`, `tui/repo_commands.go`, `cmd/.../commands.go`) | semaphore, pending, rows, spinner | r, R, refresh on open, `status --refresh` | restic, cache |
| Cache (`cache/cache.go`) | one file per repository | Load, Save (temporary file and rename) | other processes |
| Browse view (`tui/browse.go`, `browsesearch.go`) | path, listings, search overlay, gen | open, list, back, search | browse session |
| Find-versions and diff views (`tui/findversions.go`, `snapshotdiff*.go`) | results, gen, inspector | run, swap, search, inspect | restic |
| Repository list and detail (`tui/list.go`, `arrange.go`, `detail.go`, `snapgroup.go`) | cursor, order, grouping, filter, marks | keys, a refresh that lands | rows of the refresh component |
| Layout (`tui/layout.go`, `group.go` and the views) | none | which lines of a list or page are shown | every view |
| restic driver (`resticx/`) | a child process per call | start, drain, kill, wait, classify | restic |
| Pure model (`model/`) | none | status, diff tree, version groups, ranking | everyone |
| Shell sessions (`app/shell.go`, `shellprompt.go`, `cmd/.../exec.go`) | temporary files, environment | open, launch, clean up | list and detail, the child |
| Pruning, check, secrets, configuration | little or none | sequential | |

What makes each one correct, and which behaviours of it are hard:

* **Browse session.** Operations serialise on `opMu`; `Close` may come at any moment, from
  several goroutines. Hard: Close against lazy open, Close against the registration of a cancel
  function, a stream cut half-way, an error path that leaves the only connection in a
  transaction. Correct when the store is open while it is used, none leaks, Close reaches what
  it waits for and returns, and only whole indexes are ever visible.
* **Extract modal.** Hard: results of superseded runs, sudo answers after a retarget, two sides
  of a diff under one target, a modal that is reopened while things it started are still at
  work. Correct when one run at most is live, every waiting screen has an end on its way, a
  final screen means nothing goes on behind it, and what it lists as published is on disk.
* **Extract pipeline and helper.** Hard: two runs over one staging directory, a crash or failure
  between the publish steps, a helper that dies, cancel against result. Correct when a target
  is never replaced and never half written, and staging is only removed by who owns it.
* **Refresh and cache.** Hard: one semaphore for many commands with contexts ending at every
  point, several processes that read, call restic for minutes and write back, crashes in mid
  save. Correct when parallelism is kept, no mark or slot is lost, the cache is never broken
  by us, and what it calls refreshed at a time was seen then or later.
* **Views.** Hard: late answers to an older question. Correct when what is shown belongs to the
  question whose label is shown.
* **List and detail.** Hard: a refresh re-sorts, folds or replaces rows between two keys. Correct when
  what the next key acts on is what was under the cursor, and marks stay with their snapshots.
* **Browse database, pure model, layout.** Hard: algorithms whose input order matters, and
  arithmetic at the boundaries. Correct when they agree with a definition by sets.
* **Session directories.** Hard: a scavenger that acts on what it saw a moment ago. Correct when no
  session in use is taken away.
* **restic driver.** Hard: three pipes, four goroutines, a kill and a helper that inherits the
  pipes. Correct when a success means that everything was taken, and every call returns.
* **Shell sessions.** Hard: failures half-way through creation or removal. Correct when no
  password file outlives its session unnoticed.

## 2. Plan

In order of what a mistake would cost:

1. `BrowseSession`, its promise `BrowseSessionSpec`, the refinement, and `BrowseSessionProofs`. *Done.*
2. `ExtractModal` with the root's dispatch. *Done.*
3. `Refresh` (list, CLI, cache file, crashes) and `RefreshProofs`. *Done.*
4. `ExtractPipeline`: runs of one or several processes over one target root, every file-system
   step of the publish on its own, crashes, and the privileged helper; and
   `ExtractPipelineProofs`: a target is never replaced, what is published is whole; and
   `ExtractTargets`, the abstract target directory the pipeline implements. *Done.*
5. The browse, find and diff views over the shared idea of a generation (`Navigation`,
   `BrowseView`, `FindView`, `DiffView`, `DetailView`, composed by `Views`): what is shown answers
   the question that is shown. `RepoList`. *Done.*
6. `IndexTx` against a reference namespace; `SessionDirs` with locks and scavengers; `ResticRun`;
   `Shells`; pure algorithms against definitions by sets (`DiffModel`, `Versions`, `Ranking`,
   `RepoStatus`, `Inspect`, `Windows`, `Screens`, `RestoreArgs`, `Prune`); proofs about
   `SessionDirs`, `ResticRun`, `Shells`, `ExtractModal`, `RepoStatus` and `Windows`. *Done.*
7. `ViewsProofs`: what a screen shows answers what it asks, for any snapshots, directories and
   queries; and what holds of the first extract modal until a second one is opened. *Done.*
8. `SelectionProofs`: the rows of the list and of the detail view, for any repositories and
   snapshots. *Done.*
9. `BackendProofs`: what browsing shows of an indexed snapshot is that snapshot, for trees of any size,
   with the proofs of step 6 about `SessionDirs`, `ResticRun` and `Shells`, patterns for restic and
   pruning; and in `AlgorithmProofs` what a diff shows and has extracted, the inspector, search, the
   orders of rows, grouped lists and screens. *Done.*
10. Left: the hand-over of ownership by the root helper, progress and free space of an extract.

`BrowseSession` abstracts the database to the extent of its committed rows and a stream to how it
ended; `IndexTx` (nothing is visible before Commit, everything after) and `ResticRun` (a complete
verdict means every line was taken) are about just that. `ExtractModal` abstracts `App.Extract` to
the outcomes that `ExtractPipeline` can produce. These links are by argument: the modules share no
variables and no refinement is checked between them.

## 3. What is modelled

### 3.1 BrowseSession

Workers are command goroutines, each with one store operation at a time; closers call `Close`.
`pc` and `cpc` are their positions. `opMu` is held for a whole operation. `mu` guards `store`,
`closed` and `inflight`; a critical section with no call in it is one step that needs `mu` free,
and the two that call `store.Close()` under `mu` take two steps and keep it. A handle is one
result of `open()`. `scan` is what the restic stream delivered so far, `tx` the open index
transaction, `content` what is committed; rows are abstracted to none, some or all of a
namespace, which is what "complete" means to the code. Every call that can fail fails in some
behaviour; the context of an operation can end at any step.

`BrowseSessionSpec` is what the rest of the program relies on: a store is opened once, held by
one operation at a time, and destroyed for good by `Close`, never under its holder; a snapshot is
published whole or not at all. `RefinesSpec` states that `BrowseSession` implements it: the
holder is who is past `beginOp`, the phase follows `store` and finished closes.

Run `browse_session`: two workers, two closers, one snapshot, two handles. Two of each are
enough for a race of every pair (operation/operation, operation/close, close/close, close/open);
a third only queues on the same mutexes. 170,352 states.

Fairness: strong for steps that take a mutex, because Go's mutexes hand the lock to a waiter that
starves; weak for steps of an operation at work; the stream is only sure to end once its context
is done (restic is killed). Nothing relies on restic answering. Under it `CloseReturns` holds.

### 3.2 ExtractModal

`m` is `Model.extract`, `runs` the `App.Extract` calls dispatched so far (a run outlives its
modal), `deletions` the `DeleteExtractStaging` calls, `msgs` the bag of messages on their way,
`staging` and `final` the disk. Messages are delivered in any order. The `session` of runs and
messages is history: the code tells age by `gen`, which restarts at zero in each modal, and by
whether a modal is active; no guard reads `session`. A path is a root and an item.

Runs: `extract_modal` is one modal for a plain source or for a path with both sides of a diff, two
roots, the second target possibly occupied, three dispatched runs (both sides and one retry)
and four generations; it asks whether the screen agrees with runs and disk, and whether a
canceled run always leaves the running screen. `extract_modal_reopened` opens a second modal
while what the first one started is still around. `extract_late_delete` and
`extract_cancel_diff` are the findings below. Deadlock is not checked: a behaviour stops when it
has used up its modals, runs and generations, bounds the code does not have. Liveness assumes
that a run ends once canceled and that its message is delivered.

A canceled run may also fail for a reason of its own (publishing does not look at the context), may end
before it has a staging directory, and may succeed. The plan of a diff's second side may fail when its turn comes.

### 3.3 Refresh

Processes: the TUI and `status --refresh`. A job per process and repository goes through
waiting for a slot, taking its timestamp and prior state, asking restic, writing the temporary
file, renaming. `slots` is the number of tokens in the semaphore channel. `rows`, `pending` and
`ticking` are the TUI's; `cache` is shared. A process may die at any step; a temporary file left
behind is not named as it is never read. A repository's snapshots are abstracted to the time
restic listed them (`obs`), next to `RefreshedAt` (`at`) and `LastError` (`err`): that is all the
properties tell apart. The exit code abstracts the colour of rows in error to "not green"; rows
without error are green or not as their age has it, which is left open.

Runs: `refresh` is the TUI alone with two repositories that compete for one slot, the clock bounded
by 2; `refresh_shared` is the TUI and one CLI on one repository; `refresh_lost_update` is a finding.
Two clock values are enough to tell an older from a newer observation.

A CLI's context is whatever its caller makes of it: `RefreshAll` promises never to block past its
end (`internal/app/refresh.go:56`), though `main` passes one that no signal ends.

Fairness: weak for each job's steps (`Client.Timeout` bounds restic), strong for taking a slot (a
full Go channel serves its senders in order), weak for delivering a message and for the CLI's
return.

### 3.4 ExtractPipeline

A run is one call of `Extract` for one source of one snapshot, in its own process or, when it is
in `Sudo`, by a root helper that the calling process (the parent) started. Runs share the
target root. `par` is where the calling process is, `pc` where the pipeline is; for a plain run
both live and die together. `canceled` is the caller's context, `stop` the pipeline's: the same
for a plain run, two for a privileged one, where only the end of standard input or
`extract_timeout` reaches the helper. `event` is the helper's last word, `res` what `Extract`
returned. The disk is `staging` (per source: how far its contents are, and, as history, who
made it) and `mirror` (what is at each node of the published tree). Each file-system call is a step,
so the others move between the check and the mkdir, between the look at the target and the
rename, between publishing and clean-up. `DeleteStaging` is the user's answer to a leftover; it empties
the directory before it removes it, and a restic at work may find it gone.

`got` and `misclaimed` are history that no guard reads. `misclaimed` is the proviso of two
properties: it is set when a run is told that it made a staging directory which somebody else
made (the finding `extract_claims`), because a deletion on that word can empty a directory in
use, and a hollow tree can then be published.

Run `extract_pipeline`: one privileged and one plain run; the root, a directory and a file in it as
sources, so that sources are equal, nested, or "/" itself; an empty mirror, or one with
something foreign anywhere. Two runs give every race of a pair over a directory or a target;
one privileged and one plain run have all steps of both kinds. The proofs cover any number of runs
and any tree. 400,142 states. Deadlock is not checked: a behaviour ends when its runs have.
`extract_claims` is the same instance, and a finding.

What the parent tells (`Verdict`) follows the order of the code: its own context, the helper's error, the
error of `Run`, the helper's result. `Run` has an error if the helper was silent, and it can have
one after a result, when the helper was killed or its output spoilt behind it. `LeftoverReported` is about
runs that did not succeed: what they leave they are told of. Of a success no such thing
is true: see the observations in section 4.

`ExtractTargets` is what all this comes to for somebody who sees calls and targets only: a source
and all below it appear at the target in one step, where nothing was (or where an empty
directory becomes an empty directory), nothing goes away or is replaced, and a call that succeeds
has brought its source, while one that failed or died may have. Staging, helpers and
signals are gone from it. `RefinesTargets` maps the pipeline's state to it: `there` is what of the
mirror a run published, `brought` is `got`, and `foul` is `misclaimed`. It implies `TargetKept`,
which is therefore proved and not run.

Fairness: weak for the process's own steps, for the end of input reaching the helper and for the
verdict; restic is only sure to end once the pipeline's context is done, when it is killed. So
`RunEnds` is asked of runs whose caller gave up or died.

Abstracted: contents to how much of the source they are, a deletion to two steps, sudo to
something that ends when the helper does and not before. Left out: ownership and its hand-over,
the cache the helper shares with the user, the symlink policy, free space and progress, and a
restic that outlives the process that started it.

When the caller's context is done, `extractPrivileged` reports a cancel even if the helper had
published (`internal/app/extract_privileged.go:120`). The code does this on purpose, and the
properties hold with it: a success is on disk, but what is on disk need not be called one.

### 3.5 The screens: Navigation, DetailView, BrowseView, FindView, DiffView, Views

`Navigation` has what the root model keeps: the screen in front (`view`), the one behind the help
overlay, where the extract modal was opened from, and `flight`, the commands that have not answered.
A command is a record of what it was asked (`ask`), the generation its message will carry, and
whether its context is still open. A view's cancel function is the generation of the command it
would cancel. `Views` composes the screens: keys go to the one in front, answers come in any order
under whatever is in front.

Rows are recorded as what they answer (`[snap, dir]`, `[snap, query]`, `[path, host, all]`, or the
run a diff tree came from). No guard reads that; the code accepts an answer by its generation alone,
and `ShownAnswersQuestion` asks whether that is enough: the rows answer the question that the
heading shows. `NothingWorksUnseen` is the converse: a command whose context is still open is one that
a screen in front waits for. `Settles` says that once the user stops no view is left loading, under
weak fairness of `Deliver` alone (each command has its timeout, Bubble Tea takes every message).
`SelectionStays` is an action property of detail and list, which `Selection` puts side by side. `PartialTreeIsMarked` is the finding below.

There is one repository, four snapshots of two sources and two of each kind of question; the list of
snapshots can change with a refresh under any screen. The number of keys is bounded per view by
`MCBudgets`: up to seven keys in one view, or fewer in several, so that each pair of views meets with
answers outstanding. Which row the cursor is on is any row. `Quit` ends every context and nothing is delivered after it.

`RepoList` is the list of repositories: filter, order, grouping and cursor over three repositories
whose status may change at any time. `ListShowsMatches`: nothing that matches is lost or shown twice.
The list and the detail view sort by orders that leave no ties once the tie-breaks of the code are in
(the id of a snapshot in `snapshotBeforeNewest`, the place in the configuration under a stable sort),
so `Arrange` puts each row at the place that is its rank: as many rows before it as go before it. For
sequences, whose rows may compare equal, `StableSorted` adds the equal ones that came earlier.

### 3.6 Behind the screens: SessionDirs, IndexTx, ResticRun, Shells

`SessionDirs`: processes scavenge, make a directory, lock it, use it, close it, and die at any step;
`os.RemoveAll` removes entry by entry. A directory's name is never drawn again, so a lock belongs to
a directory for good. `supported` is whether there are advisory locks at all. `Prompt` says that a
process takes its lock within `staleThreshold` (three hours) of its mkdir. Without it, that is, with
a process suspended for hours between the two calls, a scavenger may remove a session in use.

`IndexTx`: nodes arrive in any order, each once; ids, buffers, batches of two rows, the disk check every
three, failures of any statement, and then the queries over the tables. `IndexIsExact` compares every
listing, recursive size, count and search with the tree that was streamed. The tree has an empty and
two nested directories and one directory that is never recorded itself, in a second snapshot whose
rows share the tables.

`ResticRun`: `main` is the caller, `copier` and `writer` the goroutines on stderr and descriptor 4, `child`
restic; `out`, `err` and `fd4` are what is in the pipes, of capacity one. Three lines of output are
enough for a full pipe with more to come behind a callback that stopped early; messages and patterns
come two at a time, in one call the former, in another the latter. Of messages it is counted how
many were read, not what they say, and `Wait` closes the pipe of stderr while its goroutine may still be
reading (`errOpen`): see the observations in section 4. A helper that restic started
may hold the pipes open after it. `VerdictIsTrue` relates what the caller is told to how the child
ended and what was taken. `CallReturns` holds if a kill works, restic gets on with its work or its
deadline passes, and a helper ends some time after restic: the code waits for a helper that never
does (`internal/resticx/exec.go:117`), as the hazard list says.

`Shells`: the interface opens shells one at a time and may have some queued, `exec` has one; every
write and removal may fail. `kept` and `told` are history. `BuildShellEnv` is the environment in the
order in which the code puts its parts together, as names only; a later value counts, which is what
`os/exec` does. Of each credential family the model has some names, and `RESTIC_CACHE_DIR` is always set
(the code leaves it out when there is no place for a cache).

### 3.7 Algorithms: DiffModel, Versions, Ranking, RepoStatus, Inspect, Windows, Screens, RestoreArgs, Prune

Operators, each translated from one algorithm and stated to agree with a definition that does not
follow the code: a diff tree and its extract sets with sets of changes (`DiffModel`), groups with the
set of matches (`Versions`), search with all subsequences and directory order with a total order
(`Ranking`), records side by side with field-wise difference (`Inspect`), what include patterns
mean to restic with the paths that were selected (`RestoreArgs`), pruning with what must stay (`Prune`).
`RepoStatus`: waiting never makes a repository look better. `Windows`: the selected row and its heading
are in the window. `Screens` puts the lines of whole screens together, while `Windows` counts them
ahead by constants as the code does; a screen must fit its height, its footer included.

`AlgorithmsAgree` asks all of these of every bounded input in `MCParts`: three change lines over three
paths, three snapshots with five lists of matches, names of three characters, queries with a space, screens of all heights
at which something optional comes or goes, pairs of records that differ in a field. That is where
their branches lie: each compares, folds or sorts neighbours.

### 3.8 Run `parts`

`MCParts` has all of 3.5 to 3.7 in one state space. `part` picks one at the start and the others stand
still, so their sizes add up and do not multiply. 670,259 states. Deadlock is not checked: keys, sessions
and inputs run out. `diff_partial` is the same instance.

## 4. Findings

| run | what the code does | what is said of it |
|---|---|---|
| `extract_late_delete` | The generation is the only guard on a deletion's result and restarts at zero in each modal. A deletion left behind in one modal can close a later one and cancel its run. | `internal/tui/extract.go:740`: superseding discards the in-flight deletion result |
| `extract_cancel_diff` | Back on a running diff extract only cancels the context of the side at work. If that side is past its last look at it, it succeeds and the second side starts. | `docs/extract.md:29`: back cancels an extract while it runs |
| `refresh_lost_update` | A failing refresh writes back the prior state it loaded when it started, over a success another process saved meanwhile. | `internal/app/app_test.go:567`: a failed refresh does not replace the last successful observation |
| `diff_partial` | Swapping sides or toggling metadata clears the warning of a partial tree at once (`internal/tui/snapshotdiff.go:109`). If the rerun fails, the old tree is put back under its labels without the warning. | `internal/tui/snapshotdiff.go:183-184`: warnings are kept, as ordinary status "could make an incomplete tree look complete" |
| `extract_claims` | A helper that says nothing (sudo refused, or it was killed) leaves the parent to look for a staging directory, and any that is there counts as this run's, one that another run is at work in included. | `docs/extract.md:188-189`: a failed extract asks whether to delete "the staging directory that run created" |

Observations made while modelling, without a run of their own:

* `exec NAME -- command` installs no handler for SIGINT, so ^C ends the process before the deferred
  `Cleanup` (`cmd/resticscope/exec.go:58`), and a password file stays, although `docs/cli.md:107`
  has it deleted when the session ends. `Shells` has the step (`Interrupt`); `NothingLeftBehind` is
  about sessions that come to their end. A shell that Bubble Tea has queued when the program quits
  leaves its file in the same way.
* Paging in a modal that overflows moves by as many lines as it has, one more than the body shows
  beside its hint, so a press of page-down skips a line (`internal/tui/layout.go:69-99`).
  `PageShown` therefore promises continuity of the line keys only.
* Removing the staging directory after a publish, or the linked node in it, is best effort and its error is
  dropped (`internal/app/extract.go:540`, `:555`). A success can leave it behind and nobody is told of
  it, although by `docs/extract.md:190` a leftover "always means an interrupted extract".
  `ExtractPipeline` has the step; `LeftoverReported` is about runs that did not succeed.
* `cmd.Wait` closes the stderr pipe when restic has ended, while the goroutine that copies it may not have
  read it yet (`internal/resticx/exec.go:116`). The text of a failed call, by which it is classified and shown,
  may be cut or empty. `ResticRun` has the step; how the error is worded is left out.
* Two times in different zones can print alike in the diff's info screen even at full precision.
* `RESTICSCOPE_REPO` and `RESTICSCOPE_SNAPSHOT_ID` are not among the names that
  `internal/model/backendenv.go` reserves, and configured variables come after `RESTICSCOPE_REPO`
  (`internal/app/shell.go:267`): a repository configured with it tells its shell another name.
  `EnvIsScoped` therefore leaves these two out where it says that nothing is set twice.
* A pruning that fails half-way prints the error and not what it had already removed.

## 5. What is proved

Proofs hold for every value of the constants, from the named assumptions of the modules
(`ProcAssumption`: goroutines, handles and nil values are distinct and there is a snapshot;
`RefreshAssumption`: a finite set of repositories, positive parallelism and clock bound;
`PipelineAssumption`: nodes form a tree under the root, and runs are not confused with what
else can be at a target; `ModalAssumption`: natural bounds, and selections of one or two
items; `SessionAssumption`, `ResticAssumption`, `ShellsAssumption`, `StatusAssumption`: distinct nil
values, a capacity of one at least; `IndexAssumption`: the nodes of a snapshot are finitely many, and no
two have the same path; `BrowseAssumption`, `DiffAssumption`: a snapshot has a root
directory, and a diff's directories are closed upwards, as `BuildDiffTree` makes them;
`DetailAssumption`: no snapshot has the empty id, which the code takes for none, an id names one
snapshot, as it is a hash of it, and a refresh reports finitely many; `RepoListAssumption`: there is
a repository, and names and labels are numbers in their sort order).

**BrowseSessionProofs.** The invariants the run checks are not inductive by themselves. `IInv`
adds: who holds `opMu` and `mu` at which control point (`LockInv`), what `store` can be and whose
handle is open at each point (`StoreInv`, `AllOwned`), what a closer that passed the mark has
established (`CloseInv`), and how `scan`, `ret`, `tx` and `content` agree during an index
(`IndexInv`). From it: type correctness, `StoreOpenWhileUsed`, `NoLeakedStore`,
`CancelReachesInflight`, `OkMeansWholeIndex`, `NoDanglingTx`, and that the session implements
`BrowseSessionSpec` step by step.

**RefreshProofs.** `IInv` adds that a process which is off has no jobs (`OffInv`) and where an
observation comes from (`JobHonest`: a job's timestamp precedes its call, what it will save was
seen no earlier than it says, a job that is over and not in error has a time). Slots need
counting: a step moves one job in or out of the set of holders, and the cardinality lemmas of
the library do the rest. From it: type correctness, `PendingHasEnd`, `WithinParallelism`,
`SpinnerTurns`, `NeverFresherThanSeen`, `CacheStaysWhole`, `ZeroMeansSaved`.

**ExtractPipelineProofs.** `IInv` adds: what a call may have returned at each point (`CallInv`), that
the maker of a staging directory has made it for its own source (`MakerInv`), that who works in
one or may have it deleted is its maker (`OwnInv`, and as a directory has one maker, others keep
off), what it holds at each point (`ContentInv`), that the mirror is closed upwards and what was
published is there downwards (`TreeInv`), and what a success has at its target
(`PublishedInv`). Frame lemmas say once what a step leaves alone (`Others`, `StagingFrame`,
`MirrorFrame`), and the preservation of each part is proved from them; the tree assumption is
used where a rename over an empty directory meets a node below it. From it: type correctness,
`PublishedWhole`, `OneOwner`, `OkMeansPublished`, `LeftoverReported`, `TargetKept`. And the
refinement, `RefinesTargets`: the call of a run is open in the abstract state until its process has the
answer (`CallFrame`), a run that has not reached its publish has nothing at its target yet
(`OnceInv`), the rename or link is the step `Bring` (`Appears`), and no other step moves what is there
(`StandsStill`).

**ExtractModalProofs.** For any number of modals, runs and generations. `Shape` is type correctness with
what it needs; `LiveInv` says that a run which is neither canceled nor over is the one whose cancel
function the modal in front holds; `OneHand` says that a staging directory is in one hand at a time:
of the run that restores into it, then of its report, of the screen that shows it, and of the
deletion asked for there; one that was published is gone, and its target keeps others from making it again, which
is why a screen may show it. The messages are a bag, and the bag lemmas at the head say what an added or
removed message changes. From it: `TypeOK`, `OneLiveRun`, `StagingKept`. The finding
`extract_late_delete` does not contradict the last: what it closes is a screen, not a directory.
The same finding is why `RunningHasEnd`, `SudoHasEnd`, `TerminalMeansOver` and `PublishedHere` cannot be
proved of every modal: the answer to a deletion asked for by one modal changes the state of the
next. They are proved of the first modal of a program, `session <= 1 => P`, from a second
invariant, `FirstModal`: while one modal was ever opened, what the screen waits for is a message or a run
of its own current generation, and what it lists is what the last result named.

**ViewsProofs.** For any snapshots, directories and queries, and any order of keys and answers. `IInv` has five
parts. `NavInv` says which views can be in front and behind; `FlightInv` that every command on its way was
sent under a generation already used, that two commands of one kind and generation are the same,
and that a command whose context is open is the one whose cancel function its view holds.
`BrowseInv`, `FindInv` and `DiffInv` are about one view each, and say beside what the view shows (the
conjuncts of `ShownAnswersQuestion`) what it waits for: the command of the current generation asks
the very question the screen now has, so that its answer can be installed. The helpers of a view
(`Supersede`, `BeginOp`, `ClearDiff`, ...) map a record of the view's state and its commands to another; each has
a lemma that says what it makes of the invariant, as the code's own comments say what a caller
may rely on, and the proof of a key or an answer cites those of the helpers it calls. Frame lemmas
say that a step of one view leaves the commands of the others alone. From it: `NavTypeOK`,
`ShownAnswersQuestion`, `NothingWorksUnseen`. That a directory that vanished from a diff is replaced by
one that is there (`ExistingDiffDir`) needs the greatest of a set of numbers, which the lemma
`Greatest` gets from well-founded induction over the naturals.

**SelectionProofs.** For any repositories, labels, queries, snapshots and refreshes. `ListIInv` says that the
cursor is on a row unless it is on the first place; `DetailIInv` that there are two marks at most, of
different snapshots. What has to be shown is about the rows: that sorting, sections and folding
neither lose a row nor show one twice. A sort lists its set because in a total order the rank of an
element is a bijection (`Ranks`, from the library's facts on finite sets); sections one after the other
list what was divided among them (`SectionsList`, on `Flattened`); `CollapseTreeRuns` and `Normalized` go
through a sequence and keep what they have passed (`Collapsed`, `NormalizedMarks`). A row that moved is
then found where it is (`Place`, `RowOf`). From it: `ListTypeOK`, `ListShowsMatches`, `DetailTypeOK`, and
the action property `SelectionStays`.

**BackendProofs.** About what works behind the screens. `IndexTx`, for trees of any size and depth, nodes in any
order, batches of any size, any failures and any number of snapshots in the same tables, `IndexInv` has
two parts.
Of a transaction (`Running`): every interned directory has its parent interned under a smaller id and
its row at the place of its id (`DirsOK`), the cached parent is interned (`CacheOK`), each directory
has the sizes of the files right in it that were added (`SizesOK`), and each added node has one row,
written or buffered (`RowsOK`). Of the tables (`Committed`): ids and paths of directories are keys, a
directory has the size of all under it, and rows and nodes of a snapshot match one to one. It is
needed because `IndexIsExact` says nothing of a transaction on its way, which is where a commit gets its
rows from. `EnsureDir` interns a chain of missing ancestors at once; `Interned` says what that keeps.
`FoldSizes` is a recursive function: `Folded` shows by induction over the rows that after the pass has come
down to an id, each directory has what is right in it and all under those of its children that lie behind that id
(`Reached`), which takes that parents have smaller ids and that a file under a directory lies under exactly
one of its children (`UnderGrandchild`). Sums over sets are `MapThenSumSet`, of which `TotalUnion` says that
disjoint sets add up. From the tables then each query in turn: the rows it selects are those of
the nodes asked for (`Selects`), so it lists and counts them (`SelectedList`, `SelectedCount`). From it:
`IndexIsExact` and `IndexTypeOK`.
`ResticRun`, for pipes, lines and messages of any size: `ResticIInv` relates how the callback ended, what was
taken and how the child ended at each point of the call; from it `VerdictIsTrue`; and `ResticTypeOK`, with
that no line is taken which restic did not say. `Shells`, for any number
of shells: `NothingLeftBehind`, from which files may exist at which step (`ShellsIInv`); and `EnvScoped`:
whatever is inherited and configured, a shell gets one repository's context, and the password one way only.
`SessionDirs`,
for any number of processes and tokens, assuming `Prompt`: `DirsIInv` adds that a directory has one
creator (`NamesInv`), that one not yet locked is recent, so nobody hunts it (`RecentInv`), and which
process holds which lock (`LockInv`); from it `LiveSessionKept`, and `VerdictStays`: what a scavenger
found stale stays so until it has acted.
And two algorithms of this side, for inputs of any size:

* `PathsArrive`: restic is told the selected paths and nothing else, whatever characters are in them, and only several
  that do not fit on the command line are refused. A literal is read back character by character; the lines of
  the file stay apart, trimming leaves them, and none has a variable in it; what is kept takes no more bytes
  than all. Paths are not empty, as `buildExtractTreeArgs` refuses empty ones.
* `PruneExact`: pruning deletes what it may at whatever point a run stops; it assumes that a directory's
  entries differ in their names.

**AlgorithmProofs.** First lemmas about sequences, which the other modules cite. The library's induction
theorems take an operator and cannot be instantiated, so `Induction` is stated of a set of numbers, by
the least number that is not in it (`WFMin`), and `Recursion` gives, for a step function, the function
that iterates it; with them a fold is an invariant on its prefixes. Then, for all integers: `Waiting` (a
status never gets better with time, and exit code 0 means refreshed, without error and on time),
`CursorIsShown` and `PageIsShown` (windows of lists and pages of every length). Then, one algorithm after the other, for
inputs of any size:

* `TreeExact`: a diff's tree has what changed and nothing else, and each directory counts the changed paths under
  it once per marker. It assumes that the lines agree on what is a directory: each has a marker, a path is a directory in
  all its lines or in none, and a path above another line's is one. restic prints so, and `ScanDiffNDJSON`
  refuses a line without a marker.
* `IncludesExact`: of the changed directories over a selected path the shortest is included itself, so every
  selected path is restored, once.
* `InspectExact`: the inspector names a difference where restic sees one and only there; a row it marks differs in
  its cells, or a note says what it differs in, or it is the contents row; a note that excludes other changes is
  right. It does not say that each field that differs is named: a difference in one whose row is left out (the time of
  access where it is the time of modification, the size of what is no file) is not named by itself. It assumes what a restic node is: only files have size and content, only directories a subtree,
  and names of attributes are unique.
* `SearchExact`: what a search shows are the best matches of all, in their order, no more than asked for, and
  both rankings show the same list: the one kept while the database yields rows, and the one in memory
  that ranks, sorts and cuts. The greedy scan finds the earliest positions, `insertTopN` keeps the best of
  the prefix it has seen (`SearchBest`), and a list of given elements has one order if no two of them
  compare equal. It assumes that the paths of a snapshot differ, and a positive limit, as `Search` puts its
  default for any other.
* `BrowseOrderTotal`: by the same argument a directory has one order per mode, whichever way its rows came, so
  going round the modes ends where it began. It assumes that no two rows share a path.
* `VersionsExact`: any matches of any snapshots give each version once, with its snapshots newest first, and
  the versions by their newest. `KeptOf` yields each element that is kept, in order (`FlattenSeq` is a fold), and
  `StableSorted` is a permutation that orders.
* `GroupIsShown`: for sections of any lengths a grouped list fits and shows the selected row, and from two lines
  on each row stands under its own heading.
* `ScreensFit`: any screen of any height fills the terminal to the line from its least height on, has the selected
  row and says where rows are missing, for any sections, cursor, panel, prompt and wait. A part of a
  screen is known by its lines, rows and notes (`IsPart`), and these add up when parts are put together.

**Only model-checked.** All liveness (`CloseReturns`, `PendingEnds`, `CancelReturns`, `CancelIsSeen`,
`RunEnds`, `CallReturns`, `Settles`), which is out of the prover's reach. Of the modal `RunningHasEnd`,
`SudoHasEnd`, `TerminalMeansOver` and `PublishedHere` beyond the first one: the run opens one modal
only, and they are not true of a second, whose state a late deletion of the first may change.
`AlgorithmsAgree` and `TypeOK` of `parts` name the inputs of that run: each conjunct of the former is
proved above for inputs of any size, and of the latter for the specification of its component.
The other way round, `TypeOK` of `BrowseSession`, `Refresh` and `ExtractPipeline` is proved and not
run again.

## 6. What is not modelled

* Colours, widths, wording and logging: output formatting. Of rendering only the lines of a screen
  are modelled.
* Parsing of configuration and secrets, which happens once at start-up, and the JSON and text that
  restic prints: a record is taken for what it says.
* The text of shell prompts and of restic's arguments other than include patterns.
* `internal/app/check.go`, a loop that calls restic for each repository and keeps nothing.
* Progress samples, free space and sizes of an extract, which are advisory; ownership handed over by
  the root helper; the symlink policy of the normalizer.
* SQLite, the kernel and restic themselves: what they do is an external action where the code
  depends on it.

`PROJECT.json` lists the state of every component ("components"), the hazards with what covers them
("hazards") and the lines every definition stands for ("map").
