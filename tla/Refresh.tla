------------------------------- MODULE Refresh -------------------------------
(***************************************************************************)
(* Refreshing repositories (internal/app/refresh.go) into the cache shared *)
(* by every process (internal/cache/cache.go), from the TUI's list         *)
(* (internal/tui/app.go, repo_commands.go, routing.go) and from            *)
(* "status --refresh" (cmd/resticscope/commands.go).                       *)
(*                                                                         *)
(* A process runs one job per repository at a time, on a goroutine of its  *)
(* own, and at most Parallelism of them past the semaphore.  Nothing       *)
(* excludes two processes from refreshing the same repository.             *)
(*                                                                         *)
(* A repository's snapshots are abstracted to the time at which restic     *)
(* listed them (obs); at is RefreshedAt, err is LastError being set.       *)
(***************************************************************************)
EXTENDS Integers, FiniteSets

CONSTANTS Repos,        \* configured repositories
          Tui,          \* the process that runs the TUI
          Clis,         \* processes that run status --refresh
          Parallelism,  \* global.parallelism
          MaxTime       \* bounds the clock

ASSUME RefreshAssumption ==
    /\ Tui \notin Clis /\ IsFiniteSet(Repos)
    /\ Parallelism \in Nat \ {0}
    /\ MaxTime \in Nat \ {0}

Procs == {Tui} \cup Clis
Times == 1..MaxTime
RepoStates == [at : {0} \cup Times, obs : {0} \cup Times, err : BOOLEAN]
Cold == [at |-> 0, obs |-> 0, err |-> FALSE]

\* A cache file, absent, unreadable or corrupt, or a whole state.
Files == [kind : {"none", "broken", "whole"}, state : RepoStates]
File(kind, s) == [kind |-> kind, state |-> s]

Steps == {"none", "wait", "begin", "call", "save", "rename", "over"}
Jobs == [step : Steps, now : {0} \cup Times, prior : RepoStates, res : RepoStates,
         saved : BOOLEAN]
NoJob == [step |-> "none", now |-> 0, prior |-> Cold, res |-> Cold, saved |-> FALSE]

VARIABLES
    time,     \* the clock
    cache,    \* per repository: <cache_dir>/<repo>.json
    life,     \* per process: off, up, canceled (its context is done)
    job,      \* per process and repository: the refresh under way
    slots,    \* per process: len(sem)
    rows,     \* Model.rows: the states the list shows
    pending,  \* Model.pending
    ticking,  \* a spinner tick with the spinner's current tag is on its way
    code      \* per status --refresh: its exit code, none before it ends

vars == <<time, cache, life, job, slots, rows, pending, ticking, code>>
tuiVars == <<rows, pending, ticking>>

TypeOK ==
    /\ time \in Times
    /\ cache \in [Repos -> Files]
    /\ life \in [Procs -> {"off", "up", "canceled"}]
    /\ job \in [Procs -> [Repos -> Jobs]]
    /\ slots \in [Procs -> 0..Parallelism]
    /\ rows \in [Repos -> RepoStates]
    /\ pending \subseteq Repos
    /\ ticking \in BOOLEAN
    /\ code \in [Clis -> {"none", "zero", "nonzero"}]

Init ==
    /\ time = 1
    /\ cache \in [Repos -> {File("none", Cold), File("broken", Cold)}]
    /\ life = [p \in Procs |-> "off"]
    /\ job = [p \in Procs |-> [r \in Repos |-> NoJob]]
    /\ slots = [p \in Procs |-> 0]
    /\ rows = [r \in Repos |-> Cold]
    /\ pending = {} /\ ticking = FALSE
    /\ code = [c \in Clis |-> "none"]

\* What Load returns; every error means a cold state to the callers that go on.
Loaded(p, r) ==
    IF life[p] = "up" /\ cache[r].kind = "whole" THEN cache[r].state ELSE Cold

\* The jobs of process p after those of the repositories in S were dispatched.
Dispatched(p, S) == [r \in Repos |-> IF r \in S THEN [NoJob EXCEPT !.step = "wait"]
                                     ELSE job[p][r]]

Tick ==
    /\ time < MaxTime
    /\ time' = time + 1
    /\ UNCHANGED <<cache, life, job, slots, tuiVars, code>>

-----------------------------------------------------------------------------
(* The TUI *)

\* Run, newModel and Init: rows from the cache, then with refresh_on_open every
\* repository never refreshed or stale is marked and dispatched.
OpenTui ==
    /\ life[Tui] = "off"
    /\ life' = [life EXCEPT ![Tui] = "up"]
    /\ rows' = [r \in Repos |-> IF cache[r].kind = "whole" THEN cache[r].state ELSE Cold]
    /\ \E S \in SUBSET Repos :
          /\ S = {} \/ \A r \in Repos : rows'[r].at = 0 => r \in S
          /\ pending' = S
          /\ ticking' = (S # {})
          /\ job' = [job EXCEPT ![Tui] = Dispatched(Tui, S)]
    /\ UNCHANGED <<time, cache, slots, code>>

\* Mutant: the keys ask whether the list is idle after they marked it pending.
RefreshKeyLate(S) ==
    /\ life[Tui] = "up"
    /\ S \ pending # {}
    /\ pending' = pending \cup S
    /\ ticking' = (ticking \/ pending' = {})
    /\ job' = [job EXCEPT ![Tui] = Dispatched(Tui, S \ pending)]
    /\ UNCHANGED <<time, cache, life, slots, rows, code>>

\* r and R: a repository with a refresh under way is left alone, and the spinner
\* starts when the list was idle.
RefreshKey(S) ==
    /\ life[Tui] = "up"
    /\ S \ pending # {}
    /\ pending' = pending \cup S
    /\ ticking' = (ticking \/ pending = {})
    /\ job' = [job EXCEPT ![Tui] = Dispatched(Tui, S \ pending)]
    /\ UNCHANGED <<time, cache, life, slots, rows, code>>

\* The loop of ticks ends once nothing is pending.
SpinnerTick ==
    /\ life[Tui] # "off" /\ ticking
    /\ ticking' = (pending # {})
    /\ UNCHANGED <<time, cache, life, job, slots, rows, pending, code>>

\* Mutant: the mark goes with the dispatch of the next one.
ApplyRefreshKeepsMark(r) ==
    /\ life[Tui] # "off" /\ job[Tui][r].step = "over"
    /\ rows' = [rows EXCEPT ![r] = job[Tui][r].res]
    /\ job' = [job EXCEPT ![Tui][r] = NoJob]
    /\ UNCHANGED <<time, cache, life, slots, pending, ticking, code>>

\* applyRefresh: the live row is shown even if it could not be saved.
ApplyRefresh(r) ==
    /\ life[Tui] # "off" /\ job[Tui][r].step = "over"
    /\ pending' = pending \ {r}
    /\ rows' = [rows EXCEPT ![r] = job[Tui][r].res]
    /\ job' = [job EXCEPT ![Tui][r] = NoJob]
    /\ UNCHANGED <<time, cache, life, slots, ticking, code>>

-----------------------------------------------------------------------------
(* status --refresh *)

StartCli(c) ==
    /\ life[c] = "off"
    /\ life' = [life EXCEPT ![c] = "up"]
    /\ job' = [job EXCEPT ![c] = Dispatched(c, Repos)]
    /\ code' = [code EXCEPT ![c] = "none"]
    /\ UNCHANGED <<time, cache, slots, tuiVars>>

\* Mutant: the exit code only looks at the rows.
CliEndsRowsOnly(c) ==
    /\ life[c] # "off"
    /\ \A r \in Repos : job[c][r].step = "over"
    /\ \/ code' = [code EXCEPT ![c] = "nonzero"]
       \/ /\ \A r \in Repos : ~job[c][r].res.err
          /\ code' = [code EXCEPT ![c] = "zero"]
    /\ life' = [life EXCEPT ![c] = "off"]
    /\ job' = [job EXCEPT ![c] = [r \in Repos |-> NoJob]]
    /\ UNCHANGED <<time, cache, slots, tuiVars>>

\* RefreshAll waits for every job; refreshExitCode is zero only for green rows
\* (rows in error are not, the others as their age has it) and no error.
CliEnds(c) ==
    /\ life[c] # "off"
    /\ \A r \in Repos : job[c][r].step = "over"
    /\ \/ code' = [code EXCEPT ![c] = "nonzero"]
       \/ /\ life[c] = "up"
          /\ \A r \in Repos : job[c][r].saved /\ ~job[c][r].res.err
          /\ code' = [code EXCEPT ![c] = "zero"]
    /\ life' = [life EXCEPT ![c] = "off"]
    /\ job' = [job EXCEPT ![c] = [r \in Repos |-> NoJob]]
    /\ UNCHANGED <<time, cache, slots, tuiVars>>

-----------------------------------------------------------------------------
(* Contexts and crashes *)

\* The context ends: the TUI's with q, the one RefreshAll is given whenever its
\* caller likes (main passes one that never does); jobs and their restic see it
\* by themselves.
Cancel(p) ==
    /\ life[p] = "up"
    /\ life' = [life EXCEPT ![p] = "canceled"]
    /\ UNCHANGED <<time, cache, job, slots, tuiVars, code>>

\* The process dies, or the TUI has quit and waits for none of its commands.
Die(p) ==
    /\ life[p] # "off"
    /\ life' = [life EXCEPT ![p] = "off"]
    /\ job' = [job EXCEPT ![p] = [r \in Repos |-> NoJob]]
    /\ slots' = [slots EXCEPT ![p] = 0]
    /\ \/ p = Tui /\ pending' = {} /\ ticking' = FALSE /\ rows' = [r \in Repos |-> Cold]
       \/ p # Tui /\ UNCHANGED tuiVars
    /\ UNCHANGED <<time, cache, code>>

-----------------------------------------------------------------------------
(* A refresh *)

Goto(p, r, step) == job' = [job EXCEPT ![p][r].step = step]

\* Mutant: jobs do not wait for a slot.
AcquireUnbounded(p, r) ==
    /\ job[p][r].step = "wait"
    /\ Goto(p, r, "begin")
    /\ slots' = [slots EXCEPT ![p] = IF @ < Parallelism THEN @ + 1 ELSE @]
    /\ UNCHANGED <<time, cache, life, tuiVars, code>>

Acquire(p, r) ==
    /\ job[p][r].step = "wait"
    /\ slots[p] < Parallelism
    /\ Goto(p, r, "begin")
    /\ slots' = [slots EXCEPT ![p] = @ + 1]
    /\ UNCHANGED <<time, cache, life, tuiVars, code>>

\* The other branch of the select: the TUI's command ends with no message,
\* RefreshAll fills in an error state that is not saved.
GiveUp(p, r) ==
    /\ job[p][r].step = "wait"
    /\ life[p] = "canceled"
    /\ \/ /\ p = Tui
          /\ job' = [job EXCEPT ![p][r] = NoJob]
       \/ /\ p # Tui
          /\ job' = [job EXCEPT ![p][r].step = "over",
                                ![p][r].res = [Cold EXCEPT !.at = time, !.err = TRUE]]
    /\ UNCHANGED <<time, cache, life, slots, tuiVars, code>>

\* refreshOne takes its timestamp and the prior state before it asks restic.
Begin(p, r) ==
    /\ job[p][r].step = "begin"
    /\ job' = [job EXCEPT ![p][r].step = "call", ![p][r].now = time,
                          ![p][r].prior = Loaded(p, r)]
    /\ UNCHANGED <<time, cache, life, slots, tuiVars, code>>

\* restic listed the snapshots at some time since.
Succeed(p, r) ==
    /\ job[p][r].step = "call"
    /\ \E o \in job[p][r].now..time :
          job' = [job EXCEPT ![p][r].step = "save",
                             ![p][r].res = [at |-> job[p][r].now, obs |-> o, err |-> FALSE]]
    /\ UNCHANGED <<time, cache, life, slots, tuiVars, code>>

\* Mutant: a failure advances RefreshedAt over the snapshots it keeps.
FailAdvances(p, r) ==
    /\ job[p][r].step = "call"
    /\ job' = [job EXCEPT ![p][r].step = "save",
                          ![p][r].res = [job[p][r].prior EXCEPT !.err = TRUE,
                                                                !.at = job[p][r].now]]
    /\ UNCHANGED <<time, cache, life, slots, tuiVars, code>>

\* The secrets or restic fail, time out, or are canceled.
Fail(p, r) ==
    /\ job[p][r].step = "call"
    /\ job' = [job EXCEPT ![p][r].step = "save",
                          ![p][r].res = [job[p][r].prior EXCEPT !.err = TRUE]]
    /\ UNCHANGED <<time, cache, life, slots, tuiVars, code>>

\* Mutant: only a job that was saved gives its slot back.
OverLeaks(p, r, saved) ==
    /\ job' = [job EXCEPT ![p][r].step = "over", ![p][r].saved = saved]
    /\ slots' = [slots EXCEPT ![p] = IF saved THEN @ - 1 ELSE @]

\* The job is over and gives its slot back.
Over(p, r, saved) ==
    /\ job' = [job EXCEPT ![p][r].step = "over", ![p][r].saved = saved]
    /\ slots' = [slots EXCEPT ![p] = @ - 1]

\* Mutant: the cache file itself is created and then written.
SaveInPlace(p, r) ==
    /\ job[p][r].step = "save"
    /\ \/ Over(p, r, FALSE) /\ UNCHANGED cache
       \/ /\ life[p] = "up"
          /\ cache' = [cache EXCEPT ![r] = File("broken", Cold)]
          /\ Goto(p, r, "rename")
          /\ UNCHANGED slots
    /\ UNCHANGED <<time, life, tuiVars, code>>

\* Mutant: a save is tried again until it works.
SaveRetries(p, r) ==
    /\ job[p][r].step = "save"
    /\ life[p] = "up" /\ Goto(p, r, "rename")
    /\ UNCHANGED <<time, cache, life, slots, tuiVars, code>>

\* Save up to the write of a temporary file; a done context or any failed step
\* leaves the cache as it was.
SaveTemp(p, r) ==
    /\ job[p][r].step = "save"
    /\ \/ Over(p, r, FALSE)
       \/ life[p] = "up" /\ Goto(p, r, "rename") /\ UNCHANGED slots
    /\ UNCHANGED <<time, cache, life, tuiVars, code>>

Rename(p, r) ==
    /\ job[p][r].step = "rename"
    /\ \/ Over(p, r, TRUE) /\ cache' = [cache EXCEPT ![r] = File("whole", job[p][r].res)]
       \/ Over(p, r, FALSE) /\ UNCHANGED cache
    /\ UNCHANGED <<time, life, tuiVars, code>>

JobStep(p, r) ==
    \/ GiveUp(p, r) \/ Begin(p, r) \/ Succeed(p, r) \/ Fail(p, r)
    \/ SaveTemp(p, r) \/ Rename(p, r)

Next ==
    \/ Tick \/ OpenTui \/ SpinnerTick
    \/ \E r \in Repos : RefreshKey({r}) \/ ApplyRefresh(r)
    \/ RefreshKey(Repos)
    \/ \E c \in Clis : StartCli(c) \/ CliEnds(c)
    \/ \E p \in Procs : Cancel(p) \/ Die(p)
    \/ \E p \in Procs, r \in Repos : Acquire(p, r) \/ JobStep(p, r)

Spec == Init /\ [][Next]_vars

\* restic runs under Client.Timeout, so a job that has a slot ends; senders to a
\* full channel are served in order, so none of them waits for ever.
Fairness ==
    /\ \A p \in Procs, r \in Repos : WF_vars(JobStep(p, r)) /\ SF_vars(Acquire(p, r))
    /\ \A r \in Repos : WF_vars(ApplyRefresh(r))
    /\ \A c \in Clis : WF_vars(CliEnds(c))

FairSpec == Spec /\ Fairness

-----------------------------------------------------------------------------
(* Properties *)

Holding(p) == {r \in Repos : job[p][r].step \in {"begin", "call", "save", "rename"}}

\* However refresh_on_open, r and R overlap, a repository marked pending has
\* exactly one refresh under way, whose message will take the mark off.
PendingHasEnd ==
    life[Tui] = "up" => pending = {r \in Repos : job[Tui][r].step # "none"}

\* No process ever runs more restic commands than global.parallelism, and a slot
\* is held by a running job or is free: none is lost on an error path.
WithinParallelism ==
    \A p \in Procs : slots[p] = Cardinality(Holding(p)) /\ slots[p] <= Parallelism

\* What the list and the cache call refreshed at a time was seen at that time or
\* later, whichever refreshes failed since and whoever saved last.
Honest(s) == s.at <= s.obs /\ (s.at = 0 => s.obs = 0)
NeverFresherThanSeen ==
    /\ \A r \in Repos : Honest(rows[r])
    /\ \A r \in Repos : cache[r].kind = "whole" => Honest(cache[r].state)

\* The spinner turns whenever something is pending.
SpinnerTurns == life[Tui] # "off" /\ pending # {} => ticking

\* A cache file once whole stays whole, whichever process dies in mid save.
CacheStaysWhole ==
    [][\A r \in Repos : cache[r].kind = "whole" => cache'[r].kind = "whole"]_vars

\* status --refresh exits 0 only if this very run saw and saved every repository.
ZeroMeansSaved ==
    [][\A c \in Clis : code'[c] = "zero" /\ code[c] # "zero" =>
          \A r \in Repos : job[c][r].saved /\ ~job[c][r].res.err /\ job[c][r].res.at > 0]_vars

\* A refresh in the list ends, however many others compete for the slots.
PendingEnds == \A r \in Repos : r \in pending ~> r \notin pending \/ life[Tui] # "up"

\* A canceled status --refresh returns.
CancelReturns == \A c \in Clis : life[c] = "canceled" ~> life[c] = "off"

\* A failed refresh never replaces the last successful observation.
FailureKeepsObservation ==
    [][\A r \in Repos : cache[r].kind = "whole" /\ cache'[r].state.err =>
          cache'[r].state.at >= cache[r].state.at]_vars
=============================================================================
