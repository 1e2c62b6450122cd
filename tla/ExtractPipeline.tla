--------------------------- MODULE ExtractPipeline ---------------------------
(***************************************************************************)
(* Extraction on disk: App.Extract (internal/app/extract.go) and its       *)
(* privileged form, a root helper that a parent process drives over stdin  *)
(* and stdout (extract_privileged.go, extract_privileged_exec.go,          *)
(* extract_helper.go).  Runs belong to any number of processes and share   *)
(* one target root; each is one call of Extract for one source of one      *)
(* snapshot, and after it, if the user says so, one DeleteExtractStaging.  *)
(*                                                                         *)
(* The mirror is the snapshot's directory under the target root.  Every    *)
(* call that touches the file system is a step of its own.  Contents are   *)
(* abstracted to how much of the source they are; ownership, free space,   *)
(* progress and the symlink policy are left out.  sudo passes the helper's *)
(* end on and does not end before it.                                      *)
(***************************************************************************)
EXTENDS Integers, FiniteSets

CONSTANTS Nodes,  \* what can be extracted of the snapshot, "/" among it
          Dirs,   \* those that are directories
          Root,   \* "/"
          Up,     \* per node: the directories above it
          Runs,   \* calls of Extract; bounds their number
          Sudo,   \* those that are privileged
          NoRun   \* nobody

ASSUME PipelineAssumption ==
    /\ Dirs \subseteq Nodes /\ Root \in Dirs
    /\ Up \in [Nodes -> SUBSET Dirs]
    /\ \A n \in Nodes : n \notin Up[n] /\ (n # Root => Root \in Up[n])
    /\ \A n \in Nodes : \A a \in Up[n] : Up[a] \subseteq Up[n]
    /\ \A n \in Nodes : \A a, b \in Up[n] : a = b \/ a \in Up[b] \/ b \in Up[a]
    /\ Sudo \subseteq Runs /\ NoRun \notin Runs
    /\ {"none", "made", "other"} \cap Runs = {}

Below(n) == {x \in Nodes : n \in Up[x]}

\* A staging directory: empty, with a part of the source, all of it restored,
\* all of it normalized, or with a hole that somebody's deletion made.
Contents == {"none", "empty", "part", "restored", "whole", "hole"}
NoDir == [has |-> "none", by |-> NoRun]

\* What is at a node of the mirror: nothing, a directory mkdir made, something
\* foreign that is not a directory, or what a run published.
Occupants == {"none", "made", "other"} \cup Runs

Outcomes == {"none", "ok", "stopped", "exists", "taken", "failed"}
Result(out, staged) == [out |-> out, staged |-> staged]
NoResult == Result("none", FALSE)

\* Steps of the pipeline, in the process itself or in its helper.
Working == {"restore", "normalize", "parents", "look", "move", "unlink", "clean"}
Steps == {"none", "check", "spawn", "recheck", "mkdir", "over"} \cup Working

VARIABLES
    par,       \* per run: its process (the parent): idle, running, done, dead
    pc,        \* per run: where its pipeline is
    src,       \* per run: the source it extracts
    canceled,  \* per run: the caller's context is done
    stop,      \* per run: the pipeline's context is done
    made,      \* per run: ExtractResult.StagingCreated
    event,     \* per run: what the helper told the parent
    res,       \* per run: what Extract returned
    del,       \* per run: DeleteExtractStaging: no, under way, done
    staging,   \* per node: its staging directory, and (history) who made it
    mirror,    \* per node: what is at its target
    got,       \* history, per run: what it published
    misclaimed \* history: a run was told that it made what it did not make

runVars == <<par, src, canceled, stop, made, event, res, del>>
diskVars == <<staging, mirror, got>>
vars == <<runVars, pc, diskVars, misclaimed>>

TypeOK ==
    /\ par \in [Runs -> {"idle", "running", "done", "dead"}]
    /\ pc \in [Runs -> Steps]
    /\ src \in [Runs -> Nodes]
    /\ canceled \in [Runs -> BOOLEAN] /\ stop \in [Runs -> BOOLEAN]
    /\ made \in [Runs -> BOOLEAN] /\ misclaimed \in BOOLEAN
    /\ event \in [Runs -> [out : Outcomes, staged : BOOLEAN]]
    /\ res \in [Runs -> [out : Outcomes, staged : BOOLEAN]]
    /\ del \in [Runs -> {"no", "removing", "done"}]
    /\ staging \in [Nodes -> [has : Contents, by : Runs \cup {NoRun}]]
    /\ mirror \in [Nodes -> Occupants]
    /\ got \in [Runs -> Contents]

\* The mirror is empty or has something foreign in one place.
Init ==
    /\ par = [r \in Runs |-> "idle"] /\ pc = [r \in Runs |-> "none"]
    /\ src = [r \in Runs |-> Root]
    /\ canceled = [r \in Runs |-> FALSE] /\ stop = [r \in Runs |-> FALSE]
    /\ made = [r \in Runs |-> FALSE] /\ misclaimed = FALSE
    /\ event = [r \in Runs |-> NoResult] /\ res = [r \in Runs |-> NoResult]
    /\ del = [r \in Runs |-> "no"]
    /\ staging = [n \in Nodes |-> NoDir]
    /\ got = [r \in Runs |-> "none"]
    /\ \/ mirror = [n \in Nodes |-> "none"]
       \/ \E n \in Nodes : mirror = [x \in Nodes |-> IF x = n THEN "other"
                                                     ELSE IF x \in Up[n] THEN "made" ELSE "none"]

Exists(n) == staging[n].has # "none"
Put(n, has) == staging' = [staging EXCEPT ![n].has = has]
Goto(r, step) == pc' = [pc EXCEPT ![r] = step]

-----------------------------------------------------------------------------
(* Calls, contexts and the ends of runs *)

Call(r, n) ==
    /\ par[r] = "idle"
    /\ par' = [par EXCEPT ![r] = "running"]
    /\ src' = [src EXCEPT ![r] = n]
    /\ Goto(r, "check")
    /\ UNCHANGED <<canceled, stop, made, event, res, del, diskVars, misclaimed>>

\* The user's cancel, or extract_timeout as the process that called Extract
\* sees it.
Cancel(r) ==
    /\ par[r] = "running" /\ ~canceled[r]
    /\ canceled' = [canceled EXCEPT ![r] = TRUE]
    /\ stop' = IF r \in Sudo THEN stop ELSE [stop EXCEPT ![r] = TRUE]
    /\ UNCHANGED <<par, pc, src, made, event, res, del, diskVars, misclaimed>>

\* The process dies.  Its own pipeline goes with it, a helper does not.
Die(r) ==
    /\ par[r] = "running"
    /\ par' = [par EXCEPT ![r] = "dead"]
    /\ pc' = IF r \in Sudo /\ pc[r] \notin {"check", "spawn"} THEN pc
             ELSE [pc EXCEPT ![r] = "over"]
    /\ UNCHANGED <<src, canceled, stop, made, event, res, del, diskVars, misclaimed>>

\* The pipeline returns.  A helper sends what it returned as an event.
End(r, out) ==
    /\ Goto(r, "over")
    /\ IF r \in Sudo
       THEN /\ event' = [event EXCEPT ![r] = Result(out, made[r])]
            /\ UNCHANGED <<par, res>>
       ELSE /\ res' = [res EXCEPT ![r] = Result(out, made[r])]
            /\ par' = [par EXCEPT ![r] = "done"]
            /\ UNCHANGED event
    /\ UNCHANGED <<src, canceled, stop, made, del, misclaimed>>

Step(r, from, to) ==
    /\ pc[r] = from
    /\ Goto(r, to)
    /\ UNCHANGED <<runVars, misclaimed>>

-----------------------------------------------------------------------------
(* The parent of a helper *)

\* FreshTargetCheck
Fresh(n) == ~Exists(n) /\ mirror[n] = "none"
Blocked(n) == IF Exists(n) THEN "exists" ELSE "taken"

\* Extract up to the first side effect.
Check(r) ==
    /\ pc[r] = "check"
    /\ \/ /\ \/ Fresh(src[r]) /\ res' = [res EXCEPT ![r] = Result("failed", FALSE)]
             \/ ~Fresh(src[r]) /\ res' = [res EXCEPT ![r] = Result(Blocked(src[r]), FALSE)]
          /\ par' = [par EXCEPT ![r] = "done"]
          /\ Goto(r, "over")
       \/ /\ Fresh(src[r])
          /\ Goto(r, IF r \in Sudo THEN "spawn" ELSE "mkdir")
          /\ UNCHANGED <<par, res>>
    /\ UNCHANGED <<src, canceled, stop, made, event, del, diskVars, misclaimed>>

\* Run starts sudo, which may refuse; a context that is done starts nothing.
Spawn(r) ==
    /\ pc[r] = "spawn"
    /\ \/ Goto(r, "over")
       \/ ~canceled[r] /\ Goto(r, "recheck")
    /\ UNCHANGED <<runVars, diskVars, misclaimed>>

\* Mutant: only a parent that cancels ends the input.
EofOnCancel(r) ==
    /\ r \in Sudo /\ pc[r] \in {"recheck", "mkdir"} \cup Working /\ ~stop[r]
    /\ canceled[r]
    /\ stop' = [stop EXCEPT ![r] = TRUE]
    /\ UNCHANGED <<par, pc, src, canceled, made, event, res, del, diskVars, misclaimed>>

\* Standard input ends: the parent closed it on cancel, or died.
Eof(r) ==
    /\ r \in Sudo /\ pc[r] \in {"recheck", "mkdir"} \cup Working /\ ~stop[r]
    /\ canceled[r] \/ par[r] = "dead"
    /\ stop' = [stop EXCEPT ![r] = TRUE]
    /\ UNCHANGED <<par, pc, src, canceled, made, event, res, del, diskVars, misclaimed>>

\* extract_timeout as the pipeline sees it.
Timeout(r) ==
    /\ pc[r] \in Working /\ ~stop[r]
    /\ stop' = [stop EXCEPT ![r] = TRUE]
    /\ UNCHANGED <<par, pc, src, canceled, made, event, res, del, diskVars, misclaimed>>

\* The helper is killed and says nothing.
HelperDies(r) ==
    /\ r \in Sudo /\ pc[r] \in {"recheck", "mkdir"} \cup Working
    /\ Goto(r, "over")
    /\ UNCHANGED <<runVars, diskVars, misclaimed>>

Misclaim(r, result) == result.staged /\ staging[src[r]].by # r

\* Mutant: only the helper's word counts for what is left.
VerdictNoProbe(r) ==
    /\ r \in Sudo /\ par[r] = "running" /\ pc[r] = "over"
    /\ LET e == event[r]
       IN  res' = [res EXCEPT ![r] = IF canceled[r] THEN Result("stopped", e.staged)
                                     ELSE IF e.out = "none" THEN Result("failed", FALSE)
                                     ELSE e]
    /\ par' = [par EXCEPT ![r] = "done"]
    /\ UNCHANGED <<pc, src, canceled, stop, made, event, del, diskVars, misclaimed>>

\* extractPrivileged once Run has returned: the local context is asked first, then
\* the helper's error, then the error of Run, then its result.  Run has an error
\* if the helper was silent, which none is that exits well, and also if it was
\* killed or its output spoilt after it had sent its result.
Verdict(r) ==
    /\ r \in Sudo /\ par[r] = "running" /\ pc[r] = "over"
    /\ \E runErr \in {TRUE, event[r].out = "none"} :
          LET e == event[r]
              told == e.out \notin {"none", "ok"}
              staged == IF told THEN e.staged ELSE Exists(src[r])
              verdict == IF canceled[r] THEN Result("stopped", staged)
                         ELSE IF runErr /\ ~told THEN Result("failed", staged)
                         ELSE e
          IN  /\ res' = [res EXCEPT ![r] = verdict]
              /\ misclaimed' = (misclaimed \/ (verdict.out # "ok" /\ Misclaim(r, verdict)))
    /\ par' = [par EXCEPT ![r] = "done"]
    /\ UNCHANGED <<pc, src, canceled, stop, made, event, del, diskVars>>

-----------------------------------------------------------------------------
(* The pipeline *)

\* The helper asks again.
Recheck(r) ==
    /\ pc[r] = "recheck"
    /\ \/ Fresh(src[r]) /\ Goto(r, "mkdir") /\ UNCHANGED runVars
       \/ ~Fresh(src[r]) /\ End(r, Blocked(src[r]))
       \/ End(r, "failed")
    /\ UNCHANGED <<diskVars, misclaimed>>

\* Mutant: MkdirAll takes a directory that is there for its own.
MkdirStagingAll(r) ==
    /\ pc[r] = "mkdir"
    /\ \/ /\ staging' = IF Exists(src[r]) THEN staging
                       ELSE [staging EXCEPT ![src[r]] = [has |-> "empty", by |-> r]]
          /\ made' = [made EXCEPT ![r] = TRUE]
          /\ Goto(r, "restore")
          /\ UNCHANGED <<par, src, canceled, stop, event, res, del, misclaimed>>
       \/ End(r, "failed") /\ UNCHANGED staging
    /\ UNCHANGED <<mirror, got>>

\* mkdir of the parent and the exclusive Mkdir of staging.
MkdirStaging(r) ==
    /\ pc[r] = "mkdir"
    /\ \/ /\ ~Exists(src[r])
          /\ staging' = [staging EXCEPT ![src[r]] = [has |-> "empty", by |-> r]]
          /\ made' = [made EXCEPT ![r] = TRUE]
          /\ Goto(r, "restore")
          /\ UNCHANGED <<par, src, canceled, stop, event, res, del, misclaimed>>
       \/ /\ End(r, IF Exists(src[r]) THEN "exists" ELSE "failed")
          /\ UNCHANGED staging
    /\ UNCHANGED <<mirror, got>>

\* restic writes; one that is still at work does not notice what others delete.
RestoreMore(r) ==
    /\ Step(r, "restore", "restore")
    /\ staging[src[r]].has = "empty" /\ Put(src[r], "part")
    /\ UNCHANGED <<mirror, got>>

\* Mutant: a restore that failed in part is taken for one that worked.
RestoreEndPartial(r) ==
    \/ Step(r, "restore", "normalize") /\ ~stop[r] /\ UNCHANGED diskVars
    \/ /\ pc[r] = "restore"
       /\ End(r, IF stop[r] THEN "stopped" ELSE "failed")
       /\ UNCHANGED diskVars

\* restic ends: everything is there, or nothing matched the include, or it
\* failed, was partial, or its context is done.
RestoreEnd(r) ==
    \/ /\ Step(r, "restore", "normalize")
       /\ ~stop[r]
       /\ \/ staging[src[r]].has \notin {"none", "hole"} /\ Put(src[r], "restored")
          \/ /\ staging[src[r]].has \in {"none", "hole"}
             /\ staging' = [staging EXCEPT ![src[r]] = [has |-> "hole", by |-> r]]
          \/ src[r] # Root /\ staging[src[r]].has = "empty" /\ UNCHANGED staging
       /\ UNCHANGED <<mirror, got>>
    \/ /\ pc[r] = "restore"
       /\ End(r, IF stop[r] THEN "stopped" ELSE "failed")
       /\ UNCHANGED diskVars

\* The normalizer asks the context before each entry, not after the last.
Normalize(r) ==
    \/ /\ Step(r, "normalize", "parents")
       /\ IF staging[src[r]].has = "restored" THEN Put(src[r], "whole") ELSE UNCHANGED staging
       /\ Exists(src[r])
       /\ UNCHANGED <<mirror, got>>
    \/ /\ pc[r] = "normalize"
       /\ (stop[r] /\ End(r, "stopped")) \/ End(r, "failed")
       /\ UNCHANGED diskVars

\* mkdir of the target's parent; an ancestor that is no directory stops it.
MkdirParents(r) ==
    \/ /\ Step(r, "parents", IF src[r] \in Dirs THEN "look" ELSE "move")
       /\ \A a \in Up[src[r]] : mirror[a] # "other"
       /\ mirror' = [n \in Nodes |-> IF n \in Up[src[r]] /\ mirror[n] = "none" THEN "made"
                                     ELSE mirror[n]]
       /\ UNCHANGED <<staging, got>>
    \/ pc[r] = "parents" /\ End(r, "failed") /\ UNCHANGED diskVars

\* The advisory Lstat before a directory is renamed.
Look(r) ==
    \/ Step(r, "look", "move") /\ mirror[src[r]] = "none" /\ UNCHANGED diskVars
    \/ /\ pc[r] = "look"
       /\ End(r, IF mirror[src[r]] # "none" THEN "taken" ELSE "failed")
       /\ UNCHANGED diskVars

\* Source and everything below it, as r published it.
Publish(r) ==
    /\ mirror' = [n \in Nodes |-> IF n = src[r] \/ n \in Below(src[r]) THEN r ELSE mirror[n]]
    /\ got' = [got EXCEPT ![r] = staging[src[r]].has]

HasNode(n) == IF n = Root THEN Exists(n) ELSE staging[n].has \notin {"none", "empty"}
EmptyDir(n) == n \in Dirs /\ mirror[n] # "other" /\ \A x \in Below(n) : mirror[x] = "none"

\* Mutant: a rename that fails is not noticed.
RenameDirIgnored(r) ==
    /\ src[r] \in Dirs
    /\ Step(r, "move", "clean")
    /\ \/ /\ HasNode(src[r])
          /\ mirror[src[r]] = "none" \/ EmptyDir(src[r])
          /\ Publish(r)
          /\ IF src[r] = Root THEN staging' = [staging EXCEPT ![Root] = NoDir]
                              ELSE Put(src[r], "empty")
       \/ UNCHANGED diskVars

\* rename(2) replaces an empty directory and nothing else; "/" is staging itself.
RenameDir(r) ==
    /\ src[r] \in Dirs
    /\ \/ /\ Step(r, "move", "clean")
          /\ HasNode(src[r])
          /\ mirror[src[r]] = "none" \/ EmptyDir(src[r])
          /\ Publish(r)
          /\ IF src[r] = Root THEN staging' = [staging EXCEPT ![Root] = NoDir]
                              ELSE Put(src[r], "empty")
       \/ pc[r] = "move" /\ End(r, "failed") /\ UNCHANGED diskVars

\* Mutant: a file is renamed too.
RenameFile(r) ==
    /\ src[r] \notin Dirs
    /\ \/ /\ Step(r, "move", "unlink")
          /\ HasNode(src[r])
          /\ Publish(r)
          /\ UNCHANGED staging
       \/ pc[r] = "move" /\ End(r, "failed") /\ UNCHANGED diskVars

\* linkat(2) replaces nothing.
LinkFile(r) ==
    /\ src[r] \notin Dirs
    /\ \/ /\ Step(r, "move", "unlink")
          /\ HasNode(src[r]) /\ mirror[src[r]] = "none"
          /\ Publish(r)
          /\ UNCHANGED staging
       \/ /\ pc[r] = "move"
          /\ End(r, IF mirror[src[r]] # "none" THEN "taken" ELSE "failed")
          /\ UNCHANGED diskVars

\* The two best-effort removals after a publish.
Unlink(r) ==
    /\ Step(r, "unlink", "clean")
    /\ (Exists(src[r]) /\ Put(src[r], "empty")) \/ UNCHANGED staging
    /\ UNCHANGED <<mirror, got>>

Clean(r) ==
    /\ pc[r] = "clean"
    /\ End(r, "ok")
    /\ \/ /\ src[r] # Root /\ staging[src[r]].has = "empty"
          /\ staging' = [staging EXCEPT ![src[r]] = NoDir]
       \/ UNCHANGED staging
    /\ UNCHANGED <<mirror, got>>

Pipeline(r) ==
    \/ Recheck(r) \/ MkdirStaging(r) \/ RestoreMore(r) \/ RestoreEnd(r) \/ Normalize(r)
    \/ MkdirParents(r) \/ Look(r) \/ RenameDir(r) \/ LinkFile(r) \/ Unlink(r) \/ Clean(r)

-----------------------------------------------------------------------------
(* What the user does with a leftover *)

\* RemoveAll empties the directory before it removes it.
DeleteStaging(r) ==
    /\ par[r] = "done" /\ res[r].out # "ok" /\ res[r].staged
    /\ \/ /\ del[r] = "no" /\ del' = [del EXCEPT ![r] = "removing"]
          /\ IF staging[src[r]].has \in {"none", "empty"} THEN UNCHANGED staging
             ELSE Put(src[r], "hole")
       \/ /\ del[r] = "removing" /\ del' = [del EXCEPT ![r] = "done"]
          /\ \/ /\ staging[src[r]].has \in {"empty", "hole"}
                /\ staging' = [staging EXCEPT ![src[r]] = NoDir]
             \/ UNCHANGED staging
    /\ UNCHANGED <<par, pc, src, canceled, stop, made, event, res, mirror, got, misclaimed>>

Next ==
    \E r \in Runs :
       \/ \E n \in Nodes : Call(r, n)
       \/ Cancel(r) \/ Die(r) \/ Check(r) \/ Spawn(r) \/ Eof(r) \/ Timeout(r)
       \/ HelperDies(r) \/ Verdict(r) \/ Pipeline(r) \/ DeleteStaging(r)

Spec == Init /\ [][Next]_vars

\* restic is only sure to end once its context is done and it is killed.
Fairness ==
    \A r \in Runs :
       /\ WF_vars(Check(r) \/ Spawn(r)) /\ WF_vars(Eof(r)) /\ WF_vars(Verdict(r))
       /\ WF_vars(pc[r] # "restore" /\ Pipeline(r))
       /\ WF_vars(stop[r] /\ RestoreEnd(r))

FairSpec == Spec /\ Fairness

-----------------------------------------------------------------------------
(* Properties *)

\* Whatever fails, dies or races, what is published is the whole source,
\* restored and normalized, unless somebody deleted a staging directory that
\* was not theirs (see ClaimsOnlyOwn).
PublishedWhole ==
    misclaimed \/ \A r \in Runs : got[r] \in {"none", "whole"}

\* Two pipelines never work in one staging directory, under the same proviso:
\* whoever finds it there keeps off, and a deletion takes none that is in use.
OneOwner ==
    misclaimed \/
    \A r \in Runs : pc[r] \in {"restore", "normalize", "parents", "look", "move"} =>
        staging[src[r]].by = r

\* A success is on disk, also if the helper or its parent had trouble after it.
OkMeansPublished ==
    \A r \in Runs : res[r].out = "ok" =>
        got[r] # "none" /\ (mirror[src[r]] = r \/ EmptyDir(src[r]))

\* What a run leaves behind without success the user is told of, however its
\* helper ended.
LeftoverReported ==
    \A r \in Runs :
        par[r] = "done" /\ res[r].out # "ok" /\ Exists(src[r]) /\ staging[src[r]].by = r =>
            res[r].staged

\* No target is ever replaced, be it foreign or published, unless it is an empty
\* directory.
TargetKept ==
    [][\A n \in Nodes :
          mirror'[n] = mirror[n] \/ mirror[n] = "none" \/ EmptyDir(n)]_vars

\* What the callers of Extract and those who look into the target see of all
\* this: a source is there at once or not at all (ExtractTargets).
AbsCall == [r \in Runs |-> IF par[r] = "idle" THEN "idle" ELSE IF par[r] # "done" THEN "asked"
                           ELSE IF res[r].out = "ok" THEN "ok" ELSE "failed"]
AbsBrought == [r \in Runs |-> IF got[r] \in {"none", "whole"} THEN got[r] ELSE "part"]
Promise == INSTANCE ExtractTargets
    WITH call <- AbsCall, source <- src, brought <- AbsBrought, there <- {n \in Nodes : mirror[n] \in Runs},
         foreign <- {n \in Nodes : mirror[n] = "other"}, foul <- misclaimed
RefinesTargets == Promise!Spec

\* A run whose caller gave up or died returns, and no root helper stays behind.
RunEnds ==
    \A r \in Runs :
        canceled[r] \/ par[r] = "dead" ~> par[r] # "running" /\ pc[r] = "over"

\* A run only claims a staging directory it made.
ClaimsOnlyOwn ==
    [][\A r \in Runs :
          par[r] = "running" /\ par'[r] = "done" /\ res'[r].out # "ok" => ~Misclaim(r, res'[r])]_vars
=============================================================================
