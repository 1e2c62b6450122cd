------------------------ MODULE ExtractPipelineProofs ------------------------
(***************************************************************************)
(* Proofs about ExtractPipeline: its safety properties for any tree of     *)
(* sources and any number of runs, privileged or not.  That runs end is    *)
(* left to model checking.                                                 *)
(***************************************************************************)
EXTENDS ExtractPipeline, TLAPS

Using == {"restore", "normalize", "parents", "look", "move"}
Before == {"none", "check", "spawn", "recheck", "mkdir"}
Told(r) == event[r].out \notin {"none", "ok"}

\* Where a call is and what it may have returned by then.
Calling(r) ==
    /\ pc[r] = "none" <=> par[r] = "idle"
    /\ par[r] = "done" => pc[r] = "over"
    /\ par[r] # "done" => res[r].out = "none" /\ del[r] = "no"
    /\ pc[r] # "over" => event[r].out = "none"
    /\ event[r].out # "none" => event[r].staged = made[r]
    /\ r \notin Sudo => event[r].out = "none"
    /\ r \notin Sudo /\ par[r] = "running" => pc[r] # "over"
    /\ par[r] = "dead" => r \in Sudo \/ pc[r] = "over"
    /\ pc[r] \in Before => ~made[r]
    /\ pc[r] \in Working => made[r]
    /\ pc[r] \in {"check", "spawn"} => par[r] = "running"
    /\ pc[r] = "spawn" => r \in Sudo
    /\ pc[r] = "unlink" => src[r] \notin Dirs
CallInv == \A r \in Runs : Calling(r)

\* Whose a staging directory is.
MakerInv ==
    \A n \in Nodes :
       /\ staging[n].has = "none" <=> staging[n].by = NoRun
       /\ \A r \in Runs : staging[n].by = r => made[r] /\ src[r] = n

\* Runs that work in a staging directory or may still have it deleted own it,
\* so a directory has one of them at most.
Owns(r) ==
    \/ pc[r] \in Using
    \/ pc[r] \in {"unlink", "clean"} /\ src[r] # Root
    \/ par[r] = "running" /\ Told(r) /\ event[r].staged
    \/ par[r] = "done" /\ res[r].out # "ok" /\ res[r].staged /\ del[r] # "done"
OwnInv == misclaimed \/ \A r \in Runs : Owns(r) => staging[src[r]].by = r

\* How far a run is tells what is in its staging directory.
HasBy(r) ==
    CASE pc[r] = "restore" -> {"empty", "part"}
      [] pc[r] = "normalize" -> {"restored"} \cup (IF src[r] = Root THEN {} ELSE {"empty"})
      [] pc[r] \in {"parents", "look", "move"} ->
            {"whole"} \cup (IF src[r] = Root THEN {} ELSE {"empty"})
      [] OTHER -> Contents
ContentInv == misclaimed \/ \A r \in Runs : staging[src[r]].has \in HasBy(r)

\* The mirror is a tree, what was published is there to the last node, and a
\* run at its target has made the way to it.
TreeInv ==
    /\ \A n \in Nodes : mirror[n] \in Runs => \A x \in Below(n) : mirror[x] # "none"
    /\ \A n \in Nodes : mirror[n] # "none" => \A a \in Up[n] : mirror[a] # "none"
    /\ \A r \in Runs : pc[r] \in {"look", "move"} => \A a \in Up[src[r]] : mirror[a] # "none"

\* What a run published is there, unless it is an empty directory that another
\* run replaced by its own.
Published(r) ==
    /\ got[r] # "none"
    /\ \/ mirror[src[r]] = r
       \/ src[r] \in Dirs /\ Below(src[r]) = {} /\ mirror[src[r]] # "other"
PublishedInv ==
    \A r \in Runs :
       (pc[r] \in {"unlink", "clean"} \/ event[r].out = "ok" \/ res[r].out = "ok") => Published(r)

IInv ==
    /\ TypeOK
    /\ CallInv
    /\ MakerInv
    /\ OwnInv
    /\ ContentInv
    /\ TreeInv
    /\ PublishedInv
    /\ PublishedWhole
    /\ LeftoverReported

USE PipelineAssumption

\* Steps that leave the disk alone, and those of the pipeline that do not.
Bookkeeping(r) ==
    \/ \E n \in Nodes : Call(r, n)
    \/ Cancel(r) \/ Die(r) \/ Check(r) \/ Spawn(r) \/ Eof(r) \/ Timeout(r)
    \/ HelperDies(r) \/ Verdict(r) \/ Recheck(r)
InStaging(r) == MkdirStaging(r) \/ RestoreMore(r) \/ RestoreEnd(r) \/ Normalize(r)
Publishing(r) ==
    MkdirParents(r) \/ Look(r) \/ RenameDir(r) \/ LinkFile(r) \/ Unlink(r) \/ Clean(r)

LEMMA NextCases ==
  ASSUME Next
  PROVE  \E r \in Runs : Bookkeeping(r) \/ InStaging(r) \/ Publishing(r) \/ DeleteStaging(r)
  BY DEF Next, Pipeline, Bookkeeping, InStaging, Publishing
-----------------------------------------------------------------------------
(* Types *)

\* An entry of the range put into a function.
LEMMA ExceptType ==
  ASSUME NEW S, NEW T, NEW f \in [S -> T], NEW s, NEW e \in T
  PROVE  [f EXCEPT ![s] = e] \in [S -> T]
  OBVIOUS

\* Results are results.
LEMMA ResultType ==
  ASSUME NEW out \in Outcomes, NEW staged \in BOOLEAN
  PROVE  Result(out, staged) \in [out : Outcomes, staged : BOOLEAN]
  BY DEF Result

\* The staging directory of a verdict that is not the helper's word.
Probed(r) == IF Told(r) THEN event[r].staged ELSE Exists(src[r])

\* The verdict is the parent's own, or what the helper said last.
LEMMA VerdictIs ==
  ASSUME TypeOK, NEW r \in Runs, Verdict(r)
  PROVE  \E v : /\ v \in {Result("stopped", Probed(r)), Result("failed", Probed(r)), event[r]}
                /\ event[r].out = "none" => v # event[r]
                /\ res' = [res EXCEPT ![r] = v]
                /\ misclaimed' = (misclaimed \/ (v.out # "ok" /\ Misclaim(r, v)))
  <1>1. PICK runErr \in {TRUE, event[r].out = "none"} :
          LET v == IF canceled[r] THEN Result("stopped", Probed(r))
                   ELSE IF runErr /\ ~Told(r) THEN Result("failed", Probed(r))
                   ELSE event[r]
          IN  /\ res' = [res EXCEPT ![r] = v]
              /\ misclaimed' = (misclaimed \/ (v.out # "ok" /\ Misclaim(r, v)))
    BY ZenonT(40) DEF Verdict, Probed, Told
  <1>2. event[r].out = "none" => runErr /\ ~Told(r)
    BY <1>1 DEF Told
  <1>3. \A staged : Result("stopped", staged).out = "stopped" /\ Result("failed", staged).out = "failed"
    BY DEF Result
  <1> DEFINE v == IF canceled[r] THEN Result("stopped", Probed(r))
                  ELSE IF runErr /\ ~Told(r) THEN Result("failed", Probed(r))
                  ELSE event[r]
  <1>4. v \in {Result("stopped", Probed(r)), Result("failed", Probed(r)), event[r]}
    OBVIOUS
  <1>5. event[r].out = "none" => v # event[r]
    <2>1. event[r].out = "none" => v = Result("stopped", Probed(r)) \/ v = Result("failed", Probed(r))
      BY <1>2, Zenon
    <2> HIDE DEF v
    <2> QED BY <1>3, <2>1
  <1>6. /\ res' = [res EXCEPT ![r] = v]
        /\ misclaimed' = (misclaimed \/ (v.out # "ok" /\ Misclaim(r, v)))
    BY <1>1
  <1> HIDE DEF v
  <1> QED BY <1>4, <1>5, <1>6

\* The end of a pipeline keeps the types.
LEMMA EndTypeDisk ==
  ASSUME TypeOK, NEW r \in Runs, NEW out \in Outcomes, End(r, out), UNCHANGED <<mirror, got>>,
         staging' \in [Nodes -> [has : Contents, by : Runs \cup {NoRun}]]
  PROVE  TypeOK'
  <1>1. Result(out, made[r]) \in [out : Outcomes, staged : BOOLEAN]
    BY ResultType DEF TypeOK
  <1>2. PICK e \in [out : Outcomes, staged : BOOLEAN] :
           /\ res' = res \/ res' = [res EXCEPT ![r] = e]
           /\ event' = event \/ event' = [event EXCEPT ![r] = e]
    BY <1>1 DEF End
  <1>3. res' \in [Runs -> [out : Outcomes, staged : BOOLEAN]]
        /\ event' \in [Runs -> [out : Outcomes, staged : BOOLEAN]]
    BY <1>2, ExceptType DEF TypeOK
  <1>4. pc' \in [Runs -> Steps]
    BY DEF End, Goto, TypeOK, Steps
  <1>5. par' = par \/ par' = [par EXCEPT ![r] = "done"]
    BY DEF End
  <1>6. par' \in [Runs -> {"idle", "running", "done", "dead"}]
    <2>1. par \in [Runs -> {"idle", "running", "done", "dead"}]
      BY DEF TypeOK
    <2> QED BY ONLY <1>5, <2>1
  <1>7. UNCHANGED <<src, canceled, stop, made, del, misclaimed, mirror, got>>
    BY DEF End
  <1> QED BY <1>3, <1>4, <1>6, <1>7 DEF TypeOK

LEMMA EndType ==
  ASSUME TypeOK, NEW r \in Runs, NEW out \in Outcomes, End(r, out), UNCHANGED diskVars
  PROVE  TypeOK'
  <1>1. staging' \in [Nodes -> [has : Contents, by : Runs \cup {NoRun}]]
        /\ UNCHANGED <<mirror, got>>
    BY DEF TypeOK, diskVars
  <1> QED BY <1>1, EndTypeDisk

LEMMA BookkeepingType ==
  ASSUME TypeOK, NEW r \in Runs, Bookkeeping(r)
  PROVE  TypeOK'
  <1> USE DEF TypeOK, Goto, Steps, diskVars
  <1>1. ASSUME NEW n \in Nodes, Call(r, n) PROVE TypeOK'
    BY <1>1 DEF Call
  <1>2. CASE Cancel(r)
    BY <1>2 DEF Cancel
  <1>3. CASE Die(r)
    BY <1>3 DEF Die
  <1>4. CASE Check(r)
    <2>1. PICK out \in Outcomes : res' = res \/ res' = [res EXCEPT ![r] = Result(out, FALSE)]
      <3>1. Blocked(src[r]) \in Outcomes /\ "failed" \in Outcomes
        BY DEF Blocked, Outcomes
      <3> QED BY <1>4, <3>1 DEF Check
    <2>2. Result(out, FALSE) \in [out : Outcomes, staged : BOOLEAN]
      BY ResultType
    <2>3. res' \in [Runs -> [out : Outcomes, staged : BOOLEAN]]
      BY <2>1, <2>2, ExceptType
    <2> QED BY <1>4, <2>3, ZenonT(40) DEF Check
  <1>5. CASE Spawn(r)
    BY <1>5 DEF Spawn, runVars
  <1>6. CASE Eof(r) \/ Timeout(r)
    <2>1. /\ UNCHANGED <<par, pc, src, canceled, made, event, res, del, diskVars, misclaimed>>
          /\ stop' = [stop EXCEPT ![r] = TRUE]
      BY <1>6 DEF Eof, Timeout
    <2> QED BY <2>1
  <1>7. CASE HelperDies(r)
    BY <1>7 DEF HelperDies, runVars
  <1>8. CASE Verdict(r)
    <2>1. PICK verdict : /\ verdict \in {Result("stopped", Probed(r)), Result("failed", Probed(r)), event[r]}
                         /\ res' = [res EXCEPT ![r] = verdict]
      BY <1>8, VerdictIs
    <2>p. Probed(r) \in BOOLEAN
      BY DEF Probed, Exists
    <2>0. verdict \in [out : Outcomes, staged : BOOLEAN]
      BY <2>1, <2>p, ResultType DEF Outcomes
    <2>2. res' \in [Runs -> [out : Outcomes, staged : BOOLEAN]]
      BY <2>0, <2>1
    <2>3. misclaimed' \in BOOLEAN
      BY <1>8 DEF Verdict, Misclaim
    <2> QED BY <1>8, <2>2, <2>3 DEF Verdict
  <1>9. CASE Recheck(r)
    <2>0. UNCHANGED diskVars /\ Blocked(src[r]) \in Outcomes /\ "failed" \in Outcomes
      BY <1>9 DEF Recheck, Blocked, Outcomes
    <2>1. CASE \E out \in Outcomes : End(r, out)
      BY <2>0, <2>1, EndType
    <2>2. CASE Goto(r, "mkdir") /\ UNCHANGED runVars
      BY <1>9, <2>2 DEF Recheck, runVars
    <2> QED BY <1>9, <2>0, <2>1, <2>2 DEF Recheck
  <1> QED BY <1>1, <1>2, <1>3, <1>4, <1>5, <1>6, <1>7, <1>8, <1>9 DEF Bookkeeping

\* A staging directory with other contents is still one.
LEMMA PutType ==
  ASSUME TypeOK, NEW n \in Nodes, NEW has \in Contents, Put(n, has)
  PROVE  staging' \in [Nodes -> [has : Contents, by : Runs \cup {NoRun}]]
  <1>1. staging \in [Nodes -> [has : Contents, by : Runs \cup {NoRun}]]
    BY DEF TypeOK
  <1>2. [staging[n] EXCEPT !.has = has] \in [has : Contents, by : Runs \cup {NoRun}]
    BY <1>1
  <1>3. staging' = [staging EXCEPT ![n] = [staging[n] EXCEPT !.has = has]]
    BY DEF Put
  <1> QED BY <1>1, <1>2, <1>3, ExceptType

LEMMA StepType ==
  ASSUME TypeOK, NEW r \in Runs, NEW from, NEW to \in Steps, Step(r, from, to),
         staging' \in [Nodes -> [has : Contents, by : Runs \cup {NoRun}]],
         mirror' \in [Nodes -> Occupants], got' \in [Runs -> Contents]
  PROVE  TypeOK'
  BY DEF Step, Goto, TypeOK, runVars

LEMMA InStagingType ==
  ASSUME TypeOK, NEW r \in Runs, InStaging(r)
  PROVE  TypeOK'
  <1>s. src[r] \in Nodes
    BY DEF TypeOK
  <1>d. staging \in [Nodes -> [has : Contents, by : Runs \cup {NoRun}]]
        /\ mirror \in [Nodes -> Occupants] /\ got \in [Runs -> Contents]
    BY DEF TypeOK
  <1>c. {"empty", "part", "restored", "whole", "hole"} \subseteq Contents
        /\ {"restore", "normalize", "parents"} \subseteq Steps
    BY DEF Contents, Steps, Working
  <1>1. CASE MkdirStaging(r)
    <2>1. CASE End(r, IF Exists(src[r]) THEN "exists" ELSE "failed") /\ UNCHANGED staging
      BY <1>1, <2>1, EndType DEF MkdirStaging, Outcomes, diskVars
    <2>2. CASE Goto(r, "restore")
               /\ staging' = [staging EXCEPT ![src[r]] = [has |-> "empty", by |-> r]]
               /\ made' = [made EXCEPT ![r] = TRUE]
               /\ UNCHANGED <<par, src, canceled, stop, event, res, del, misclaimed>>
      BY <1>1, <1>c, <1>s, <2>2 DEF MkdirStaging, Goto, TypeOK
    <2> QED BY <1>1, <2>1, <2>2 DEF MkdirStaging
  <1>2. CASE RestoreMore(r)
    BY <1>2, <1>s, <1>d, <1>c, PutType, StepType DEF RestoreMore
  <1>3. CASE RestoreEnd(r)
    <2>1. CASE End(r, IF stop[r] THEN "stopped" ELSE "failed") /\ UNCHANGED diskVars
      BY <2>1, EndType DEF Outcomes
    <2>2. CASE Step(r, "restore", "normalize") /\ UNCHANGED <<mirror, got>>
      <3>1. staging' \in [Nodes -> [has : Contents, by : Runs \cup {NoRun}]]
        BY <1>3, <1>s, <1>d, <1>c, <2>2, PutType DEF RestoreEnd, diskVars
      <3> QED BY <1>d, <1>c, <2>2, <3>1, StepType
    <2> QED BY <1>3, <2>1, <2>2 DEF RestoreEnd
  <1>4. CASE Normalize(r)
    <2>1. CASE (End(r, "stopped") \/ End(r, "failed")) /\ UNCHANGED diskVars
      BY <2>1, EndType DEF Outcomes
    <2>2. CASE /\ Step(r, "normalize", "parents") /\ UNCHANGED <<mirror, got>>
               /\ IF staging[src[r]].has = "restored" THEN Put(src[r], "whole")
                  ELSE UNCHANGED staging
      BY <1>s, <1>d, <1>c, <2>2, PutType, StepType
    <2> QED BY <1>4, <2>1, <2>2 DEF Normalize
  <1> QED BY <1>1, <1>2, <1>3, <1>4 DEF InStaging

LEMMA PublishType ==
  ASSUME TypeOK, NEW r \in Runs, Publish(r)
  PROVE  mirror' \in [Nodes -> Occupants] /\ got' \in [Runs -> Contents]
  <1>1. src[r] \in Nodes /\ r \in Occupants
    BY DEF TypeOK, Occupants
  <1>2. staging[src[r]].has \in Contents
    BY <1>1 DEF TypeOK
  <1> QED BY <1>1, <1>2 DEF Publish, TypeOK

LEMMA PublishingType ==
  ASSUME TypeOK, NEW r \in Runs, Publishing(r)
  PROVE  TypeOK'
  <1>s. src[r] \in Nodes
    BY DEF TypeOK
  <1>d. staging \in [Nodes -> [has : Contents, by : Runs \cup {NoRun}]]
        /\ mirror \in [Nodes -> Occupants] /\ got \in [Runs -> Contents]
    BY DEF TypeOK
  <1>c. /\ "empty" \in Contents /\ NoDir \in [has : Contents, by : Runs \cup {NoRun}]
        /\ {"look", "move", "unlink", "clean"} \subseteq Steps
        /\ {"failed", "taken", "ok"} \subseteq Outcomes
    BY DEF Contents, Steps, Working, NoDir, Outcomes
  <1>n. [staging EXCEPT ![src[r]] = NoDir] \in [Nodes -> [has : Contents, by : Runs \cup {NoRun}]]
    BY <1>c, <1>d, ExceptType
  <1>e. ASSUME NEW out \in {"failed", "taken"}, End(r, out), UNCHANGED diskVars PROVE TypeOK'
    BY <1>c, <1>e, EndType
  <1>1. CASE MkdirParents(r)
    <2>1. CASE /\ Step(r, "parents", IF src[r] \in Dirs THEN "look" ELSE "move")
               /\ mirror' = [n \in Nodes |-> IF n \in Up[src[r]] /\ mirror[n] = "none" THEN "made"
                                             ELSE mirror[n]]
               /\ UNCHANGED <<staging, got>>
      <3>1. mirror' \in [Nodes -> Occupants]
        BY <1>d, <2>1 DEF Occupants
      <3> QED BY <1>d, <1>c, <2>1, <3>1, StepType
    <2> QED BY <1>1, <1>e, <2>1 DEF MkdirParents
  <1>2. CASE Look(r)
    <2>1. CASE Step(r, "look", "move") /\ UNCHANGED diskVars
      BY <1>d, <1>c, <2>1, StepType DEF diskVars
    <2> QED BY <1>2, <1>e, <2>1 DEF Look
  <1>3. CASE RenameDir(r)
    <2>1. CASE /\ Step(r, "move", "clean") /\ Publish(r)
               /\ IF src[r] = Root THEN staging' = [staging EXCEPT ![Root] = NoDir]
                                   ELSE Put(src[r], "empty")
      <3>1. staging' \in [Nodes -> [has : Contents, by : Runs \cup {NoRun}]]
        BY <1>s, <1>c, <1>n, <2>1, PutType
      <3> QED BY <1>c, <2>1, <3>1, PublishType, StepType
    <2> QED BY <1>3, <1>e, <2>1 DEF RenameDir
  <1>4. CASE LinkFile(r)
    <2>1. CASE Step(r, "move", "unlink") /\ Publish(r) /\ UNCHANGED staging
      BY <1>d, <1>c, <2>1, PublishType, StepType
    <2> QED BY <1>4, <1>e, <2>1 DEF LinkFile
  <1>5. CASE Unlink(r)
    <2>1. staging' \in [Nodes -> [has : Contents, by : Runs \cup {NoRun}]]
      BY <1>5, <1>s, <1>c, <1>d, PutType DEF Unlink
    <2> QED BY <1>5, <1>c, <1>d, <2>1, StepType DEF Unlink
  <1>6. CASE Clean(r)
    <2>1. staging' \in [Nodes -> [has : Contents, by : Runs \cup {NoRun}]]
      BY <1>6, <1>d, <1>n DEF Clean
    <2> QED BY <1>6, <1>c, <2>1, EndTypeDisk DEF Clean
  <1> QED BY <1>1, <1>2, <1>3, <1>4, <1>5, <1>6 DEF Publishing

LEMMA DeleteType ==
  ASSUME TypeOK, NEW r \in Runs, DeleteStaging(r)
  PROVE  TypeOK'
  <1>1. src[r] \in Nodes /\ "hole" \in Contents /\ NoDir \in [has : Contents, by : Runs \cup {NoRun}]
    BY DEF TypeOK, Contents, NoDir
  <1>2. staging \in [Nodes -> [has : Contents, by : Runs \cup {NoRun}]]
    BY DEF TypeOK
  <1>3. [staging EXCEPT ![src[r]] = NoDir] \in [Nodes -> [has : Contents, by : Runs \cup {NoRun}]]
    BY <1>1, <1>2, ExceptType
  <1>4. staging' \in [Nodes -> [has : Contents, by : Runs \cup {NoRun}]]
    BY <1>1, <1>2, <1>3, PutType DEF DeleteStaging
  <1>5. PICK d \in {"removing", "done"} : del' = [del EXCEPT ![r] = d]
    BY DEF DeleteStaging
  <1>6. del' \in [Runs -> {"no", "removing", "done"}]
    BY <1>5 DEF TypeOK
  <1> QED BY <1>4, <1>6 DEF DeleteStaging, TypeOK

LEMMA TypePreserved ==
  ASSUME TypeOK, Next
  PROVE  TypeOK'
  BY NextCases, BookkeepingType, InStagingType, PublishingType, DeleteType
-----------------------------------------------------------------------------
(* What steps leave alone *)

Acts(r) == Bookkeeping(r) \/ InStaging(r) \/ Publishing(r) \/ DeleteStaging(r)
Same(q) ==
    /\ par'[q] = par[q] /\ pc'[q] = pc[q] /\ src'[q] = src[q] /\ made'[q] = made[q]
    /\ event'[q] = event[q] /\ res'[q] = res[q] /\ del'[q] = del[q]

\* The end of a pipeline, value by value.
LEMMA EndFrame ==
  ASSUME TypeOK, NEW r \in Runs, NEW out \in Outcomes, End(r, out)
  PROVE  /\ pc'[r] = "over"
         /\ src' = src /\ made' = made /\ del' = del /\ misclaimed' = misclaimed
         /\ r \in Sudo => /\ par'[r] = par[r] /\ res'[r] = res[r]
                          /\ event'[r].out = out /\ event'[r].staged = made[r]
         /\ r \notin Sudo => /\ par'[r] = "done" /\ event'[r] = event[r]
                             /\ res'[r].out = out /\ res'[r].staged = made[r]
         /\ \A q \in Runs : q # r => Same(q)
  <1>1. CASE r \in Sudo
    BY <1>1 DEF End, Goto, Result, TypeOK, Same
  <1>2. CASE r \notin Sudo
    BY <1>2 DEF End, Goto, Result, TypeOK, Same
  <1> QED BY <1>1, <1>2

\* A step within the pipeline.
LEMMA StepFrame ==
  ASSUME TypeOK, NEW r \in Runs, NEW from, NEW to, Step(r, from, to)
  PROVE  /\ pc[r] = from /\ pc'[r] = to
         /\ UNCHANGED <<par, src, canceled, stop, made, event, res, del, misclaimed>>
         /\ \A q \in Runs : q # r => Same(q)
  BY DEF Step, Goto, TypeOK, Same, runVars

\* A source that is blocked ends the call, a fresh one may.
LEMMA CheckFrame ==
  ASSUME TypeOK, NEW r \in Runs, Check(r)
  PROVE  /\ pc[r] = "check"
         /\ UNCHANGED <<src, canceled, stop, made, event, del, staging, mirror, got, misclaimed>>
         /\ \/ /\ par'[r] = "done" /\ pc'[r] = "over"
               /\ res'[r].out \notin {"none", "ok"} /\ ~res'[r].staged
            \/ /\ par'[r] = par[r] /\ res'[r] = res[r]
               /\ pc'[r] = IF r \in Sudo THEN "spawn" ELSE "mkdir"
         /\ \A q \in Runs : q # r => Same(q)
  <1>0. UNCHANGED <<src, canceled, stop, made, event, del, staging, mirror, got, misclaimed>>
    BY DEF Check, diskVars
  <1>1. CASE /\ \E out \in {"failed", "exists", "taken"} :
                   res' = [res EXCEPT ![r] = Result(out, FALSE)]
             /\ par' = [par EXCEPT ![r] = "done"]
             /\ Goto(r, "over")
    <2>1. PICK out \in {"failed", "exists", "taken"} :
                   res' = [res EXCEPT ![r] = Result(out, FALSE)]
      BY <1>1
    <2> QED BY <1>0, <1>1, <2>1 DEF Goto, Result, TypeOK, Same, Check
  <1>2. CASE Goto(r, IF r \in Sudo THEN "spawn" ELSE "mkdir") /\ UNCHANGED <<par, res>>
    BY <1>0, <1>2 DEF Goto, TypeOK, Same, Check
  <1>3. Blocked(src[r]) \in {"exists", "taken"}
    BY DEF Blocked
  <1> QED BY <1>1, <1>2, <1>3 DEF Check

LEMMA BookkeepingFrame ==
  ASSUME TypeOK, NEW r \in Runs, Bookkeeping(r)
  PROVE  /\ UNCHANGED diskVars /\ UNCHANGED <<made, del>>
         /\ \A q \in Runs : q # r => Same(q)
  <1> USE DEF TypeOK, Goto, Same, diskVars
  <1>1. ASSUME NEW n \in Nodes, Call(r, n)
        PROVE  UNCHANGED <<diskVars, made, del>> /\ \A q \in Runs : q # r => Same(q)
    BY <1>1 DEF Call
  <1>2. CASE Cancel(r) \/ Die(r) \/ Eof(r) \/ Timeout(r)
    BY <1>2 DEF Cancel, Die, Eof, Timeout
  <1>3. CASE Check(r)
    BY <1>3, CheckFrame
  <1>4. CASE Spawn(r) \/ HelperDies(r)
    BY <1>4 DEF Spawn, HelperDies, runVars
  <1>5. CASE Verdict(r)
    <2>1. \A q \in Runs : q # r => res'[q] = res[q] /\ par'[q] = par[q]
      BY <1>5 DEF Verdict
    <2> QED BY <1>5, <2>1 DEF Verdict
  <1>6. CASE Recheck(r)
    <2>1. CASE Goto(r, "mkdir") /\ UNCHANGED runVars
      BY <1>6, <2>1 DEF Recheck, runVars
    <2>2. CASE \E out \in Outcomes : End(r, out)
      BY <1>6, <2>2, EndFrame DEF Recheck
    <2>3. Blocked(src[r]) \in Outcomes /\ "failed" \in Outcomes
      BY DEF Blocked, Outcomes
    <2> QED BY <1>6, <2>1, <2>2, <2>3 DEF Recheck
  <1> QED BY <1>1, <1>2, <1>3, <1>4, <1>5, <1>6 DEF Bookkeeping

\* What becomes of a source's staging directory, by whoever steps: only its
\* owner, or who finds none, touches it.
LEMMA InStagingFrame ==
  ASSUME TypeOK, NEW r \in Runs, InStaging(r)
  PROVE  /\ UNCHANGED <<mirror, got, del, misclaimed>>
         /\ \A q \in Runs : q # r => Same(q)
  <1>1. CASE MkdirStaging(r)
    <2>1. CASE End(r, IF Exists(src[r]) THEN "exists" ELSE "failed")
      BY <1>1, <2>1, EndFrame DEF MkdirStaging, Outcomes
    <2>2. CASE Goto(r, "restore")
               /\ made' = [made EXCEPT ![r] = TRUE]
               /\ UNCHANGED <<par, src, canceled, stop, event, res, del, misclaimed>>
      BY <1>1, <2>2 DEF MkdirStaging, Goto, TypeOK, Same
    <2> QED BY <1>1, <2>1, <2>2 DEF MkdirStaging
  <1>2. CASE RestoreMore(r)
    BY <1>2, StepFrame DEF RestoreMore
  <1>3. CASE RestoreEnd(r)
    <2>1. CASE End(r, IF stop[r] THEN "stopped" ELSE "failed") /\ UNCHANGED diskVars
      BY <2>1, EndFrame DEF Outcomes, diskVars
    <2> QED BY <1>3, <2>1, StepFrame DEF RestoreEnd
  <1>4. CASE Normalize(r)
    <2>1. CASE (End(r, "stopped") \/ End(r, "failed")) /\ UNCHANGED diskVars
      BY <2>1, EndFrame DEF Outcomes, diskVars
    <2> QED BY <1>4, <2>1, StepFrame DEF Normalize
  <1> QED BY <1>1, <1>2, <1>3, <1>4 DEF InStaging

LEMMA PublishingFrame ==
  ASSUME TypeOK, NEW r \in Runs, Publishing(r)
  PROVE  /\ UNCHANGED <<src, made, del, misclaimed>>
         /\ \A q \in Runs : q # r => Same(q)
  <1>0. "failed" \in Outcomes /\ "taken" \in Outcomes /\ "ok" \in Outcomes
    BY DEF Outcomes
  <1>1. CASE \E out \in Outcomes : End(r, out)
    BY <1>1, EndFrame
  <1>2. CASE \E from, to \in Steps : Step(r, from, to)
    BY <1>2, StepFrame
  <1>3. {"parents", "look", "move", "unlink", "clean"} \subseteq Steps
    BY DEF Steps, Working
  <1>4. (\E out \in Outcomes : End(r, out)) \/ (\E from, to \in Steps : Step(r, from, to))
    BY <1>0, <1>3
    DEF Publishing, MkdirParents, Look, RenameDir, LinkFile, Unlink, Clean
  <1> QED BY <1>1, <1>2, <1>4

LEMMA Others ==
  ASSUME TypeOK, NEW r \in Runs, Acts(r), NEW q \in Runs, q # r
  PROVE  Same(q)
  <1>1. CASE DeleteStaging(r)
    <2>1. PICK d \in {"removing", "done"} : del' = [del EXCEPT ![r] = d]
      BY <1>1 DEF DeleteStaging
    <2> QED BY <1>1, <2>1 DEF DeleteStaging, Same, TypeOK
  <1> QED BY <1>1, BookkeepingFrame, InStagingFrame, PublishingFrame DEF Acts

\* Publishing a source.
Publishes(r) ==
    /\ pc[r] = "move" /\ pc'[r] = IF src[r] \in Dirs THEN "clean" ELSE "unlink"
    /\ HasNode(src[r])
    /\ mirror[src[r]] = "none" \/ EmptyDir(src[r])
    /\ Publish(r)
    /\ UNCHANGED <<par, src, made, event, res, del, misclaimed>>

\* What becomes of the mirror.
LEMMA MirrorFrame ==
  ASSUME TypeOK, NEW r \in Runs, Acts(r)
  PROVE  \/ UNCHANGED <<mirror, got>>
         \/ /\ pc[r] = "parents" /\ pc'[r] \in {"look", "move"}
            /\ mirror' = [n \in Nodes |-> IF n \in Up[src[r]] /\ mirror[n] = "none" THEN "made"
                                          ELSE mirror[n]]
            /\ UNCHANGED <<staging, got>>
         \/ Publishes(r)
  <1>1. CASE Bookkeeping(r) \/ InStaging(r) \/ DeleteStaging(r)
    BY <1>1, BookkeepingFrame, InStagingFrame DEF diskVars, DeleteStaging
  <1>2. CASE MkdirParents(r)
    BY <1>2, StepFrame DEF MkdirParents, diskVars
  <1>3. CASE Look(r) \/ Unlink(r) \/ Clean(r)
    BY <1>3 DEF Look, Unlink, Clean, diskVars
  <1>4. CASE RenameDir(r)
    BY <1>4, StepFrame DEF RenameDir, Publishes, diskVars
  <1>5. CASE LinkFile(r)
    BY <1>5, StepFrame DEF LinkFile, Publishes, diskVars
  <1> QED BY <1>1, <1>2, <1>3, <1>4, <1>5 DEF Acts, Publishing
-----------------------------------------------------------------------------
(* Calls *)

LEMMA EndCalling ==
  ASSUME TypeOK, NEW r \in Runs, Calling(r), NEW out \in Outcomes, End(r, out),
         out # "none", pc[r] \notin {"none", "over"}
  PROVE  Calling(r)'
  BY EndFrame DEF Calling, Before, Working

LEMMA StepCalling ==
  ASSUME TypeOK, NEW r \in Runs, Calling(r), NEW from \in Working, NEW to \in Working,
         Step(r, from, to), to = "unlink" => src[r] \notin Dirs
  PROVE  Calling(r)'
  BY StepFrame DEF Calling, Before, Working

LEMMA OwnCall ==
  ASSUME TypeOK, CallInv, NEW r \in Runs, Acts(r)
  PROVE  Calling(r)'
  <1>0. Calling(r)
    BY DEF CallInv
  <1>o. {"failed", "taken", "exists", "stopped", "ok"} \subseteq Outcomes
    BY DEF Outcomes
  <1>w. Working = {"restore", "normalize", "parents", "look", "move", "unlink", "clean"}
    BY DEF Working
  <1>1. ASSUME NEW n \in Nodes, Call(r, n) PROVE Calling(r)'
    BY <1>0, <1>1 DEF Call, Calling, TypeOK, Goto, Before, Working
  <1>2. CASE Cancel(r) \/ Eof(r) \/ Timeout(r)
    BY <1>0, <1>2 DEF Cancel, Eof, Timeout, Calling
  <1>3. CASE Die(r)
    <2>1. pc'[r] = IF r \in Sudo /\ pc[r] \notin {"check", "spawn"} THEN pc[r] ELSE "over"
      BY <1>3 DEF Die, TypeOK
    <2> QED BY <1>0, <1>3, <2>1 DEF Die, Calling, TypeOK, Before, Working
  <1>4. CASE Check(r)
    BY <1>0, <1>4, CheckFrame DEF Calling, Before, Working
  <1>5. CASE Spawn(r)
    BY <1>0, <1>5 DEF Spawn, Goto, Calling, TypeOK, Before, Working, runVars
  <1>6. CASE HelperDies(r)
    BY <1>0, <1>6 DEF HelperDies, Goto, Calling, TypeOK, Before, Working, runVars
  <1>7. CASE Verdict(r)
    <2>1. par'[r] = "done"
      BY <1>7 DEF Verdict, TypeOK
    <2> QED BY <1>0, <1>7, <2>1 DEF Verdict, Calling, Before, Working
  <1>8. CASE Recheck(r)
    <2>1. CASE Goto(r, "mkdir") /\ UNCHANGED runVars
      BY <1>0, <1>8, <2>1 DEF Recheck, Goto, Calling, TypeOK, Before, Working, runVars
    <2>2. CASE End(r, Blocked(src[r])) \/ End(r, "failed")
      <3>1. Blocked(src[r]) \in {"exists", "taken"}
        BY DEF Blocked
      <3> QED BY <1>0, <1>8, <1>o, <2>2, <3>1, EndCalling DEF Recheck
    <2> QED BY <1>8, <2>1, <2>2 DEF Recheck
  <1>9. CASE MkdirStaging(r)
    <2>1. CASE Goto(r, "restore")
               /\ made' = [made EXCEPT ![r] = TRUE]
               /\ UNCHANGED <<par, src, canceled, stop, event, res, del, misclaimed>>
      BY <1>0, <1>9, <2>1 DEF MkdirStaging, Goto, Calling, TypeOK, Before, Working
    <2>2. CASE End(r, IF Exists(src[r]) THEN "exists" ELSE "failed")
      BY <1>0, <1>9, <1>o, <2>2, EndCalling DEF MkdirStaging
    <2> QED BY <1>9, <2>1, <2>2 DEF MkdirStaging
  <1>10. CASE RestoreMore(r) \/ RestoreEnd(r) \/ Normalize(r)
    BY <1>0, <1>10, <1>o, <1>w, EndCalling, StepCalling DEF RestoreMore, RestoreEnd, Normalize
  <1>11. CASE MkdirParents(r) \/ Look(r) \/ Unlink(r) \/ Clean(r)
    BY <1>0, <1>11, <1>o, <1>w, EndCalling, StepCalling DEF MkdirParents, Look, Unlink, Clean
  <1>12. CASE RenameDir(r) \/ LinkFile(r)
    BY <1>0, <1>12, <1>o, <1>w, EndCalling, StepCalling DEF RenameDir, LinkFile
  <1>13. CASE DeleteStaging(r)
    BY <1>0, <1>13 DEF DeleteStaging, Calling
  <1> QED
    BY <1>1, <1>2, <1>3, <1>4, <1>5, <1>6, <1>7, <1>8, <1>9, <1>10, <1>11, <1>12, <1>13
    DEF Acts, Bookkeeping, InStaging, Publishing

LEMMA CallPreserved ==
  ASSUME TypeOK, CallInv, NEW r \in Runs, Acts(r)
  PROVE  CallInv'
  <1>1. ASSUME NEW q \in Runs, q # r PROVE Calling(q)'
    BY <1>1, Others DEF Same, CallInv, Calling
  <1> QED BY <1>1, OwnCall DEF CallInv
-----------------------------------------------------------------------------
(* Staging directories *)

\* What a step may do with the staging directory of its source.
Touches(r, old, new) ==
    \/ pc[r] = "mkdir" /\ pc'[r] = "restore" /\ old.has = "none" /\ made'[r]
       /\ new.has = "empty" /\ new.by = r
    \/ pc[r] = "restore" /\ new.has = "hole" /\ new.by = r
    \/ Owns(r) /\ old.has # "none" /\ new.has # "none" /\ new.by = old.by
    \/ Owns(r) /\ new = NoDir

LEMMA PutFrame ==
  ASSUME TypeOK, NEW n \in Nodes, NEW has, Put(n, has)
  PROVE  /\ staging'[n].has = has /\ staging'[n].by = staging[n].by
         /\ \A x \in Nodes : x # n => staging'[x] = staging[x]
  BY DEF Put, TypeOK

LEMMA StagingFrame ==
  ASSUME TypeOK, NEW r \in Runs, Calling(r), Acts(r)
  PROVE  \/ staging' = staging
         \/ /\ Touches(r, staging[src[r]], staging'[src[r]])
            /\ \A x \in Nodes : x # src[r] => staging'[x] = staging[x]
  <1>s. src[r] \in Nodes
    BY DEF TypeOK
  <1>d. ASSUME staging' = [staging EXCEPT ![src[r]] = NoDir], Owns(r)
        PROVE  /\ Touches(r, staging[src[r]], staging'[src[r]])
               /\ \A x \in Nodes : x # src[r] => staging'[x] = staging[x]
    BY <1>s, <1>d DEF Touches, TypeOK
  <1>p. ASSUME NEW has, has # "none", Put(src[r], has), Owns(r), staging[src[r]].has # "none"
        PROVE  /\ Touches(r, staging[src[r]], staging'[src[r]])
               /\ \A x \in Nodes : x # src[r] => staging'[x] = staging[x]
    BY <1>s, <1>p, PutFrame DEF Touches
  <1>1. CASE Bookkeeping(r) \/ MkdirParents(r) \/ Look(r)
    BY <1>1, BookkeepingFrame DEF MkdirParents, Look, diskVars
  <1>2. CASE MkdirStaging(r)
    BY <1>2, <1>s DEF MkdirStaging, Touches, TypeOK, Goto, Exists
  <1>3. CASE RestoreMore(r)
    BY <1>3, <1>p, StepFrame DEF RestoreMore, Owns, Using
  <1>4. CASE RestoreEnd(r)
    <2>1. CASE /\ pc[r] = "restore" /\ staging[src[r]].has \notin {"none", "hole"}
               /\ Put(src[r], "restored")
      BY <1>p, <2>1 DEF Owns, Using
    <2>2. CASE /\ pc[r] = "restore"
               /\ staging' = [staging EXCEPT ![src[r]] = [has |-> "hole", by |-> r]]
      BY <1>s, <2>2 DEF Touches, TypeOK
    <2> QED BY <1>4, <2>1, <2>2, StepFrame DEF RestoreEnd, diskVars
  <1>5. CASE Normalize(r)
    <2>1. CASE pc[r] = "normalize" /\ staging[src[r]].has = "restored" /\ Put(src[r], "whole")
      BY <1>p, <2>1 DEF Owns, Using
    <2> QED BY <1>5, <2>1, StepFrame DEF Normalize, diskVars
  <1>6. CASE RenameDir(r)
    <2>1. CASE /\ pc[r] = "move" /\ HasNode(src[r])
               /\ IF src[r] = Root THEN staging' = [staging EXCEPT ![Root] = NoDir]
                                   ELSE Put(src[r], "empty")
      BY <1>d, <1>p, <2>1 DEF Owns, Using, HasNode, Exists
    <2> QED BY <1>6, <2>1, StepFrame DEF RenameDir, diskVars
  <1>7. CASE LinkFile(r)
    BY <1>7 DEF LinkFile, diskVars
  <1>8. CASE Unlink(r)
    <2>1. CASE pc[r] = "unlink" /\ Exists(src[r]) /\ Put(src[r], "empty")
      <3>1. src[r] # Root
        BY <2>1 DEF Calling
      <3> QED BY <1>p, <2>1, <3>1 DEF Owns, Exists
    <2> QED BY <1>8, <2>1, StepFrame DEF Unlink
  <1>9. CASE Clean(r)
    BY <1>9, <1>d DEF Clean, Owns
  <1>10. CASE DeleteStaging(r)
    <2>1. CASE staging[src[r]].has \notin {"none", "empty"} /\ Put(src[r], "hole") /\ del[r] = "no"
      BY <1>p, <1>10, <2>1 DEF DeleteStaging, Owns
    <2>2. CASE staging' = [staging EXCEPT ![src[r]] = NoDir] /\ del[r] = "removing"
      BY <1>d, <1>10, <2>2 DEF DeleteStaging, Owns
    <2> QED BY <1>10, <2>1, <2>2 DEF DeleteStaging
  <1> QED BY <1>1, <1>2, <1>3, <1>4, <1>5, <1>6, <1>7, <1>8, <1>9, <1>10
          DEF Acts, InStaging, Publishing

\* A source stays once it is called for, and so does what was made.
LEMMA Grows ==
  ASSUME TypeOK, NEW r \in Runs, Calling(r), Acts(r)
  PROVE  /\ pc[r] # "none" => src'[r] = src[r]
         /\ made[r] => made'[r]
         /\ misclaimed => misclaimed'
  <1>1. ASSUME NEW n \in Nodes, Call(r, n) PROVE pc[r] = "none" /\ made' = made /\ misclaimed' = misclaimed
    BY <1>1 DEF Call, Calling
  <1>2. CASE Verdict(r)
    BY <1>2 DEF Verdict
  <1>3. CASE Recheck(r)
    BY <1>3, EndFrame DEF Recheck, runVars, Blocked, Outcomes
  <1>4. CASE MkdirStaging(r)
    <2>1. CASE End(r, IF Exists(src[r]) THEN "exists" ELSE "failed")
      BY <2>1, EndFrame DEF Outcomes
    <2> QED BY <1>4, <2>1 DEF MkdirStaging, TypeOK
  <1>5. CASE RestoreMore(r)
    BY <1>5, StepFrame DEF RestoreMore
  <1>6. CASE RestoreEnd(r)
    <2>1. CASE End(r, IF stop[r] THEN "stopped" ELSE "failed")
      BY <2>1, EndFrame DEF Outcomes
    <2> QED BY <1>6, <2>1, StepFrame DEF RestoreEnd
  <1>7. CASE Normalize(r)
    <2>1. CASE End(r, "stopped") \/ End(r, "failed")
      BY <2>1, EndFrame DEF Outcomes
    <2> QED BY <1>7, <2>1, StepFrame DEF Normalize
  <1>8. CASE Cancel(r) \/ Die(r) \/ Spawn(r) \/ Eof(r) \/ Timeout(r) \/ HelperDies(r)
             \/ DeleteStaging(r) \/ Check(r)
    BY <1>8, CheckFrame
    DEF Cancel, Die, Spawn, Eof, Timeout, HelperDies, DeleteStaging, runVars
  <1> QED BY <1>1, <1>2, <1>3, <1>4, <1>5, <1>6, <1>7, <1>8, PublishingFrame
          DEF Acts, Bookkeeping, InStaging

LEMMA MakerPreserved ==
  ASSUME TypeOK, CallInv, MakerInv, NEW r \in Runs, Acts(r)
  PROVE  MakerInv'
  <1>0. Calling(r)
    BY DEF CallInv
  <1>1. ASSUME NEW n \in Nodes, NEW q \in Runs, staging'[n].by = q
        PROVE  made'[q] /\ src'[q] = n
    <2>1. CASE staging[n].by = q
      <3>1. made[q] /\ src[q] = n
        BY <2>1 DEF MakerInv
      <3>2. CASE q # r
        BY <3>1, <3>2, Others DEF Same
      <3>3. CASE q = r
        BY <1>0, <3>1, <3>3, Grows DEF Calling, Before
      <3> QED BY <3>2, <3>3
    <2>2. CASE staging[n].by # q
      <3>1. n = src[r] /\ q = r /\ pc[r] \in {"mkdir", "restore"} /\ (made'[r] \/ made[r])
        BY <1>0, <1>1, <2>2, StagingFrame DEF Touches, NoDir, Calling, Working
      <3> QED BY <1>0, <3>1, Grows
    <2> QED BY <2>1, <2>2
  <1>2. ASSUME NEW n \in Nodes PROVE staging'[n].has = "none" <=> staging'[n].by = NoRun
    BY <1>0, StagingFrame DEF Touches, NoDir, MakerInv
  <1> QED BY <1>1, <1>2 DEF MakerInv

\* Who owns a directory need not fear the steps of others.
LEMMA OwnedKept ==
  ASSUME TypeOK, CallInv, MakerInv, OwnInv, ~misclaimed, NEW r \in Runs, Acts(r),
         NEW q \in Runs, q # r, Owns(q)
  PROVE  staging'[src[q]] = staging[src[q]]
  <1>1. staging[src[q]].by = q /\ src[q] \in Nodes
    BY DEF OwnInv, TypeOK
  <1>2. staging[src[q]].has # "none"
    BY <1>1 DEF MakerInv
  <1>3. SUFFICES ASSUME src[q] = src[r], Touches(r, staging[src[r]], staging'[src[r]]) PROVE FALSE
    BY <1>1, StagingFrame DEF CallInv
  <1>4. Owns(r)
    BY <1>2, <1>3 DEF Touches, Owns, Using
  <1> QED BY <1>1, <1>3, <1>4 DEF OwnInv

\* A run that owns its directory after a step has just made it or has kept it.
LEMMA OwnsNext ==
  ASSUME TypeOK, NEW r \in Runs, Calling(r), Acts(r), Owns(r)'
  PROVE  \/ misclaimed' \/ staging'[src'[r]].by = r
         \/ Owns(r) /\ src'[r] = src[r] /\ staging'[src[r]].by = staging[src[r]].by
  <1> DEFINE Goal == \/ misclaimed' \/ staging'[src'[r]].by = r
                     \/ Owns(r) /\ src'[r] = src[r] /\ staging'[src[r]].by = staging[src[r]].by
  <1>s. src[r] \in Nodes
    BY DEF TypeOK
  <1>k. ASSUME Owns(r), pc[r] # "none", staging' = staging PROVE Goal
    BY <1>k, Grows
  <1>p. ASSUME NEW has, Put(src[r], has), Owns(r), pc[r] # "none" PROVE Goal
    BY <1>s, <1>p, Grows, PutFrame
  <1>e. ASSUME NEW out \in {"failed", "stopped", "taken", "exists"}, End(r, out), ~made[r],
               pc[r] # "over", pc[r] # "none" PROVE Goal
    BY <1>e, EndFrame DEF Owns, Using, Told, Calling, Outcomes
  <1>1. ASSUME NEW n \in Nodes, Call(r, n) PROVE Goal
    BY <1>1 DEF Call, Calling, TypeOK, Goto, Owns, Using, Told
  <1>2. CASE Cancel(r) \/ Eof(r) \/ Timeout(r)
    <2>1. Owns(r) /\ src'[r] = src[r] /\ staging' = staging
      BY <1>2 DEF Cancel, Eof, Timeout, Owns, Told, diskVars
    <2> QED BY <2>1
  <1>3. CASE Die(r)
    <2>1. pc'[r] \in Using \cup {"unlink", "clean"} => pc[r] = pc'[r]
      BY <1>3 DEF Die, TypeOK, Using
    <2>2. par'[r] = "dead" /\ src' = src /\ staging' = staging
      BY <1>3 DEF Die, TypeOK, diskVars
    <2>3. Owns(r)
      BY <2>1, <2>2 DEF Owns
    <2> QED BY <2>2, <2>3
  <1>4. CASE Check(r)
    BY <1>4, CheckFrame DEF Owns, Using, Told, Calling
  <1>5. CASE Spawn(r) \/ HelperDies(r)
    <2>1. pc'[r] \in {"over", "recheck"} /\ event[r].out = "none" /\ par[r] # "done" /\ par' = par
          /\ event' = event
      BY <1>5 DEF Spawn, HelperDies, Goto, TypeOK, runVars, Calling, Working
    <2> QED BY <2>1 DEF Owns, Using, Told
  <1>6. CASE Verdict(r)
    <2>1. par'[r] = "done" /\ src' = src /\ staging' = staging /\ pc'[r] = "over" /\ par[r] = "running"
      BY <1>6 DEF Verdict, TypeOK, diskVars
    <2>2. res'[r].out # "ok" /\ res'[r].staged
      BY <2>1 DEF Owns, Using
    <2>3. CASE Told(r) /\ event[r].staged
      BY <2>1, <2>3 DEF Owns
    <2>4. CASE ~(Told(r) /\ event[r].staged)
      <3>1. PICK verdict : /\ verdict \in {Result("stopped", Probed(r)), Result("failed", Probed(r)), event[r]}
                           /\ event[r].out = "none" => verdict # event[r]
                           /\ res' = [res EXCEPT ![r] = verdict]
                           /\ misclaimed' = (misclaimed \/ (verdict.out # "ok" /\ Misclaim(r, verdict)))
        BY <1>6, VerdictIs
      <3>2. res'[r] = verdict
        BY <3>1 DEF TypeOK
      <3> QED BY <2>1, <2>2, <2>4, <3>1, <3>2 DEF Probed, Told, Misclaim, Result, TypeOK
    <2> QED BY <2>3, <2>4
  <1>7. CASE Recheck(r)
    <2>1. CASE Goto(r, "mkdir") /\ UNCHANGED runVars
      BY <1>7, <2>1 DEF Recheck, Goto, runVars, TypeOK, Owns, Using, Told, Calling
    <2>2. Blocked(src[r]) \in {"exists", "taken"} /\ ~made[r]
      BY <1>7 DEF Blocked, Recheck, Calling, Before
    <2> QED BY <1>7, <1>e, <2>1, <2>2 DEF Recheck
  <1>8. CASE MkdirStaging(r)
    <2>1. CASE /\ staging' = [staging EXCEPT ![src[r]] = [has |-> "empty", by |-> r]]
               /\ UNCHANGED src
      BY <1>s, <2>1 DEF TypeOK
    <2> QED BY <1>8, <1>e, <2>1 DEF MkdirStaging, Calling, Before
  <1>9. CASE RestoreMore(r)
    BY <1>9, <1>p, StepFrame DEF RestoreMore, Owns, Using
  <1>10. CASE RestoreEnd(r)
    <2>1. CASE staging' = [staging EXCEPT ![src[r]] = [has |-> "hole", by |-> r]]
      BY <1>10, <1>s, <2>1, Grows DEF TypeOK, RestoreEnd, Step
    <2> QED BY <1>10, <1>k, <1>p, <2>1, StepFrame DEF RestoreEnd, Owns, Using, diskVars
  <1>11. CASE Normalize(r)
    BY <1>11, <1>k, <1>p, StepFrame DEF Normalize, Owns, Using, diskVars
  <1>12. CASE MkdirParents(r) \/ Look(r) \/ LinkFile(r)
    BY <1>12, <1>k, StepFrame DEF MkdirParents, Look, LinkFile, Owns, Using, diskVars
  <1>13. CASE RenameDir(r)
    <2>1. CASE Step(r, "move", "clean") /\ src[r] = Root
      BY <2>1, StepFrame DEF Owns, Using, Told, Calling
    <2> QED BY <1>13, <1>k, <1>p, <2>1, StepFrame DEF RenameDir, Owns, Using, diskVars
  <1>14. CASE Unlink(r)
    <2>1. Owns(r)
      BY <1>14, StepFrame DEF Unlink, Calling, Owns
    <2> QED BY <1>14, <1>k, <1>p, <2>1, StepFrame DEF Unlink
  <1>15. CASE Clean(r)
    BY <1>15, EndFrame DEF Clean, Owns, Using, Told, Outcomes, Calling
  <1>16. CASE DeleteStaging(r)
    <2>1. CASE del[r] = "no"
      BY <1>16, <1>k, <1>p, <2>1 DEF DeleteStaging, Owns, Calling
    <2>2. CASE del' = [del EXCEPT ![r] = "done"]
      BY <1>16, <2>2 DEF DeleteStaging, Owns, Using, Calling, TypeOK
    <2> QED BY <1>16, <2>1, <2>2 DEF DeleteStaging
  <1> QED
    BY <1>1, <1>2, <1>3, <1>4, <1>5, <1>6, <1>7, <1>8, <1>9, <1>10, <1>11, <1>12, <1>13, <1>14,
       <1>15, <1>16
    DEF Acts, Bookkeeping, InStaging, Publishing

LEMMA OwnPreserved ==
  ASSUME TypeOK, CallInv, MakerInv, OwnInv, NEW r \in Runs, Acts(r)
  PROVE  OwnInv'
  <1>0. Calling(r)
    BY DEF CallInv
  <1>1. SUFFICES ASSUME ~misclaimed', NEW q \in Runs, Owns(q)' PROVE staging'[src'[q]].by = q
    BY DEF OwnInv
  <1>2. ~misclaimed
    BY <1>0, <1>1, Grows
  <1>3. CASE q = r
    BY <1>0, <1>1, <1>2, <1>3, OwnsNext DEF OwnInv
  <1>4. CASE q # r
    <2>1. Same(q) /\ Owns(q)
      BY <1>1, <1>4, Others DEF Same, Owns, Told
    <2> QED BY <1>2, <1>4, <2>1, OwnedKept DEF Same, OwnInv
  <1> QED BY <1>3, <1>4

\* Bookkeeping brings no run into its staging directory.
LEMMA KeptPlace ==
  ASSUME TypeOK, NEW r \in Runs, Calling(r), Bookkeeping(r),
         pc'[r] \in {"restore", "normalize", "parents", "look", "move"}
  PROVE  pc'[r] = pc[r]
  <1>1. ASSUME NEW n \in Nodes, Call(r, n) PROVE FALSE
    BY <1>1 DEF Call, Goto, TypeOK
  <1>2. CASE Cancel(r) \/ Eof(r) \/ Timeout(r) \/ Verdict(r)
    BY <1>2 DEF Cancel, Eof, Timeout, Verdict
  <1>3. CASE Die(r)
    BY <1>3 DEF Die, TypeOK
  <1>4. CASE Check(r)
    BY <1>4, CheckFrame
  <1>5. CASE Spawn(r) \/ HelperDies(r)
    BY <1>5 DEF Spawn, HelperDies, Goto, TypeOK
  <1>6. CASE Recheck(r)
    <2>1. Blocked(src[r]) \in Outcomes /\ "failed" \in Outcomes
      BY DEF Blocked, Outcomes
    <2> QED BY <1>6, <2>1, EndFrame DEF Recheck, Goto, TypeOK
  <1> QED BY <1>1, <1>2, <1>3, <1>4, <1>5, <1>6 DEF Bookkeeping

LEMMA ContentPreserved ==
  ASSUME TypeOK, CallInv, MakerInv, OwnInv, ContentInv, NEW r \in Runs, Acts(r)
  PROVE  ContentInv'
  <1>0. Calling(r)
    BY DEF CallInv
  <1>t. TypeOK'
    BY NextCases, BookkeepingType, InStagingType, PublishingType, DeleteType DEF Acts
  <1>1. SUFFICES ASSUME ~misclaimed', NEW q \in Runs PROVE staging'[src'[q]].has \in HasBy(q)'
    BY DEF ContentInv
  <1>2. ~misclaimed /\ staging[src[q]].has \in HasBy(q)
    BY <1>0, <1>1, Grows DEF ContentInv
  <1>3. staging'[src'[q]].has \in Contents
    BY <1>t DEF TypeOK
  <1>4. CASE q # r
    <2>1. CASE pc[q] \in Using
      BY <1>2, <1>4, <2>1, Others, OwnedKept DEF Same, Owns, HasBy
    <2>2. CASE pc[q] \notin Using
      BY <1>3, <1>4, <2>2, Others DEF Same, HasBy, Using
    <2> QED BY <2>1, <2>2
  <1>5. CASE q = r
    <2>s. src[r] \in Nodes /\ pc[r] \in Steps
      BY DEF TypeOK
    <2>n. CASE pc'[r] \notin Using
      BY <1>3, <1>5, <2>n DEF HasBy, Using
    <2>u. CASE pc'[r] \in Using
      <3>u. pc'[r] \in {"restore", "normalize", "parents", "look", "move"}
        BY <2>u DEF Using
      <3>e. ASSUME NEW out \in Outcomes, End(r, out) PROVE FALSE
        BY <3>u, <3>e, EndFrame
      <3>1. CASE Bookkeeping(r)
        <4>1. pc'[r] = pc[r]
          BY <1>0, <3>1, <3>u, KeptPlace
        <4>2. staging' = staging /\ src'[r] = src[r]
          BY <1>0, <3>1, <3>u, <4>1, BookkeepingFrame, Grows DEF diskVars, Acts
        <4> QED BY <1>2, <1>5, <4>1, <4>2 DEF HasBy
      <3>2. CASE MkdirStaging(r)
        <4>1. /\ staging' = [staging EXCEPT ![src[r]] = [has |-> "empty", by |-> r]]
              /\ src' = src /\ pc'[r] = "restore"
          BY <3>2, <3>e, <2>s DEF MkdirStaging, Outcomes, Goto, TypeOK
        <4>2. staging'[src[r]].has = "empty"
          BY <4>1, <2>s DEF TypeOK
        <4> QED BY <1>5, <4>1, <4>2 DEF HasBy
      <3>3. CASE RestoreMore(r)
        BY <1>5, <2>s, <3>3, StepFrame, PutFrame DEF RestoreMore, HasBy
      <3>4. CASE RestoreEnd(r)
        <4>1. pc[r] = "restore" /\ pc'[r] = "normalize" /\ src' = src
          BY <3>4, <3>e, StepFrame DEF RestoreEnd, Outcomes
        <4>2. staging[src[r]].has \in {"empty", "part"}
          BY <1>2, <1>5, <4>1 DEF HasBy
        <4>3. \/ Put(src[r], "restored")
              \/ src[r] # Root /\ staging[src[r]].has = "empty" /\ UNCHANGED staging
          BY <3>4, <3>e, <4>2 DEF RestoreEnd, Outcomes
        <4> QED BY <1>5, <2>s, <4>1, <4>3, PutFrame DEF HasBy
      <3>5. CASE Normalize(r)
        <4>1. pc[r] = "normalize" /\ pc'[r] = "parents" /\ src' = src
          BY <3>5, <3>e, StepFrame DEF Normalize, Outcomes
        <4>2. IF staging[src[r]].has = "restored" THEN Put(src[r], "whole") ELSE UNCHANGED staging
          BY <3>5, <3>e DEF Normalize, Outcomes
        <4> QED BY <1>2, <1>5, <2>s, <4>1, <4>2, PutFrame DEF HasBy
      <3>6. CASE MkdirParents(r) \/ Look(r)
        <4>1. pc[r] \in {"parents", "look"} /\ pc'[r] \in {"look", "move"} /\ src' = src
              /\ staging' = staging
          BY <3>6, <3>e, StepFrame DEF MkdirParents, Look, Outcomes, diskVars
        <4> QED BY <1>2, <1>5, <4>1 DEF HasBy
      <3>7. CASE RenameDir(r) \/ LinkFile(r) \/ Unlink(r) \/ Clean(r)
        BY <3>7, <3>e, <3>u, StepFrame DEF RenameDir, LinkFile, Unlink, Clean, Outcomes
      <3>8. CASE DeleteStaging(r)
        BY <1>0, <3>8, <3>u DEF DeleteStaging, Calling
      <3> QED BY <3>1, <3>2, <3>3, <3>4, <3>5, <3>6, <3>7, <3>8 DEF Acts, InStaging, Publishing
    <2> QED BY <2>n, <2>u
  <1> QED BY <1>4, <1>5

\* Steps after which a call has returned.
LEMMA Returns ==
  ASSUME TypeOK, NEW r \in Runs, Calling(r), Acts(r), par'[r] = "done"
  PROVE  \/ DeleteStaging(r) \/ Check(r) \/ Verdict(r)
         \/ par[r] # "done" /\ \E out \in Outcomes : End(r, out)
  <1>0. par[r] = "done" => pc[r] = "over"
    BY DEF Calling
  <1>1. ASSUME NEW n \in Nodes, Call(r, n) PROVE FALSE
    BY <1>1 DEF Call, TypeOK
  <1>2. CASE Cancel(r) \/ Die(r)
    BY <1>2 DEF Cancel, Die, TypeOK
  <1>3. CASE Eof(r) \/ Timeout(r) \/ Spawn(r) \/ HelperDies(r)
    BY <1>3 DEF Eof, Timeout, Spawn, HelperDies, runVars, Calling, Working
  <1>4. ASSUME NEW from \in Steps \ {"over"}, NEW to, Step(r, from, to) PROVE FALSE
    BY <1>4, StepFrame DEF Calling
  <1>5. /\ {"restore", "normalize", "parents", "look", "move", "unlink", "clean"} \subseteq Steps \ {"over"}
        /\ {"stopped", "failed", "exists", "taken", "ok"} \subseteq Outcomes
        /\ Blocked(src[r]) \in Outcomes
    BY DEF Steps, Working, Outcomes, Blocked
  <1>6. CASE Recheck(r)
    <2>1. CASE Goto(r, "mkdir") /\ UNCHANGED runVars
      BY <1>6, <2>1 DEF Recheck, runVars, Calling
    <2> QED BY <1>0, <1>5, <1>6, <2>1 DEF Recheck
  <1>7. CASE MkdirStaging(r)
    <2>1. CASE UNCHANGED par
      BY <1>7, <2>1 DEF MkdirStaging, Calling
    <2> QED BY <1>0, <1>5, <1>7, <2>1 DEF MkdirStaging
  <1>8. CASE RestoreMore(r) \/ RestoreEnd(r) \/ Normalize(r)
    BY <1>0, <1>4, <1>5, <1>8 DEF RestoreMore, RestoreEnd, Normalize
  <1>9. CASE Publishing(r)
    BY <1>0, <1>4, <1>5, <1>9
    DEF Publishing, MkdirParents, Look, RenameDir, LinkFile, Unlink, Clean
  <1> QED BY <1>1, <1>2, <1>3, <1>6, <1>7, <1>8, <1>9 DEF Acts, Bookkeeping, InStaging

LEMMA LeftoverPreserved ==
  ASSUME TypeOK, CallInv, MakerInv, MakerInv', LeftoverReported, NEW r \in Runs, Acts(r)
  PROVE  LeftoverReported'
  <1>0. Calling(r)
    BY DEF CallInv
  <1>1. SUFFICES ASSUME NEW q \in Runs, par'[q] = "done", res'[q].out # "ok",
                        staging'[src'[q]].by = q
                 PROVE  res'[q].staged
    BY DEF LeftoverReported, Exists
  <1>m. made'[q] /\ src[q] \in Nodes /\ src'[q] \in Nodes
    <2>1. TypeOK'
      BY NextCases, BookkeepingType, InStagingType, PublishingType, DeleteType DEF Acts
    <2>2. src \in [Runs -> Nodes] /\ src' \in [Runs -> Nodes]
      BY <2>1 DEF TypeOK
    <2>3. src[q] \in Nodes /\ src'[q] \in Nodes
      BY <2>2
    <2> QED BY <1>1, <2>3 DEF MakerInv
  <1>2. ASSUME par[q] = "done", res'[q] = res[q], staging[src[q]].by = q PROVE res'[q].staged
    <2>1. staging[src[q]].has # "none"
      BY <1>2, <1>m DEF MakerInv
    <2> QED BY <1>1, <1>2, <2>1 DEF LeftoverReported, Exists
  <1>3. CASE q # r
    <2>1. Same(q)
      BY <1>3, Others
    <2>2. staging[src[q]].by = q
      BY <1>0, <1>1, <1>3, <1>m, <2>1, StagingFrame DEF Same, Touches, NoDir
    <2> QED BY <1>1, <1>2, <2>1, <2>2 DEF Same
  <1>4. CASE q = r
    <2>e. ASSUME NEW out \in Outcomes, End(r, out), par[r] # "done" PROVE res'[r].staged
      <3>1. r \notin Sudo
        BY <1>1, <1>4, <2>e, EndFrame
      <3> QED BY <1>4, <1>m, <2>e, <3>1, EndFrame
    <2>1. CASE Check(r)
      BY <1>0, <1>1, <1>4, <1>m, <2>1, CheckFrame DEF Calling, Before
    <2>2. CASE Verdict(r)
      <3>1. src' = src /\ staging' = staging /\ made' = made
        BY <2>2 DEF Verdict, diskVars
      <3>2. staging[src[r]].has # "none"
        BY <1>1, <1>4, <1>m, <3>1 DEF MakerInv
      <3>3. CASE Told(r)
        <4>1. event[r].staged
          BY <1>0, <1>4, <1>m, <3>1, <3>3 DEF Calling, Told
        <4> QED BY <1>1, <1>4, <2>2, <3>3, <4>1 DEF Verdict, Told, Result, TypeOK
      <3>4. CASE ~Told(r)
        <4>1. PICK verdict : /\ verdict \in {Result("stopped", Probed(r)), Result("failed", Probed(r)), event[r]}
                             /\ event[r].out = "none" => verdict # event[r]
                             /\ res' = [res EXCEPT ![r] = verdict]
          BY <1>4, <2>2, VerdictIs
        <4>2. res'[r] = verdict
          BY <4>1 DEF TypeOK
        <4>3. Probed(r) = TRUE
          BY <3>2, <3>4 DEF Probed, Exists
        <4>4. Result("stopped", TRUE).staged /\ Result("failed", TRUE).staged
          BY DEF Result
        <4>5. verdict # event[r]
          BY <1>1, <1>4, <3>4, <4>1, <4>2 DEF Told
        <4> QED BY <1>4, <4>1, <4>2, <4>3, <4>4, <4>5
      <3> QED BY <3>3, <3>4
    <2>3. CASE DeleteStaging(r)
      <3>1. par[q] = "done" /\ res'[q] = res[q] /\ src'[q] = src[q] /\ pc[q] = "over"
        BY <1>0, <1>4, <2>3 DEF DeleteStaging, Calling
      <3>2. staging[src[q]].by = q
        BY <1>0, <1>1, <1>4, <1>m, <3>1, StagingFrame DEF Touches, NoDir
      <3> QED BY <1>2, <1>4, <3>1, <3>2
    <2> QED BY <1>0, <1>1, <1>4, <2>e, <2>1, <2>2, <2>3, Returns
  <1> QED BY <1>3, <1>4
-----------------------------------------------------------------------------
(* The mirror *)

\* Below is downwards closed; above a node below n are n, what is above n and
\* what is below n.
LEMMA Tree ==
  ASSUME NEW n \in Nodes, NEW x \in Below(n)
  PROVE  /\ x \in Nodes /\ n \in Up[x] /\ x # n /\ x \notin Up[n]
         /\ Below(x) \subseteq Below(n)
         /\ \A a \in Up[x] : a = n \/ a \in Up[n] \/ a \in Below(n)
  <1>1. x \in Nodes /\ n \in Up[x] /\ x # n
    BY DEF Below
  <1>2. \A y \in Nodes : Up[y] \subseteq Nodes
    OBVIOUS
  <1>3. x \notin Up[n]
    BY <1>1
  <1>4. Below(x) \subseteq Below(n)
    BY <1>1, <1>2 DEF Below
  <1>5. \A a \in Up[x] : a = n \/ a \in Up[n] \/ n \in Up[a]
    BY <1>1
  <1> QED BY <1>1, <1>2, <1>3, <1>4, <1>5 DEF Below

LEMMA PublishFrame ==
  ASSUME TypeOK, NEW r \in Runs, Publishes(r)
  PROVE  /\ src[r] \in Nodes
         /\ mirror'[src[r]] = r /\ \A x \in Below(src[r]) : mirror'[x] = r
         /\ \A x \in Nodes : x # src[r] /\ x \notin Below(src[r]) => mirror'[x] = mirror[x]
         /\ got'[r] = staging[src[r]].has
  <1>1. src[r] \in Nodes
    BY DEF TypeOK
  <1> QED BY <1>1, Tree DEF Publishes, Publish, TypeOK

LEMMA GotFrame ==
  ASSUME TypeOK, NEW r \in Runs, Acts(r), NEW q \in Runs, q # r \/ ~Publishes(r)
  PROVE  got'[q] = got[q]
  <1>1. got' = got \/ (q # r /\ got' = [got EXCEPT ![r] = staging[src[r]].has])
    BY MirrorFrame DEF Publishes, Publish
  <1> QED BY <1>1 DEF TypeOK

\* What is there stays there, as something.
LEMMA MirrorGrows ==
  ASSUME TypeOK, NEW r \in Runs, Acts(r), NEW n \in Nodes, mirror[n] # "none"
  PROVE  mirror'[n] # "none"
  <1>1. CASE Publishes(r)
    <2>1. r # "none"
      OBVIOUS
    <2> QED BY <1>1, <2>1, PublishFrame
  <1> QED BY <1>1, MirrorFrame

LEMMA AtTarget ==
  ASSUME TypeOK, NEW r \in Runs, Calling(r), Acts(r), pc'[r] \in {"look", "move"}
  PROVE  \/ pc[r] \in {"look", "move"}
         \/ pc[r] = "parents"
            /\ mirror' = [n \in Nodes |-> IF n \in Up[src[r]] /\ mirror[n] = "none" THEN "made"
                                          ELSE mirror[n]]
  <1>0. {"failed", "stopped", "exists", "taken", "ok"} \subseteq Outcomes
    BY DEF Outcomes
  <1>e. ASSUME NEW out \in Outcomes, End(r, out) PROVE FALSE
    BY <1>e, EndFrame
  <1>1. CASE Bookkeeping(r)
    BY <1>1, KeptPlace
  <1>2. CASE MkdirStaging(r)
    BY <1>0, <1>2, <1>e DEF MkdirStaging, Goto, TypeOK
  <1>3. CASE RestoreMore(r) \/ RestoreEnd(r) \/ Normalize(r)
    BY <1>0, <1>3, <1>e, StepFrame DEF RestoreMore, RestoreEnd, Normalize
  <1>4. CASE MkdirParents(r)
    BY <1>0, <1>4, <1>e, StepFrame DEF MkdirParents
  <1>5. CASE Look(r) \/ RenameDir(r) \/ LinkFile(r)
    BY <1>0, <1>5, <1>e, StepFrame DEF Look, RenameDir, LinkFile
  <1>6. CASE Unlink(r) \/ Clean(r)
    BY <1>0, <1>6, <1>e, StepFrame DEF Unlink, Clean
  <1>7. CASE DeleteStaging(r)
    BY <1>7 DEF DeleteStaging
  <1> QED BY <1>1, <1>2, <1>3, <1>4, <1>5, <1>6, <1>7 DEF Acts, InStaging, Publishing

LEMMA TreePreserved ==
  ASSUME TypeOK, CallInv, TreeInv, NEW r \in Runs, Acts(r)
  PROVE  TreeInv'
  <1>0. Calling(r) /\ src[r] \in Nodes /\ \A n \in Nodes : Up[n] \subseteq Nodes
    BY DEF CallInv, TypeOK
  <1>1. ASSUME NEW n \in Nodes, mirror'[n] \in Runs, NEW x \in Below(n)
        PROVE  mirror'[x] # "none"
    <2>1. x \in Nodes
      BY Tree
    <2>2. CASE mirror[n] = mirror'[n]
      BY <1>1, <2>1, <2>2, MirrorGrows DEF TreeInv
    <2>3. CASE mirror[n] # mirror'[n]
      <3>1. Publishes(r)
        BY <1>1, <2>3, MirrorFrame
      <3>2. n = src[r] \/ n \in Below(src[r])
        BY <2>3, <3>1, PublishFrame
      <3>3. x \in Below(src[r])
        BY <1>0, <3>2, Tree
      <3> QED BY <3>1, <3>3, PublishFrame
    <2> QED BY <2>2, <2>3
  <1>2. ASSUME NEW n \in Nodes, mirror'[n] # "none", NEW a \in Up[n]
        PROVE  mirror'[a] # "none"
    <2>1. a \in Nodes
      BY <1>0
    <2>2. CASE mirror[n] # "none" \/ mirror[a] # "none"
      BY <2>1, <2>2, MirrorGrows DEF TreeInv
    <2>3. CASE mirror[n] = "none" /\ mirror[a] = "none"
      <3>1. CASE Publishes(r)
        <4>1. n = src[r] \/ n \in Below(src[r])
          BY <1>2, <2>3, <3>1, PublishFrame
        <4>2. \A b \in Up[src[r]] : mirror[b] # "none"
          BY <3>1 DEF TreeInv, Publishes
        <4>3. a = src[r] \/ a \in Below(src[r])
          BY <1>0, <2>3, <4>1, <4>2, Tree
        <4>4. r # "none"
          OBVIOUS
        <4> QED BY <3>1, <4>3, <4>4, PublishFrame
      <3>2. CASE mirror' = [x \in Nodes |-> IF x \in Up[src[r]] /\ mirror[x] = "none" THEN "made"
                                            ELSE mirror[x]]
        <4>1. n \in Up[src[r]]
          BY <1>2, <2>3, <3>2
        <4>2. a \in Up[src[r]]
          BY <1>0, <4>1
        <4> QED BY <2>1, <3>2, <4>2
      <3> QED BY <1>2, <2>3, <3>1, <3>2, MirrorFrame
    <2> QED BY <2>2, <2>3
  <1>3. ASSUME NEW q \in Runs, pc'[q] \in {"look", "move"}, NEW a \in Up[src'[q]]
        PROVE  mirror'[a] # "none"
    <2>1. src[q] \in Nodes /\ Up[src[q]] \subseteq Nodes
      BY DEF TypeOK
    <2>2. CASE pc[q] \in {"look", "move"} /\ src'[q] = src[q]
      BY <1>3, <2>1, <2>2, MirrorGrows DEF TreeInv
    <2>3. CASE q = r
      <3>1. src'[r] = src[r]
        BY <1>0, <1>3, <2>3, AtTarget, Grows
      <3>2. CASE mirror' = [n \in Nodes |-> IF n \in Up[src[r]] /\ mirror[n] = "none" THEN "made"
                                            ELSE mirror[n]]
        BY <1>3, <2>1, <2>3, <3>1, <3>2
      <3> QED BY <1>0, <1>3, <2>2, <2>3, <3>1, <3>2, AtTarget
    <2>4. CASE q # r
      BY <1>3, <2>2, <2>4, Others DEF Same
    <2> QED BY <2>3, <2>4
  <1> QED BY <1>1, <1>2, <1>3 DEF TreeInv

\* No step puts something in another's place, except that an empty directory
\* is replaced by a directory.
LEMMA KeptStep ==
  ASSUME TypeOK, TreeInv, NEW r \in Runs, Acts(r), NEW n \in Nodes
  PROVE  mirror'[n] = mirror[n] \/ mirror[n] = "none" \/ (EmptyDir(n) /\ mirror'[n] = r)
  <1>1. CASE Publishes(r)
    <2>1. CASE n = src[r]
      BY <1>1, <2>1, PublishFrame DEF Publishes
    <2>2. CASE n \in Below(src[r])
      <3>1. src[r] \in Nodes /\ src[r] \in Up[n]
        BY <1>1, <2>2, PublishFrame DEF Below
      <3>2. mirror[src[r]] = "none" => mirror[n] = "none"
        BY <3>1 DEF TreeInv
      <3>3. EmptyDir(src[r]) => mirror[n] = "none"
        BY <2>2 DEF EmptyDir
      <3> QED BY <1>1, <3>2, <3>3 DEF Publishes
    <2> QED BY <1>1, <2>1, <2>2, PublishFrame
  <1>2. CASE ~Publishes(r)
    BY <1>2, MirrorFrame
  <1> QED BY <1>1, <1>2

\* Where a success comes from.
LEMMA Successful ==
  ASSUME TypeOK, NEW r \in Runs, Calling(r), Acts(r),
         pc'[r] \in {"unlink", "clean"} \/ event'[r].out = "ok" \/ res'[r].out = "ok"
  PROVE  \/ Publishes(r)
         \/ /\ pc[r] \in {"unlink", "clean"} \/ event[r].out = "ok" \/ res[r].out = "ok"
            /\ src'[r] = src[r] /\ UNCHANGED <<mirror, got>>
  <1> DEFINE Had == pc[r] \in {"unlink", "clean"} \/ event[r].out = "ok" \/ res[r].out = "ok"
  <1> DEFINE Goal == \/ Publishes(r)
                     \/ Had /\ src'[r] = src[r] /\ UNCHANGED <<mirror, got>>
  <1>0. {"failed", "stopped", "exists", "taken", "ok"} \subseteq Outcomes
    BY DEF Outcomes
  <1>h. ASSUME Had, UNCHANGED <<mirror, got>> PROVE Goal
    <2>1. pc[r] # "none"
      BY <1>h DEF Calling
    <2> QED BY <1>h, <2>1, Grows
  <1>e. ASSUME NEW out \in Outcomes \ {"ok"}, End(r, out), UNCHANGED <<mirror, got>> PROVE Goal
    BY <1>e, <1>h, EndFrame
  <1>1. ASSUME NEW n \in Nodes, Call(r, n) PROVE FALSE
    BY <1>1 DEF Call, Calling, Goto, TypeOK
  <1>2. CASE Cancel(r) \/ Eof(r) \/ Timeout(r)
    BY <1>2, <1>h DEF Cancel, Eof, Timeout, diskVars
  <1>3. CASE Die(r)
    BY <1>3, <1>h DEF Die, TypeOK, diskVars
  <1>4. CASE Check(r)
    BY <1>4, <1>h, CheckFrame
  <1>5. CASE Spawn(r) \/ HelperDies(r)
    <2>1. pc'[r] \notin {"unlink", "clean"} /\ event' = event /\ res' = res
          /\ UNCHANGED <<mirror, got>>
      BY <1>5 DEF Spawn, HelperDies, Goto, TypeOK, runVars, diskVars
    <2> QED BY <1>h, <2>1
  <1>6. CASE Verdict(r)
    <2>1. pc' = pc /\ event' = event /\ UNCHANGED <<mirror, got>>
      BY <1>6 DEF Verdict, diskVars
    <2>2. res'[r].out = "ok" => event[r].out = "ok"
      BY <1>6 DEF Verdict, Result, TypeOK
    <2> QED BY <1>h, <2>1, <2>2
  <1>7. CASE Recheck(r)
    <2>1. CASE Goto(r, "mkdir") /\ UNCHANGED runVars
      BY <1>7, <2>1, <1>h DEF Recheck, runVars, Goto, TypeOK, diskVars
    <2>2. Blocked(src[r]) \in Outcomes \ {"ok"}
      BY <1>0 DEF Blocked
    <2> QED BY <1>0, <1>7, <1>e, <2>1, <2>2 DEF Recheck, diskVars
  <1>8. CASE MkdirStaging(r)
    <2>1. CASE Goto(r, "restore") /\ UNCHANGED <<event, res>>
      BY <1>8, <2>1, <1>h DEF MkdirStaging, Goto, TypeOK
    <2> QED BY <1>0, <1>8, <1>e, <2>1 DEF MkdirStaging
  <1>s. ASSUME NEW from, NEW to, Step(r, from, to), to \notin {"unlink", "clean"} \/ from = "unlink",
               UNCHANGED <<mirror, got>> PROVE Goal
    BY <1>s, <1>h, StepFrame
  <1>9. CASE RestoreMore(r) \/ RestoreEnd(r) \/ Normalize(r)
    BY <1>0, <1>9, <1>s, <1>e DEF RestoreMore, RestoreEnd, Normalize, diskVars
  <1>10. CASE MkdirParents(r)
    <2>1. CASE Step(r, "parents", IF src[r] \in Dirs THEN "look" ELSE "move")
      <3>1. pc[r] = "parents" /\ pc'[r] \in {"look", "move"} /\ event' = event /\ res' = res
        BY <2>1, StepFrame
      <3> QED BY <3>1 DEF Calling
    <2> QED BY <1>0, <1>10, <1>e, <2>1 DEF MkdirParents, diskVars
  <1>11. CASE Look(r) \/ Unlink(r)
    BY <1>0, <1>11, <1>s, <1>e DEF Look, Unlink, diskVars
  <1>12. CASE RenameDir(r) \/ LinkFile(r)
    BY <1>0, <1>12, <1>e, StepFrame DEF RenameDir, LinkFile, Publishes, diskVars
  <1>13. CASE Clean(r)
    BY <1>13, <1>h DEF Clean
  <1>14. CASE DeleteStaging(r)
    BY <1>14, <1>h DEF DeleteStaging
  <1> QED
    BY <1>1, <1>2, <1>3, <1>4, <1>5, <1>6, <1>7, <1>8, <1>9, <1>10, <1>11, <1>12, <1>13, <1>14
    DEF Acts, Bookkeeping, InStaging, Publishing

LEMMA PublishedPreserved ==
  ASSUME TypeOK, CallInv, TreeInv, PublishedInv, NEW r \in Runs, Acts(r)
  PROVE  PublishedInv'
  <1>1. ASSUME NEW q \in Runs, Published(q), src'[q] = src[q], got'[q] = got[q]
        PROVE  Published(q)'
    <2>1. src[q] \in Nodes /\ Dirs \subseteq Nodes
      BY DEF TypeOK
    <2>2. \/ mirror'[src[q]] = mirror[src[q]]
          \/ mirror[src[q]] = "none"
          \/ EmptyDir(src[q]) /\ mirror'[src[q]] = r
      BY <2>1, KeptStep
    <2>3. CASE mirror'[src[q]] = mirror[src[q]]
      BY <1>1, <2>3 DEF Published
    <2>4. CASE mirror[src[q]] = "none"
      <3>1. mirror'[src[q]] \in {"none", "made", r}
        BY <2>1, <2>4, MirrorFrame, PublishFrame
      <3> QED BY <1>1, <2>4, <3>1 DEF Published
    <2>5. CASE EmptyDir(src[q]) /\ mirror'[src[q]] = r
      <3>1. mirror[src[q]] = q => Below(src[q]) = {}
        BY <2>1, <2>5 DEF EmptyDir, TreeInv
      <3> QED BY <1>1, <2>5, <3>1 DEF Published, EmptyDir
    <2> QED BY <2>2, <2>3, <2>4, <2>5
  <1>2. ASSUME NEW q \in Runs,
               pc'[q] \in {"unlink", "clean"} \/ event'[q].out = "ok" \/ res'[q].out = "ok"
        PROVE  Published(q)'
    <2>1. CASE q # r
      <3>1. Same(q) /\ Published(q)
        BY <1>2, <2>1, Others DEF Same, PublishedInv
      <3>2. got'[q] = got[q]
        BY <2>1, GotFrame
      <3> QED BY <1>1, <3>1, <3>2 DEF Same
    <2>2. CASE q = r
      <3>1. CASE Publishes(r)
        <4>1. staging[src[r]].has # "none"
          BY <3>1 DEF Publishes, HasNode, Exists
        <4> QED BY <2>2, <3>1, <4>1, PublishFrame DEF Published, Publishes
      <3>2. CASE ~Publishes(r)
        <4>1. Published(r) /\ src'[r] = src[r] /\ UNCHANGED <<mirror, got>>
          BY <1>2, <2>2, <3>2, Successful DEF PublishedInv, CallInv
        <4> QED BY <1>1, <2>2, <4>1
      <3> QED BY <3>1, <3>2
    <2> QED BY <2>1, <2>2
  <1> QED BY <1>2 DEF PublishedInv

LEMMA WholePreserved ==
  ASSUME TypeOK, CallInv, ContentInv, PublishedWhole, NEW r \in Runs, Acts(r)
  PROVE  PublishedWhole'
  <1>1. SUFFICES ASSUME ~misclaimed', NEW q \in Runs PROVE got'[q] \in {"none", "whole"}
    BY DEF PublishedWhole
  <1>2. ~misclaimed
    BY <1>1, Grows DEF CallInv
  <1>3. got[q] \in {"none", "whole"}
    BY <1>2 DEF PublishedWhole
  <1>4. CASE Publishes(r) /\ q = r
    <2>1. staging[src[r]].has \in {"whole"} \cup (IF src[r] = Root THEN {} ELSE {"empty"})
      BY <1>2, <1>4 DEF ContentInv, HasBy, Publishes
    <2>2. staging[src[r]].has = "whole"
      BY <1>4, <2>1 DEF Publishes, HasNode
    <2> QED BY <1>4, <2>2, PublishFrame
  <1>5. CASE ~(Publishes(r) /\ q = r)
    BY <1>3, <1>5, GotFrame
  <1> QED BY <1>4, <1>5
-----------------------------------------------------------------------------
(* The invariant and what follows *)

LEMMA InitIInv ==
  ASSUME Init
  PROVE  IInv
  <1>0. \A n \in Nodes : mirror[n] \in {"none", "made", "other"}
    BY DEF Init
  <1>1. TypeOK
    <2>1. mirror \in [Nodes -> Occupants]
      BY DEF Init, Occupants
    <2>2. /\ NoDir \in [has : Contents, by : Runs \cup {NoRun}]
          /\ NoResult \in [out : Outcomes, staged : BOOLEAN]
      BY DEF NoDir, Contents, NoResult, Result, Outcomes
    <2>3. /\ staging \in [Nodes -> [has : Contents, by : Runs \cup {NoRun}]]
          /\ event \in [Runs -> [out : Outcomes, staged : BOOLEAN]]
          /\ res \in [Runs -> [out : Outcomes, staged : BOOLEAN]]
      BY <2>2 DEF Init
    <2> QED BY <2>1, <2>3 DEF Init, TypeOK, Steps, Contents
  <1>2. CallInv
    BY DEF Init, CallInv, Calling, NoResult, Result, Before, Working
  <1>3. MakerInv
    BY DEF Init, MakerInv, NoDir
  <1>4. OwnInv
    BY DEF Init, OwnInv, Owns, Using, Told
  <1>5. ContentInv
    BY DEF Init, ContentInv, HasBy, NoDir, Contents
  <1>6. TreeInv
    <2>1. \A n \in Nodes : mirror[n] # "none" => \A a \in Up[n] : mirror[a] # "none"
      BY DEF Init
    <2> QED BY <1>0, <2>1 DEF Init, TreeInv
  <1>7. PublishedInv
    BY DEF Init, PublishedInv, NoResult, Result
  <1>8. PublishedWhole /\ LeftoverReported
    BY DEF Init, PublishedWhole, LeftoverReported
  <1> QED BY <1>1, <1>2, <1>3, <1>4, <1>5, <1>6, <1>7, <1>8 DEF IInv

LEMMA NextIInv ==
  ASSUME IInv, [Next]_vars
  PROVE  IInv'
  <1> USE DEF IInv
  <1>1. CASE Next
    <2>1. PICK r \in Runs : Acts(r)
      BY <1>1, NextCases DEF Acts
    <2>2. TypeOK'
      BY <1>1, TypePreserved
    <2>3. CallInv'
      BY <2>1, CallPreserved
    <2>4. MakerInv'
      BY <2>1, MakerPreserved
    <2>5. OwnInv' /\ ContentInv'
      BY <2>1, OwnPreserved, ContentPreserved
    <2>6. TreeInv'
      BY <2>1, TreePreserved
    <2>7. PublishedInv'
      BY <2>1, PublishedPreserved
    <2>8. PublishedWhole'
      BY <2>1, WholePreserved
    <2>9. LeftoverReported'
      BY <2>1, <2>4, LeftoverPreserved
    <2> QED BY <2>2, <2>3, <2>4, <2>5, <2>6, <2>7, <2>8, <2>9
  <1>2. CASE UNCHANGED vars
    <2> USE <1>2 DEF vars, runVars, diskVars
    <2>1. TypeOK' /\ CallInv' /\ MakerInv'
      BY DEF TypeOK, CallInv, Calling, MakerInv
    <2>2. OwnInv' /\ ContentInv'
      BY DEF OwnInv, Owns, Told, ContentInv, HasBy
    <2>3. TreeInv' /\ PublishedInv'
      BY DEF TreeInv, PublishedInv, Published
    <2>4. PublishedWhole' /\ LeftoverReported'
      BY DEF PublishedWhole, LeftoverReported, Exists
    <2> QED BY <2>1, <2>2, <2>3, <2>4
  <1> QED BY <1>1, <1>2

\* The invariant that the others follow from.
THEOREM Invariance == Spec => []IInv
  BY InitIInv, NextIInv, PTL DEF Spec

\* Variables keep their types.
THEOREM TypeCorrect == Spec => []TypeOK
  BY Invariance, PTL DEF IInv

\* What is published is the whole source, for any tree and any number of runs,
\* unless a staging directory was deleted by one who had not made it.
THEOREM Whole == Spec => []PublishedWhole
  BY Invariance, PTL DEF IInv

\* Two pipelines never work in one staging directory, under the same proviso.
THEOREM OneMaker == Spec => []OneOwner
  <1>1. IInv => OneOwner
    BY DEF IInv, OwnInv, OneOwner, Owns, Using
  <1> QED BY <1>1, Invariance, PTL

\* What Extract calls a success is at its target.
THEOREM OkPublished == Spec => []OkMeansPublished
  <1>1. IInv => OkMeansPublished
    BY DEF IInv, PublishedInv, OkMeansPublished, Published, EmptyDir
  <1> QED BY <1>1, Invariance, PTL

\* A run without success that leaves its staging directory behind says so.
THEOREM Leftover == Spec => []LeftoverReported
  BY Invariance, PTL DEF IInv

\* Nothing at a target is replaced but an empty directory.
THEOREM Kept == Spec => TargetKept
  <1>1. ASSUME IInv, [Next]_vars, NEW n \in Nodes
        PROVE  mirror'[n] = mirror[n] \/ mirror[n] = "none" \/ EmptyDir(n)
    <2>1. CASE Next
      <3>1. PICK r \in Runs : Acts(r)
        BY <2>1, NextCases DEF Acts
      <3> QED BY <1>1, <3>1, KeptStep DEF IInv
    <2>2. CASE UNCHANGED vars
      BY <2>2 DEF vars, diskVars
    <2> QED BY <1>1, <2>1, <2>2
  <1>2. IInv /\ [Next]_vars =>
          [\A n \in Nodes :
              mirror'[n] = mirror[n] \/ mirror[n] = "none" \/ EmptyDir(n)]_vars
    BY <1>1
  <1> QED BY <1>2, Invariance, PTL DEF Spec, TargetKept
-----------------------------------------------------------------------------
(* What is promised of the targets *)

After == {"unlink", "clean", "over"}

\* A run publishes once.
OnceInv == \A r \in Runs : pc[r] \notin After => got[r] = "none"

\* What a step does to its own call: it asks, it answers, or it is in between.
Answers(r) ==
    /\ par[r] = "running" /\ par'[r] = "done" /\ src' = src /\ pc'[r] = "over" /\ UNCHANGED <<mirror, got>>
    /\ misclaimed' = misclaimed \/ (misclaimed' = TRUE /\ res'[r].out # "ok")
GoesOn(r) ==
    /\ par'[r] = par[r] \/ (par[r] = "running" /\ par'[r] = "dead")
    /\ res'[r] = res[r] /\ src' = src /\ misclaimed' = misclaimed
    /\ pc[r] \in After => pc'[r] \in After

LEMMA CallFrame ==
  ASSUME TypeOK, NEW r \in Runs, Calling(r), Acts(r)
  PROVE  (\E n \in Nodes : Call(r, n)) \/ Answers(r) \/ GoesOn(r)
  <1> DEFINE Goal == (\E n \in Nodes : Call(r, n)) \/ Answers(r) \/ GoesOn(r)
  <1>0. {"failed", "stopped", "exists", "taken", "ok"} \subseteq Outcomes
    BY DEF Outcomes
  <1>e. ASSUME NEW out \in Outcomes, End(r, out), UNCHANGED <<mirror, got>>, pc[r] \notin {"none", "over"} PROVE Goal
    <2>1. r \notin Sudo => par[r] = "running"
      BY <1>e DEF Calling, TypeOK
    <2> QED BY <1>e, <2>1, EndFrame DEF Answers, GoesOn, After
  <1>s. ASSUME NEW from, NEW to, Step(r, from, to), from \in After => to \in After PROVE Goal
    BY <1>s, StepFrame DEF GoesOn
  <1>1. CASE Cancel(r) \/ Eof(r) \/ Timeout(r)
    BY <1>1 DEF Cancel, Eof, Timeout, GoesOn
  <1>2. CASE Die(r)
    BY <1>2 DEF Die, GoesOn, TypeOK, After
  <1>3. CASE Check(r)
    <2>1. CASE par' = [par EXCEPT ![r] = "done"] /\ Goto(r, "over")
      <3>1. par[r] = "running" /\ par'[r] = "done" /\ pc'[r] = "over" /\ UNCHANGED <<src, mirror, got, misclaimed>>
        BY <1>3, <2>1 DEF Check, Calling, TypeOK, Goto, diskVars
      <3> QED BY <3>1 DEF Answers
    <2>2. CASE Goto(r, IF r \in Sudo THEN "spawn" ELSE "mkdir") /\ UNCHANGED <<par, res>>
      <3>1. pc[r] \notin After /\ UNCHANGED <<par, res, src, misclaimed>>
        BY <1>3, <2>2 DEF Check, After
      <3> QED BY <3>1 DEF GoesOn
    <2> QED BY <1>3, <2>1, <2>2 DEF Check
  <1>4. CASE Spawn(r) \/ HelperDies(r)
    BY <1>4 DEF Spawn, HelperDies, GoesOn, runVars, After, Goto, TypeOK
  <1>5. CASE Verdict(r)
    <2>1. par[r] = "running" /\ par'[r] = "done" /\ pc'[r] = "over" /\ UNCHANGED <<src, mirror, got>>
      BY <1>5 DEF Verdict, diskVars, TypeOK
    <2>2. misclaimed' = misclaimed \/ (misclaimed' = TRUE /\ res'[r].out # "ok")
      <3>1. PICK v : /\ res' = [res EXCEPT ![r] = v]
                     /\ misclaimed' = (misclaimed \/ (v.out # "ok" /\ Misclaim(r, v)))
        BY <1>5, Zenon DEF Verdict
      <3>2. res'[r] = v
        BY <3>1 DEF TypeOK
      <3> QED BY <3>1, <3>2 DEF Misclaim, TypeOK
    <2> QED BY <2>1, <2>2 DEF Answers
  <1>6. CASE Recheck(r)
    <2>1. CASE Goto(r, "mkdir") /\ UNCHANGED runVars
      BY <1>6, <2>1 DEF Recheck, runVars, GoesOn, After
    <2>2. Blocked(src[r]) \in Outcomes /\ pc[r] = "recheck"
      BY <1>0, <1>6 DEF Blocked, Recheck
    <2> QED BY <1>0, <1>6, <1>e, <2>1, <2>2 DEF Recheck, diskVars
  <1>7. CASE MkdirStaging(r)
    <2>1. CASE Goto(r, "restore") /\ UNCHANGED <<par, src, event, res, misclaimed>>
      BY <1>7, <2>1 DEF MkdirStaging, GoesOn, After
    <2> QED BY <1>0, <1>7, <1>e, <2>1 DEF MkdirStaging
  <1>8. CASE RestoreMore(r) \/ RestoreEnd(r) \/ Normalize(r)
    BY <1>0, <1>8, <1>s, <1>e DEF RestoreMore, RestoreEnd, Normalize, diskVars, After
  <1>9. CASE MkdirParents(r) \/ Look(r) \/ Unlink(r)
    BY <1>0, <1>9, <1>s, <1>e DEF MkdirParents, Look, Unlink, diskVars, After
  <1>10. CASE RenameDir(r) \/ LinkFile(r)
    BY <1>0, <1>10, <1>s, <1>e DEF RenameDir, LinkFile, diskVars, After
  <1>11. CASE Clean(r)
    BY <1>0, <1>11, <1>e DEF Clean
  <1>12. CASE DeleteStaging(r)
    BY <1>12 DEF DeleteStaging, GoesOn
  <1> QED BY <1>1, <1>2, <1>3, <1>4, <1>5, <1>6, <1>7, <1>8, <1>9, <1>10, <1>11, <1>12
          DEF Acts, Bookkeeping, InStaging, Publishing

LEMMA OnceNext ==
  ASSUME IInv, OnceInv, [Next]_vars
  PROVE  OnceInv'
  <1>1. CASE Next
    <2>1. PICK r \in Runs : Acts(r)
      BY <1>1, NextCases DEF Acts
    <2>2. ASSUME NEW q \in Runs, pc'[q] \notin After PROVE got'[q] = "none"
      <3>1. CASE q # r
        BY <2>1, <2>2, <3>1, Others, GotFrame DEF Same, OnceInv, IInv
      <3>2. CASE q = r
        <4>1. Calling(r) /\ TypeOK
          BY DEF IInv, CallInv
        <4>2. ~Publishes(r)
          BY <2>2, <3>2 DEF Publishes, After
        <4>3. got'[r] = got[r]
          BY <2>1, <4>1, <4>2, GotFrame
        <4>4. pc[r] \notin After
          BY <2>1, <2>2, <3>2, <4>1, CallFrame DEF Call, Calling, Answers, GoesOn, After
        <4> QED BY <3>2, <4>3, <4>4 DEF OnceInv
      <3> QED BY <3>1, <3>2
    <2> QED BY <2>2 DEF OnceInv
  <1>2. CASE UNCHANGED vars
    BY <1>2 DEF OnceInv, vars, diskVars
  <1> QED BY <1>1, <1>2

There == {n \in Nodes : mirror[n] \in Runs}
Foreign == {n \in Nodes : mirror[n] = "other"}

\* To the outside a rename is all at once, and the rest is not to be seen.
LEMMA Appears ==
  ASSUME TypeOK, CallInv, OnceInv, ContentInv, TreeInv, PublishedWhole, PublishedWhole', NEW r \in Runs, Publishes(r), Acts(r)
  PROVE  Promise!Bring(r)
  <1> DEFINE n == src[r]
             all == Promise!WithBelow(n)
  <1>1. n \in Nodes /\ all = {n} \cup Below(n) /\ all \subseteq Nodes
    BY DEF TypeOK, Promise!WithBelow, Below
  <1>2. pc[r] = "move" /\ par[r] \in {"running", "dead"} /\ got[r] = "none"
    BY DEF Publishes, OnceInv, After, CallInv, Calling, TypeOK
  <1>3. AbsCall[r] = "asked" /\ AbsBrought[r] = "none" /\ AbsCall' = AbsCall
    BY <1>2 DEF AbsCall, AbsBrought, Publishes
  <1>4. mirror[n] = "none" => \A x \in all : mirror[x] = "none"
    BY <1>1 DEF TreeInv, Below
  <1>5. EmptyDir(n) => /\ n \in Dirs /\ mirror[n] # "other" /\ \A x \in all : x = n \/ mirror[x] = "none"
                       /\ mirror[n] \in Runs => all = {n}
    BY <1>1 DEF EmptyDir, TreeInv
  <1>6. all \cap Foreign = {}
    BY <1>1, <1>4, <1>5 DEF Publishes, Foreign
  <1>7. all \cap There = {} \/ (all = {n} /\ n \in Dirs)
    BY <1>1, <1>4, <1>5 DEF Publishes, There
  <1>8. \A x \in Nodes : mirror'[x] = IF x \in all THEN r ELSE mirror[x]
    BY <1>1, PublishFrame
  <1>9. There' = There \cup all /\ Foreign' = Foreign
    <2>1. "other" \notin Runs
      OBVIOUS
    <2>2. \A x \in Nodes : mirror'[x] \in Runs <=> mirror[x] \in Runs \/ x \in all
      BY <1>8
    <2>3. \A x \in Nodes : mirror'[x] = "other" <=> mirror[x] = "other"
      BY <1>6, <1>8, <2>1 DEF Foreign
    <2> QED BY <1>1, <2>2, <2>3 DEF There, Foreign
  <1>10. \E b \in {"whole"} \cup (IF misclaimed THEN {"part"} ELSE {}) : AbsBrought' = [AbsBrought EXCEPT ![r] = b]
    <2>1. got'[r] # "none" /\ \A q \in Runs : q # r => got'[q] = got[q]
      <3>1. staging[n].has # "none"
        BY DEF Publishes, HasNode, Exists
      <3> QED BY <3>1, PublishFrame, GotFrame
    <2>2. misclaimed' = misclaimed
      BY DEF Publishes
    <2>3. AbsBrought'[r] \in {"whole", "part"} /\ (~misclaimed => AbsBrought'[r] = "whole")
      BY <2>1, <2>2 DEF AbsBrought, PublishedWhole
    <2>4. AbsBrought' = [AbsBrought EXCEPT ![r] = AbsBrought'[r]]
      BY <2>1 DEF AbsBrought
    <2> QED BY <2>3, <2>4
  <1>11. src' = src /\ misclaimed' = misclaimed
    BY DEF Publishes
  <1> QED BY <1>3, <1>6, <1>7, <1>9, <1>10, <1>11 DEF Promise!Bring, There, Foreign

\* What was there stays, and nothing else comes.
LEMMA StandsStill ==
  ASSUME TypeOK, NEW r \in Runs, Acts(r), ~Publishes(r)
  PROVE  There' = There /\ Foreign' = Foreign /\ AbsBrought' = AbsBrought
  <1>1. "made" \notin Runs /\ "none" \notin Runs
    OBVIOUS
  <1>2. got' = got
    BY MirrorFrame
  <1>3. \A n \in Nodes : mirror'[n] = mirror[n] \/ (mirror[n] = "none" /\ mirror'[n] = "made")
    BY MirrorFrame
  <1>4. \A n \in Nodes : (mirror'[n] \in Runs <=> mirror[n] \in Runs) /\ (mirror'[n] = "other" <=> mirror[n] = "other")
    BY <1>1, <1>3
  <1> QED BY <1>2, <1>4 DEF There, Foreign, AbsBrought

\* A function that changes at one run only.
LEMMA OneChange ==
  ASSUME NEW F, NEW G, NEW r \in Runs,
         F = [q \in Runs |-> F[q]], G = [q \in Runs |-> G[q]],
         \A q \in Runs : q # r => G[q] = F[q]
  PROVE  G = [F EXCEPT ![r] = G[r]]
  OBVIOUS

\* A step of a run is a step of its call, or none.
LEMMA StepRefines ==
  ASSUME IInv, IInv', OnceInv, [Next]_vars
  PROVE  [Promise!Next]_(Promise!vars)
  <1>0. /\ TypeOK /\ CallInv /\ ContentInv /\ TreeInv /\ PublishedInv /\ PublishedWhole
        /\ TypeOK' /\ PublishedInv' /\ PublishedWhole'
    BY DEF IInv
  <1>1. CASE Next
    <2>1. PICK r \in Runs : Acts(r)
      BY <1>1, NextCases DEF Acts
    <2>2. CASE Publishes(r)
      BY <1>0, <2>1, <2>2, Appears DEF Promise!Next
    <2>3. CASE ~Publishes(r)
      <3>1. There' = There /\ Foreign' = Foreign /\ AbsBrought' = AbsBrought
        BY <1>0, <2>1, <2>3, StandsStill
      <3>2. \A q \in Runs : q # r => AbsCall'[q] = AbsCall[q]
        BY <1>0, <2>1, Others DEF Same, AbsCall
      <3>3. Calling(r)
        BY <1>0 DEF CallInv
      <3>4. AbsCall = [q \in Runs |-> AbsCall[q]] /\ AbsCall' = [q \in Runs |-> AbsCall'[q]]
        BY DEF AbsCall
      <3>5. CASE \E n \in Nodes : Call(r, n)
        <4>1. PICK n \in Nodes : Call(r, n)
          BY <3>5
        <4>2. AbsCall[r] = "idle" /\ AbsCall'[r] = "asked"
          BY <1>0, <4>1 DEF AbsCall, Call, TypeOK
        <4>3. AbsCall' = [AbsCall EXCEPT ![r] = AbsCall'[r]]
          BY ONLY <3>2, <3>4, r \in Runs, OneChange
        <4>4. src' = [src EXCEPT ![r] = n] /\ misclaimed' = misclaimed
          BY <4>1 DEF Call
        <4>5. Promise!Ask(r, n)
          BY <3>1, <4>2, <4>3, <4>4 DEF Promise!Ask, There, Foreign
        <4> QED BY <4>5 DEF Promise!Next
      <3>6. CASE Answers(r)
        <4>1. AbsCall[r] = "asked" /\ AbsCall'[r] = IF res'[r].out = "ok" THEN "ok" ELSE "failed"
          BY <3>6 DEF AbsCall, Answers
        <4>2. AbsCall' = [AbsCall EXCEPT ![r] = AbsCall'[r]]
          BY ONLY <3>2, <3>4, r \in Runs, OneChange
        <4>3. res'[r].out = "ok" => AbsBrought[r] # "none" /\ misclaimed' = misclaimed
          <5>1. res'[r].out = "ok" => got'[r] # "none"
            BY <1>0 DEF PublishedInv, Published
          <5> QED BY <3>6, <5>1 DEF Answers, AbsBrought
        <4>4. misclaimed' \in {misclaimed, TRUE} /\ src' = src
          BY <3>6 DEF Answers
        <4>5. Promise!Answer(r)
          BY <3>1, <4>1, <4>2, <4>3, <4>4 DEF Promise!Answer, There, Foreign
        <4> QED BY <4>5 DEF Promise!Next
      <3>7. CASE GoesOn(r)
        <4>1. AbsCall'[r] = AbsCall[r] /\ src' = src /\ misclaimed' = misclaimed
          BY <3>7 DEF AbsCall, GoesOn
        <4>2. AbsCall' = AbsCall
          BY ONLY <3>2, <3>4, <4>1
        <4> QED BY <3>1, <4>1, <4>2 DEF Promise!vars, There, Foreign
      <3> QED BY <1>0, <2>1, <3>3, <3>5, <3>6, <3>7, CallFrame
    <2> QED BY <2>2, <2>3
  <1>2. CASE UNCHANGED vars
    BY <1>2 DEF vars, runVars, diskVars, Promise!vars, AbsCall, AbsBrought
  <1> QED BY <1>1, <1>2

\* For any tree and any number of runs, privileged or not: a source appears at
\* its target at once and for good, over nothing, and a success brought it.
THEOREM Targets == Spec => RefinesTargets
  <1>1. Init => Promise!Init /\ OnceInv
    <2> SUFFICES ASSUME Init PROVE Promise!Init /\ OnceInv
      OBVIOUS
    <2>1. \A n \in Nodes : mirror[n] \in {"none", "made", "other"}
      BY DEF Init
    <2>2. There = {}
      BY <2>1 DEF There
    <2>3. AbsCall = [r \in Runs |-> "idle"] /\ AbsBrought = [r \in Runs |-> "none"]
      BY DEF Init, AbsCall, AbsBrought
    <2> QED BY <2>2, <2>3 DEF Init, Promise!Init, OnceInv, There
  <1>2. IInv /\ OnceInv /\ [Next]_vars => OnceInv'
    BY OnceNext
  <1>3. IInv /\ IInv' /\ OnceInv /\ [Next]_vars => [Promise!Next]_(Promise!vars)
    BY StepRefines
  <1> QED BY <1>1, <1>2, <1>3, Invariance, PTL DEF Spec, RefinesTargets, Promise!Spec
=============================================================================
