---------------------------- MODULE RefreshProofs ----------------------------
(***************************************************************************)
(* Proofs about Refresh: its safety properties for any number of           *)
(* repositories and processes and any parallelism.  Liveness is left to    *)
(* model checking.                                                         *)
(***************************************************************************)
EXTENDS Refresh, FiniteSetTheorems, TLAPS

\* A process that does not run has no jobs and no slots.
OffInv ==
    \A p \in Procs : life[p] = "off" => \A r \in Repos : job[p][r].step = "none"

\* Where an observation comes from: a job that asks restic has its timestamp,
\* and what it is going to save or show was seen no earlier than it says.
JobHonest(p, r) ==
    /\ Honest(job[p][r].prior)
    /\ job[p][r].now <= time
    /\ job[p][r].step = "call" => job[p][r].now > 0
    /\ job[p][r].step \in {"save", "rename"} \/ p = Tui => Honest(job[p][r].res)
    /\ job[p][r].step \in {"save", "rename", "over"} =>
          job[p][r].res.err \/ job[p][r].res.at > 0
HonestInv ==
    /\ NeverFresherThanSeen
    /\ \A p \in Procs, r \in Repos : JobHonest(p, r)

IInv ==
    /\ TypeOK
    /\ OffInv
    /\ PendingHasEnd
    /\ SpinnerTurns
    /\ HonestInv
    /\ WithinParallelism

USE RefreshAssumption DEF Procs
-----------------------------------------------------------------------------
(* Types *)

\* States and jobs are what they are made of.
LEMMA ColdTypes == Cold \in RepoStates /\ NoJob \in Jobs
  BY DEF Cold, NoJob, RepoStates, Jobs, Steps

\* Changing one job to another keeps the jobs typed.
LEMMA JobType ==
  ASSUME TypeOK, NEW p \in Procs, NEW r \in Repos, NEW j \in Jobs
  PROVE  [job EXCEPT ![p][r] = j] \in [Procs -> [Repos -> Jobs]]
  BY DEF TypeOK

\* Dispatching makes jobs.
LEMMA DispatchType ==
  ASSUME TypeOK, NEW p \in Procs, NEW S
  PROVE  Dispatched(p, S) \in [Repos -> Jobs]
  <1>1. [NoJob EXCEPT !.step = "wait"] \in Jobs
    BY ColdTypes DEF Jobs, Steps
  <1> QED BY <1>1 DEF Dispatched, TypeOK

\* Every step of the TUI keeps the types.
LEMMA TuiTypes ==
  ASSUME TypeOK,
         \/ OpenTui \/ SpinnerTick
         \/ \E S \in SUBSET Repos : RefreshKey(S)
         \/ \E r \in Repos : ApplyRefresh(r)
  PROVE  TypeOK'
  <1>1. CASE OpenTui
    <2>1. Tui \in Procs
      OBVIOUS
    <2>2. rows' \in [Repos -> RepoStates]
      BY <1>1, ColdTypes DEF OpenTui, TypeOK, Files
    <2>3. PICK S \in SUBSET Repos : pending' = S /\ ticking' = (S # {})
                                    /\ job' = [job EXCEPT ![Tui] = Dispatched(Tui, S)]
      BY <1>1 DEF OpenTui
    <2>4. job' \in [Procs -> [Repos -> Jobs]]
      BY <2>1, <2>3, DispatchType DEF TypeOK
    <2>5. ticking' \in BOOLEAN /\ pending' \subseteq Repos
      BY <2>3
    <2> QED BY <1>1, <2>2, <2>4, <2>5 DEF OpenTui, TypeOK
  <1>2. CASE SpinnerTick
    BY <1>2 DEF SpinnerTick, TypeOK
  <1>3. ASSUME NEW S \in SUBSET Repos, RefreshKey(S) PROVE TypeOK'
    <2>1. job' \in [Procs -> [Repos -> Jobs]]
      BY <1>3, DispatchType DEF RefreshKey, TypeOK
    <2>2. ticking' \in BOOLEAN
      BY <1>3 DEF RefreshKey, TypeOK
    <2> QED BY <1>3, <2>1, <2>2 DEF RefreshKey, TypeOK
  <1>4. ASSUME NEW r \in Repos, ApplyRefresh(r) PROVE TypeOK'
    <2>1. job' \in [Procs -> [Repos -> Jobs]]
      BY <1>4, JobType, ColdTypes DEF ApplyRefresh
    <2>2. job[Tui][r].res \in RepoStates
      BY DEF TypeOK, Jobs
    <2> QED BY <1>4, <2>1, <2>2 DEF ApplyRefresh, TypeOK
  <1> QED BY <1>1, <1>2, <1>3, <1>4

\* So does every step of a process as a whole.
LEMMA ProcTypes ==
  ASSUME TypeOK,
         \/ Tick
         \/ \E c \in Clis : StartCli(c) \/ CliEnds(c)
         \/ \E p \in Procs : Cancel(p) \/ Die(p)
  PROVE  TypeOK'
  <1>1. CASE Tick
    BY <1>1 DEF Tick, TypeOK, tuiVars, Times
  <1>2. ASSUME NEW c \in Clis, StartCli(c) PROVE TypeOK'
    <2>1. job' \in [Procs -> [Repos -> Jobs]]
      BY <1>2, DispatchType DEF StartCli, TypeOK
    <2> QED BY <1>2, <2>1 DEF StartCli, TypeOK, tuiVars
  <1>3. ASSUME NEW c \in Clis, CliEnds(c) PROVE TypeOK'
    <2>1. job' \in [Procs -> [Repos -> Jobs]]
      BY <1>3, ColdTypes DEF CliEnds, TypeOK
    <2>2. code' \in [Clis -> {"none", "zero", "nonzero"}]
      BY <1>3 DEF CliEnds, TypeOK
    <2> QED BY <1>3, <2>1, <2>2 DEF CliEnds, TypeOK, tuiVars
  <1>4. ASSUME NEW p \in Procs, Cancel(p) PROVE TypeOK'
    BY <1>4 DEF Cancel, TypeOK, tuiVars
  <1>5. ASSUME NEW p \in Procs, Die(p) PROVE TypeOK'
    <2>1. job' \in [Procs -> [Repos -> Jobs]]
      BY <1>5, ColdTypes DEF Die, TypeOK
    <2>2. rows' \in [Repos -> RepoStates] /\ pending' \subseteq Repos /\ ticking' \in BOOLEAN
      BY <1>5, ColdTypes DEF Die, TypeOK, tuiVars
    <2>3. slots' \in [Procs -> 0..Parallelism]
      BY <1>5 DEF Die, TypeOK
    <2> QED BY <1>5, <2>1, <2>2, <2>3 DEF Die, TypeOK
  <1> QED BY <1>1, <1>2, <1>3, <1>4, <1>5
\* A job at work holds a slot.
LEMMA SlotHeld ==
  ASSUME TypeOK, WithinParallelism, NEW p \in Procs, NEW r \in Repos, r \in Holding(p)
  PROVE  slots[p] \in 1..Parallelism
  <1>1. IsFiniteSet(Holding(p))
    <2>1. Holding(p) \subseteq Repos
      BY DEF Holding
    <2> QED BY <2>1, FS_Subset
  <1>2. Cardinality(Holding(p)) \in Nat /\ (Cardinality(Holding(p)) = 0 <=> Holding(p) = {})
    BY <1>1, FS_CardinalityType, FS_EmptySet
  <1> QED BY <1>2 DEF WithinParallelism, TypeOK

\* Every step of a refresh keeps the types.
LEMMA JobTypes ==
  ASSUME TypeOK, WithinParallelism, NEW p \in Procs, NEW r \in Repos,
         Acquire(p, r) \/ JobStep(p, r)
  PROVE  TypeOK'
  <1> DEFINE j == job[p][r]
  <1>j. j \in Jobs /\ j.prior \in RepoStates /\ j.now \in {0} \cup Times /\ j.res \in RepoStates
    BY DEF TypeOK, Jobs
  <1>1. CASE Acquire(p, r)
    <2>1. job' = [job EXCEPT ![p][r] = [j EXCEPT !.step = "begin"]]
      BY <1>1 DEF Acquire, Goto, TypeOK
    <2>2. [j EXCEPT !.step = "begin"] \in Jobs
      BY <1>j DEF Jobs, Steps
    <2>3. slots' \in [Procs -> 0..Parallelism]
      BY <1>1 DEF Acquire, TypeOK
    <2>4. job' \in [Procs -> [Repos -> Jobs]]
      BY <2>1, <2>2, JobType
    <2> QED BY <1>1, <2>3, <2>4 DEF Acquire, TypeOK, tuiVars
  <1>2. CASE GiveUp(p, r)
    <2>1. [Cold EXCEPT !.at = time, !.err = TRUE] \in RepoStates
      BY DEF TypeOK, Cold, RepoStates, Times
    <2>2. [j EXCEPT !.step = "over", !.res = [Cold EXCEPT !.at = time, !.err = TRUE]] \in Jobs
      BY <1>j, <2>1 DEF Jobs, Steps
    <2>3. \/ job' = [job EXCEPT ![p][r] = NoJob]
          \/ job' = [job EXCEPT ![p][r] = [j EXCEPT !.step = "over",
                                     !.res = [Cold EXCEPT !.at = time, !.err = TRUE]]]
      BY <1>2, <1>j, ZenonT(40) DEF GiveUp, TypeOK, Jobs
    <2> HIDE DEF j
    <2>4. PICK k \in Jobs : job' = [job EXCEPT ![p][r] = k]
      BY <2>2, <2>3, ColdTypes
    <2>5. job' \in [Procs -> [Repos -> Jobs]]
      BY <2>4, JobType
    <2> QED BY <1>2, <2>5 DEF GiveUp, TypeOK, tuiVars
  <1>3. CASE Begin(p, r)
    <2>1. Loaded(p, r) \in RepoStates
      BY ColdTypes DEF Loaded, TypeOK, Files
    <2>2. [j EXCEPT !.step = "call", !.now = time, !.prior = Loaded(p, r)] \in Jobs
      BY <1>j, <2>1 DEF Jobs, Steps, TypeOK
    <2>3. job' = [job EXCEPT ![p][r] = [j EXCEPT !.step = "call", !.now = time,
                                                 !.prior = Loaded(p, r)]]
      BY <1>3, <1>j DEF Begin, TypeOK, Jobs
    <2>4. job' \in [Procs -> [Repos -> Jobs]]
      BY <2>2, <2>3, JobType
    <2> QED BY <1>3, <2>4 DEF Begin, TypeOK, tuiVars
  <1>4. CASE Succeed(p, r)
    <2>1. PICK o \in j.now..time :
             job' = [job EXCEPT ![p][r].step = "save",
                                ![p][r].res = [at |-> j.now, obs |-> o, err |-> FALSE]]
      BY <1>4 DEF Succeed
    <2>2. [at |-> j.now, obs |-> o, err |-> FALSE] \in RepoStates
      BY <1>j, <2>1 DEF RepoStates, TypeOK, Times
    <2>3. [j EXCEPT !.step = "save", !.res = [at |-> j.now, obs |-> o, err |-> FALSE]] \in Jobs
      BY <1>j, <2>2 DEF Jobs, Steps
    <2>4. PICK k \in Jobs : job' = [job EXCEPT ![p][r] = k]
      BY <2>1, <2>3
    <2>5. job' \in [Procs -> [Repos -> Jobs]]
      BY <2>4, JobType
    <2> QED BY <1>4, <2>5 DEF Succeed, TypeOK, tuiVars
  <1>5. CASE Fail(p, r)
    <2>1. [j.prior EXCEPT !.err = TRUE] \in RepoStates
      BY <1>j DEF RepoStates
    <2>2. [j EXCEPT !.step = "save", !.res = [j.prior EXCEPT !.err = TRUE]] \in Jobs
      BY <1>j, <2>1 DEF Jobs, Steps
    <2>3. PICK k \in Jobs : job' = [job EXCEPT ![p][r] = k]
      BY <1>5, <2>2 DEF Fail
    <2>4. job' \in [Procs -> [Repos -> Jobs]]
      BY <2>3, JobType
    <2> QED BY <1>5, <2>4 DEF Fail, TypeOK, tuiVars
  <1>6. ASSUME NEW b \in BOOLEAN, Over(p, r, b), r \in Holding(p)
        PROVE  job' \in [Procs -> [Repos -> Jobs]] /\ slots' \in [Procs -> 0..Parallelism]
    <2>1. [j EXCEPT !.step = "over", !.saved = b] \in Jobs
      BY <1>j DEF Jobs, Steps
    <2>2. PICK k \in Jobs : job' = [job EXCEPT ![p][r] = k]
      BY <1>6, <2>1 DEF Over
    <2>3. slots' \in [Procs -> 0..Parallelism]
      BY <1>6, SlotHeld DEF Over, TypeOK
    <2> QED BY <2>2, <2>3, JobType
  <1>7. CASE SaveTemp(p, r)
    <2>1. r \in Holding(p)
      BY <1>7 DEF SaveTemp, Holding
    <2>2. CASE Over(p, r, FALSE)
      BY <1>6, <1>7, <2>1, <2>2 DEF SaveTemp, TypeOK, tuiVars
    <2>3. CASE Goto(p, r, "rename") /\ UNCHANGED slots
      <3>1. [j EXCEPT !.step = "rename"] \in Jobs
        BY <1>j DEF Jobs, Steps
      <3>2. PICK k \in Jobs : job' = [job EXCEPT ![p][r] = k]
        BY <2>3, <3>1 DEF Goto
      <3>3. job' \in [Procs -> [Repos -> Jobs]]
        BY <3>2, JobType
      <3> QED BY <1>7, <2>3, <3>3 DEF SaveTemp, TypeOK, tuiVars
    <2> QED BY <1>7, <2>2, <2>3 DEF SaveTemp
  <1>8. CASE Rename(p, r)
    <2>1. r \in Holding(p)
      BY <1>8 DEF Rename, Holding
    <2>2. job' \in [Procs -> [Repos -> Jobs]] /\ slots' \in [Procs -> 0..Parallelism]
      BY <1>6, <1>8, <2>1 DEF Rename
    <2>3. File("whole", j.res) \in Files
      BY <1>j DEF File, Files
    <2>4. cache' \in [Repos -> Files]
      BY <1>8, <2>3 DEF Rename, TypeOK
    <2> QED BY <1>8, <2>2, <2>4 DEF Rename, TypeOK, tuiVars
  <1> QED BY <1>1, <1>2, <1>3, <1>4, <1>5, <1>7, <1>8 DEF JobStep

\* The actions, one by one.
LEMMA NextCases ==
  ASSUME Next
  PROVE  \/ OpenTui \/ SpinnerTick
         \/ \E S \in SUBSET Repos : RefreshKey(S)
         \/ \E r \in Repos : ApplyRefresh(r)
         \/ Tick
         \/ \E c \in Clis : StartCli(c) \/ CliEnds(c)
         \/ \E p \in Procs : Cancel(p) \/ Die(p)
         \/ \E p \in Procs, r \in Repos : Acquire(p, r) \/ JobStep(p, r)
  <1>1. Repos \in SUBSET Repos /\ \A r \in Repos : {r} \in SUBSET Repos
    OBVIOUS
  <1> QED BY <1>1 DEF Next

\* What few actions change: the clock, the cache, the rows and the exit codes.
LEMMA Frames ==
  ASSUME [Next]_vars
  PROVE  /\ Tick \/ UNCHANGED time
         /\ (\E p \in Procs, r \in Repos : Rename(p, r)) \/ UNCHANGED cache
         /\ \/ OpenTui \/ UNCHANGED rows
            \/ \E r \in Repos : ApplyRefresh(r)
            \/ \E p \in Procs : Die(p)
         /\ (\E c \in Clis : StartCli(c) \/ CliEnds(c)) \/ UNCHANGED code
  <1>1. CASE UNCHANGED vars
    BY <1>1 DEF vars
  <1>2. CASE OpenTui
    BY <1>2 DEF OpenTui
  <1>3. CASE SpinnerTick \/ Tick
    BY <1>3 DEF SpinnerTick, Tick, tuiVars
  <1>4. CASE \E S \in SUBSET Repos : RefreshKey(S)
    BY <1>4 DEF RefreshKey
  <1>5. CASE \E r \in Repos : ApplyRefresh(r)
    BY <1>5 DEF ApplyRefresh
  <1>6. CASE \E c \in Clis : StartCli(c) \/ CliEnds(c)
    BY <1>6 DEF StartCli, CliEnds, tuiVars
  <1>7. CASE \E p \in Procs : Cancel(p) \/ Die(p)
    BY <1>7 DEF Cancel, Die, tuiVars
  <1>8. ASSUME NEW p \in Procs, NEW r \in Repos, Acquire(p, r) \/ JobStep(p, r)
        PROVE  /\ UNCHANGED <<time, rows, code>>
               /\ Rename(p, r) \/ UNCHANGED cache
    BY <1>8 DEF Acquire, JobStep, GiveUp, Begin, Succeed, Fail, SaveTemp, Rename, tuiVars
  <1> QED BY <1>1, <1>2, <1>3, <1>4, <1>5, <1>6, <1>7, <1>8, NextCases

LEMMA TypePreserved ==
  ASSUME IInv, [Next]_vars
  PROVE  TypeOK'
  <1>1. CASE UNCHANGED vars
    BY <1>1 DEF IInv, TypeOK, vars, tuiVars
  <1>2. CASE Next
    BY <1>2, NextCases, TuiTypes, ProcTypes, JobTypes DEF IInv
  <1> QED BY <1>1, <1>2
-----------------------------------------------------------------------------
(* Processes, marks and the spinner *)

\* A job's step leaves the other jobs alone.
LEMMA JobFrame ==
  ASSUME TypeOK, NEW p \in Procs, NEW r \in Repos, Acquire(p, r) \/ JobStep(p, r),
         NEW q \in Procs, NEW x \in Repos, q # p \/ x # r
  PROVE  job'[q][x] = job[q][x]
  <1>1. ASSUME NEW j, job' = [job EXCEPT ![p][r] = j] PROVE job'[q][x] = job[q][x]
    BY <1>1 DEF TypeOK
  <1>2. CASE Acquire(p, r)
    BY <1>2 DEF Acquire, Goto, TypeOK
  <1>3. CASE GiveUp(p, r)
    <2>1. CASE job' = [job EXCEPT ![p][r] = NoJob]
      BY <1>1, <2>1
    <2>2. CASE job' = [job EXCEPT ![p][r].step = "over",
                                  ![p][r].res = [Cold EXCEPT !.at = time, !.err = TRUE]]
      BY <2>2 DEF TypeOK
    <2> QED BY <1>3, <2>1, <2>2 DEF GiveUp
  <1>4. CASE Begin(p, r)
    BY <1>4 DEF Begin, TypeOK
  <1>5. CASE Succeed(p, r)
    BY <1>5 DEF Succeed, TypeOK
  <1>6. CASE Fail(p, r)
    BY <1>6 DEF Fail, TypeOK
  <1>7. ASSUME NEW saved, Over(p, r, saved) PROVE job'[q][x] = job[q][x]
    BY <1>7 DEF Over, TypeOK
  <1>8. ASSUME NEW step, Goto(p, r, step) PROVE job'[q][x] = job[q][x]
    BY <1>8 DEF Goto, TypeOK
  <1>9. CASE SaveTemp(p, r) \/ Rename(p, r)
    BY <1>7, <1>8, <1>9 DEF SaveTemp, Rename
  <1> QED BY <1>2, <1>3, <1>4, <1>5, <1>6, <1>9 DEF JobStep

\* A process that stops has dropped its jobs; one that does not run starts none.
LEMMA OffPreserved ==
  ASSUME IInv, [Next]_vars
  PROVE  OffInv'
  <1> USE DEF OffInv, IInv
  <1>1. CASE UNCHANGED vars
    BY <1>1 DEF vars
  <1>2. CASE OpenTui
    BY <1>2 DEF OpenTui, TypeOK
  <1>3. CASE SpinnerTick \/ Tick
    BY <1>3 DEF SpinnerTick, Tick
  <1>4. ASSUME NEW S \in SUBSET Repos, RefreshKey(S) PROVE OffInv'
    BY <1>4 DEF RefreshKey, TypeOK
  <1>5. ASSUME NEW r \in Repos, ApplyRefresh(r) PROVE OffInv'
    BY <1>5 DEF ApplyRefresh, TypeOK, NoJob
  <1>6. ASSUME NEW c \in Clis, StartCli(c) PROVE OffInv'
    BY <1>6 DEF StartCli, TypeOK
  <1>7. ASSUME NEW c \in Clis, CliEnds(c) PROVE OffInv'
    BY <1>7 DEF CliEnds, TypeOK, NoJob
  <1>8. ASSUME NEW p \in Procs, Cancel(p) PROVE OffInv'
    BY <1>8 DEF Cancel, TypeOK
  <1>9. ASSUME NEW p \in Procs, Die(p) PROVE OffInv'
    BY <1>9 DEF Die, TypeOK, NoJob
  <1>10. ASSUME NEW p \in Procs, NEW r \in Repos, Acquire(p, r) \/ JobStep(p, r)
         PROVE  OffInv'
    <2>1. job[p][r].step # "none" /\ UNCHANGED life
      BY <1>10 DEF Acquire, JobStep, GiveUp, Begin, Succeed, Fail, SaveTemp, Rename
    <2>2. life[p] # "off"
      BY <2>1
    <2>3. \A q \in Procs \ {p} : job'[q] = job[q]
      BY <1>10 DEF Acquire, JobStep, GiveUp, Begin, Succeed, Fail, SaveTemp, Rename, Goto,
                   Over, TypeOK
    <2> QED BY <2>1, <2>2, <2>3
  <1> QED BY <1>1, <1>2, <1>3, <1>4, <1>5, <1>6, <1>7, <1>8, <1>9, <1>10, NextCases

\* A job of the TUI at work stays one until its message is applied, and only a
\* canceled TUI drops one.
LEMMA PendingPreserved ==
  ASSUME IInv, [Next]_vars
  PROVE  PendingHasEnd'
  <1> USE DEF PendingHasEnd, IInv
  <1>1. CASE UNCHANGED vars
    BY <1>1 DEF vars
  <1>2. CASE OpenTui
    BY <1>2 DEF OpenTui, TypeOK, OffInv, Dispatched, NoJob
  <1>3. CASE SpinnerTick \/ Tick
    BY <1>3 DEF SpinnerTick, Tick, tuiVars
  <1>4. ASSUME NEW S \in SUBSET Repos, RefreshKey(S) PROVE PendingHasEnd'
    BY <1>4 DEF RefreshKey, TypeOK, Dispatched, NoJob
  <1>5. ASSUME NEW r \in Repos, ApplyRefresh(r) PROVE PendingHasEnd'
    BY <1>5 DEF ApplyRefresh, TypeOK, NoJob
  <1>6. ASSUME NEW c \in Clis, StartCli(c) PROVE PendingHasEnd'
    BY <1>6 DEF StartCli, TypeOK, tuiVars
  <1>7. ASSUME NEW c \in Clis, CliEnds(c) PROVE PendingHasEnd'
    BY <1>7 DEF CliEnds, TypeOK, tuiVars
  <1>8. ASSUME NEW p \in Procs, Cancel(p) PROVE PendingHasEnd'
    BY <1>8 DEF Cancel, TypeOK, tuiVars
  <1>9. ASSUME NEW p \in Procs, Die(p) PROVE PendingHasEnd'
    BY <1>9 DEF Die, TypeOK, tuiVars
  <1>10. ASSUME NEW p \in Procs, NEW r \in Repos, Acquire(p, r) \/ JobStep(p, r)
         PROVE  PendingHasEnd'
    <2>1. UNCHANGED <<life, pending>>
      BY <1>10 DEF Acquire, JobStep, GiveUp, Begin, Succeed, Fail, SaveTemp, Rename, tuiVars
    <2>2. ASSUME life[Tui] = "up"
          PROVE  \A x \in Repos : job'[Tui][x].step = "none" <=> job[Tui][x].step = "none"
      <3>1. job[p][r].step # "none"
        BY <1>10 DEF Acquire, JobStep, GiveUp, Begin, Succeed, Fail, SaveTemp, Rename
      <3>2. p = Tui => job'[p][r].step # "none"
        <4>1. CASE Acquire(p, r) \/ SaveTemp(p, r) \/ Rename(p, r)
          BY <4>1 DEF Acquire, SaveTemp, Rename, Goto, Over, TypeOK, Jobs
        <4>2. CASE GiveUp(p, r)
          BY <2>2, <4>2 DEF GiveUp
        <4>3. CASE Begin(p, r)
          BY <4>3 DEF Begin, TypeOK, Jobs
        <4>4. CASE Succeed(p, r) \/ Fail(p, r)
          BY <4>4 DEF Succeed, Fail, TypeOK, Jobs
        <4> QED BY <1>10, <4>1, <4>2, <4>3, <4>4 DEF JobStep
      <3>3. \A q \in Procs, x \in Repos : q # p \/ x # r => job'[q][x] = job[q][x]
        BY <1>10, JobFrame
      <3> QED BY <3>1, <3>2, <3>3
    <2> QED BY <2>1, <2>2
  <1> QED BY <1>1, <1>2, <1>3, <1>4, <1>5, <1>6, <1>7, <1>8, <1>9, <1>10, NextCases

LEMMA SpinnerPreserved ==
  ASSUME IInv, [Next]_vars
  PROVE  SpinnerTurns'
  <1> USE DEF SpinnerTurns, IInv
  <1>1. CASE UNCHANGED vars
    BY <1>1 DEF vars
  <1>2. CASE OpenTui
    BY <1>2 DEF OpenTui, TypeOK
  <1>3. CASE SpinnerTick \/ Tick
    BY <1>3 DEF SpinnerTick, Tick, tuiVars
  <1>4. ASSUME NEW S \in SUBSET Repos, RefreshKey(S) PROVE SpinnerTurns'
    BY <1>4 DEF RefreshKey, TypeOK
  <1>5. ASSUME NEW r \in Repos, ApplyRefresh(r) PROVE SpinnerTurns'
    BY <1>5 DEF ApplyRefresh, TypeOK
  <1>6. ASSUME NEW c \in Clis, StartCli(c) \/ CliEnds(c) PROVE SpinnerTurns'
    BY <1>6 DEF StartCli, CliEnds, TypeOK, tuiVars
  <1>7. ASSUME NEW p \in Procs, Cancel(p) PROVE SpinnerTurns'
    BY <1>7 DEF Cancel, TypeOK, tuiVars
  <1>8. ASSUME NEW p \in Procs, Die(p) PROVE SpinnerTurns'
    BY <1>8 DEF Die, TypeOK, tuiVars
  <1>9. ASSUME NEW p \in Procs, NEW r \in Repos, Acquire(p, r) \/ JobStep(p, r)
        PROVE  SpinnerTurns'
    BY <1>9 DEF Acquire, JobStep, GiveUp, Begin, Succeed, Fail, SaveTemp, Rename, tuiVars
  <1> QED BY <1>1, <1>2, <1>3, <1>4, <1>5, <1>6, <1>7, <1>8, <1>9, NextCases
-----------------------------------------------------------------------------
(* Slots *)

Held == {"begin", "call", "save", "rename"}

\* The set of a process's jobs at work is finite; it grows and shrinks by one.
LEMMA HoldingCount ==
  ASSUME NEW p \in Procs, NEW r \in Repos
  PROVE  /\ IsFiniteSet(Holding(p))
         /\ Cardinality(Holding(p)) \in Nat
         /\ r \notin Holding(p) =>
               Cardinality(Holding(p) \cup {r}) = Cardinality(Holding(p)) + 1
         /\ r \in Holding(p) =>
               Cardinality(Holding(p) \ {r}) = Cardinality(Holding(p)) - 1
  <1>1. Holding(p) \subseteq Repos
    BY DEF Holding
  <1>2. IsFiniteSet(Holding(p))
    BY <1>1, FS_Subset
  <1> QED BY <1>2, FS_CardinalityType, FS_AddElement, FS_RemoveElement

\* A step that changes neither the jobs at work nor the slots.
LEMMA SlotsSame ==
  ASSUME TypeOK, WithinParallelism, slots' = slots,
         \A q \in Procs, x \in Repos : job'[q][x].step \in Held <=> job[q][x].step \in Held
  PROVE  WithinParallelism'
  <1>1. \A q \in Procs : Holding(q)' = Holding(q)
    BY DEF Holding, Held
  <1> QED BY <1>1 DEF WithinParallelism

\* A job that is over gives back the slot it holds.
LEMMA OverSlots ==
  ASSUME TypeOK, WithinParallelism, NEW p \in Procs, NEW r \in Repos, NEW b \in BOOLEAN,
         r \in Holding(p), Over(p, r, b)
  PROVE  WithinParallelism'
  <1>1. Holding(p)' = Holding(p) \ {r}
    BY DEF Over, Holding, TypeOK, Jobs
  <1>2. \A q \in Procs \ {p} : Holding(q)' = Holding(q) /\ slots'[q] = slots[q]
    BY DEF Over, Holding, TypeOK
  <1>3. slots'[p] = slots[p] - 1 /\ slots[p] \in Nat
    BY DEF Over, TypeOK
  <1>4. Cardinality(Holding(p)') = slots'[p] /\ slots'[p] <= Parallelism
    <2>1. Cardinality(Holding(p)) = slots[p] /\ slots[p] <= Parallelism
      BY DEF WithinParallelism
    <2>2. Cardinality(Holding(p) \ {r}) = Cardinality(Holding(p)) - 1
      BY HoldingCount
    <2> QED BY <1>1, <1>3, <2>1, <2>2
  <1> QED BY <1>2, <1>4 DEF WithinParallelism

LEMMA SlotsPreserved ==
  ASSUME IInv, [Next]_vars
  PROVE  WithinParallelism'
  <1> USE DEF IInv
  <1>1. CASE UNCHANGED vars
    BY <1>1, SlotsSame DEF vars
  <1>2. CASE OpenTui
    BY <1>2, SlotsSame DEF OpenTui, TypeOK, OffInv, Dispatched, NoJob, Held
  <1>3. CASE SpinnerTick \/ Tick
    BY <1>3, SlotsSame DEF SpinnerTick, Tick
  <1>4. ASSUME NEW S \in SUBSET Repos, RefreshKey(S) PROVE WithinParallelism'
    BY <1>4, SlotsSame DEF RefreshKey, TypeOK, PendingHasEnd, Dispatched, NoJob, Held
  <1>5. ASSUME NEW r \in Repos, ApplyRefresh(r) PROVE WithinParallelism'
    BY <1>5, SlotsSame DEF ApplyRefresh, TypeOK, NoJob, Held
  <1>6. ASSUME NEW c \in Clis, StartCli(c) PROVE WithinParallelism'
    BY <1>6, SlotsSame DEF StartCli, TypeOK, OffInv, Dispatched, NoJob, Held
  <1>7. ASSUME NEW c \in Clis, CliEnds(c) PROVE WithinParallelism'
    BY <1>7, SlotsSame DEF CliEnds, TypeOK, NoJob, Held
  <1>8. ASSUME NEW p \in Procs, Cancel(p) PROVE WithinParallelism'
    BY <1>8, SlotsSame DEF Cancel
  <1>9. ASSUME NEW p \in Procs, Die(p) PROVE WithinParallelism'
    <2>1. Holding(p)' = {} /\ slots'[p] = 0
      BY <1>9 DEF Die, Holding, TypeOK, NoJob
    <2>2. \A q \in Procs \ {p} : Holding(q)' = Holding(q) /\ slots'[q] = slots[q]
      BY <1>9 DEF Die, Holding, TypeOK
    <2> QED BY <2>1, <2>2, FS_EmptySet DEF WithinParallelism
  <1>10. ASSUME NEW p \in Procs, NEW r \in Repos, Acquire(p, r) PROVE WithinParallelism'
    <2>1. Holding(p)' = Holding(p) \cup {r} /\ r \notin Holding(p)
      BY <1>10 DEF Acquire, Goto, Holding, TypeOK, Jobs
    <2>2. \A q \in Procs \ {p} : Holding(q)' = Holding(q) /\ slots'[q] = slots[q]
      BY <1>10 DEF Acquire, Goto, Holding, TypeOK
    <2>3. slots'[p] = slots[p] + 1 /\ slots[p] \in Nat /\ slots[p] < Parallelism
      BY <1>10 DEF Acquire, TypeOK
    <2>4. Cardinality(Holding(p)') = slots'[p] /\ slots'[p] <= Parallelism
      BY <2>1, <2>3, HoldingCount DEF WithinParallelism
    <2> QED BY <2>2, <2>4 DEF WithinParallelism
  <1>11. ASSUME NEW p \in Procs, NEW r \in Repos,
                GiveUp(p, r) \/ Begin(p, r) \/ Succeed(p, r) \/ Fail(p, r)
         PROVE  WithinParallelism'
    <2>1. \A q \in Procs, x \in Repos : q # p \/ x # r => job'[q][x] = job[q][x]
      BY <1>11, JobFrame DEF JobStep
    <2>2. job'[p][r].step \in Held <=> job[p][r].step \in Held
      <3>1. CASE GiveUp(p, r)
        BY <3>1 DEF GiveUp, TypeOK, Jobs, NoJob, Held
      <3>2. CASE Begin(p, r)
        BY <3>2 DEF Begin, TypeOK, Jobs, Held
      <3>3. CASE Succeed(p, r) \/ Fail(p, r)
        BY <3>3 DEF Succeed, Fail, TypeOK, Jobs, Held
      <3> QED BY <1>11, <3>1, <3>2, <3>3
    <2>3. slots' = slots
      BY <1>11 DEF GiveUp, Begin, Succeed, Fail
    <2> QED BY <2>1, <2>2, <2>3, SlotsSame
  <1>12. ASSUME NEW p \in Procs, NEW r \in Repos, SaveTemp(p, r) PROVE WithinParallelism'
    <2>1. r \in Holding(p)
      BY <1>12 DEF SaveTemp, Holding
    <2>2. CASE Goto(p, r, "rename") /\ UNCHANGED slots
      <3>1. \A q \in Procs, x \in Repos :
               job'[q][x].step \in Held <=> job[q][x].step \in Held
        BY <1>12, <2>2 DEF SaveTemp, Goto, TypeOK, Jobs, Held
      <3> QED BY <2>2, <3>1, SlotsSame
    <2> QED BY <1>12, <2>1, <2>2, OverSlots DEF SaveTemp
  <1>13. ASSUME NEW p \in Procs, NEW r \in Repos, Rename(p, r) PROVE WithinParallelism'
    <2>1. r \in Holding(p)
      BY <1>13 DEF Rename, Holding
    <2> QED BY <1>13, <2>1, OverSlots DEF Rename
  <1> QED BY <1>1, <1>2, <1>3, <1>4, <1>5, <1>6, <1>7, <1>8, <1>9, <1>10, <1>11, <1>12,
             <1>13, NextCases DEF JobStep

-----------------------------------------------------------------------------
(* Observations *)

\* What jobs, rows and files start from.
LEMMA ColdHonest ==
  Honest(Cold) /\ Honest(NoJob.prior) /\ Honest(NoJob.res) /\ NoJob.now = 0
    /\ NoJob.step = "none"
  BY DEF Honest, Cold, NoJob

LEMMA LoadedHonest ==
  ASSUME HonestInv, NEW p \in Procs, NEW r \in Repos
  PROVE  Honest(Loaded(p, r))
  BY ColdHonest DEF HonestInv, NeverFresherThanSeen, Loaded

\* A fresh job is honest, waiting or not.
LEMMA FreshHonest ==
  ASSUME TypeOK, NEW p \in Procs, NEW r \in Repos,
         job'[p][r] \in {NoJob, [NoJob EXCEPT !.step = "wait"]}, time' \in Times
  PROVE  JobHonest(p, r)'
  BY DEF JobHonest, NoJob, Cold, Honest, Times

\* A job that did not change is as honest as before, time only grows.
LEMMA SameHonest ==
  ASSUME TypeOK, HonestInv, time' \in Times, time <= time', NEW p \in Procs, NEW r \in Repos,
         job'[p][r] = job[p][r]
  PROVE  JobHonest(p, r)'
  <1>1. JobHonest(p, r) /\ job[p][r].now \in Int /\ time \in Int /\ time' \in Int
    BY DEF HonestInv, TypeOK, Jobs, Times
  <1> QED BY <1>1 DEF JobHonest, Honest

\* Every step of a refresh keeps its job honest, and Rename saves no other.
LEMMA JobStaysHonest ==
  ASSUME TypeOK, HonestInv, NEW p \in Procs, NEW r \in Repos, Acquire(p, r) \/ JobStep(p, r)
  PROVE  JobHonest(p, r)'
  <1> DEFINE j == job[p][r]
  <1>h. JobHonest(p, r)
    BY DEF HonestInv
  <1>t. j \in Jobs /\ time \in Times /\ j.now \in {0} \cup Times
    BY DEF TypeOK, Jobs
  <1>1. CASE Acquire(p, r)
    BY <1>1, <1>h, <1>t DEF Acquire, Goto, JobHonest, Honest, TypeOK, Jobs
  <1>2. CASE GiveUp(p, r)
    <2>1. CASE p = Tui
      BY <1>2, <2>1, FreshHonest DEF GiveUp, TypeOK
    <2>2. CASE p # Tui
      <3>1. /\ job'[p][r] = [j EXCEPT !.step = "over",
                                      !.res = [Cold EXCEPT !.at = time, !.err = TRUE]]
            /\ time' = time
        <4>1. /\ job' = [job EXCEPT ![p][r].step = "over",
                            ![p][r].res = [Cold EXCEPT !.at = time, !.err = TRUE]]
              /\ time' = time
          BY <1>2, <2>2 DEF GiveUp
        <4>2. job[p] \in [Repos -> Jobs] /\ job \in [Procs -> [Repos -> Jobs]]
          BY DEF TypeOK
        <4> QED BY <4>1, <4>2, <1>t DEF Jobs
      <3> QED BY <2>2, <3>1, <1>h, <1>t DEF JobHonest, Honest, Jobs, Cold, Times
    <2> QED BY <2>1, <2>2
  <1>3. CASE Begin(p, r)
    <2>1. /\ job'[p][r] = [j EXCEPT !.step = "call", !.now = time, !.prior = Loaded(p, r)]
          /\ time' = time
      BY <1>3, <1>t DEF Begin, TypeOK, Jobs
    <2>2. Honest(Loaded(p, r))
      BY LoadedHonest
    <2> QED BY <2>1, <2>2, <1>h, <1>t DEF JobHonest, Honest, Jobs, Times
  <1>4. CASE Succeed(p, r)
    <2>1. PICK o \in j.now..time :
             /\ job'[p][r] = [j EXCEPT !.step = "save",
                                       !.res = [at |-> j.now, obs |-> o, err |-> FALSE]]
             /\ time' = time
      <3>1. PICK o \in j.now..time :
               job' = [job EXCEPT ![p][r].step = "save",
                                  ![p][r].res = [at |-> j.now, obs |-> o, err |-> FALSE]]
        BY <1>4 DEF Succeed
      <3>2. job'[p][r] = [j EXCEPT !.step = "save",
                                   !.res = [at |-> j.now, obs |-> o, err |-> FALSE]]
        BY <3>1, <1>t DEF TypeOK, Jobs
      <3> QED BY <3>1, <3>2, <1>4 DEF Succeed
    <2>2. j.now > 0
      BY <1>4, <1>h DEF Succeed, JobHonest
    <2> QED BY <2>1, <2>2, <1>h, <1>t DEF JobHonest, Honest, Jobs, Times
  <1>5. CASE Fail(p, r)
    <2>1. /\ job'[p][r] = [j EXCEPT !.step = "save", !.res = [j.prior EXCEPT !.err = TRUE]]
          /\ time' = time
      BY <1>5, <1>t DEF Fail, TypeOK, Jobs
    <2> QED BY <2>1, <1>h, <1>t DEF JobHonest, Honest, Jobs, RepoStates
  <1>6. ASSUME NEW b \in BOOLEAN, Over(p, r, b), j.step \in {"save", "rename"}, time' = time
        PROVE  JobHonest(p, r)'
    BY <1>6, <1>h, <1>t DEF Over, JobHonest, Honest, TypeOK, Jobs
  <1>7. CASE SaveTemp(p, r)
    <2>1. CASE Goto(p, r, "rename")
      BY <1>7, <2>1, <1>h, <1>t DEF SaveTemp, Goto, JobHonest, Honest, TypeOK, Jobs
    <2> QED BY <1>6, <1>7, <2>1 DEF SaveTemp
  <1>8. CASE Rename(p, r)
    BY <1>6, <1>8 DEF Rename
  <1> QED BY <1>1, <1>2, <1>3, <1>4, <1>5, <1>7, <1>8 DEF JobStep
LEMMA HonestPreserved ==
  ASSUME IInv, [Next]_vars
  PROVE  HonestInv'
  <1> USE DEF IInv
  <1>t. time \in Times /\ time' \in Times /\ time <= time'
    <2>1. time \in Times /\ time' \in Times
      BY TypePreserved DEF TypeOK
    <2>2. time' = time \/ time' = time + 1
      BY Frames DEF Tick
    <2> QED BY <2>1, <2>2 DEF Times
  <1>1. \A p \in Procs, r \in Repos : JobHonest(p, r)'
    <2> SUFFICES ASSUME NEW p \in Procs, NEW r \in Repos PROVE JobHonest(p, r)'
      OBVIOUS
    <2>0. job'[p][r] = job[p][r] => JobHonest(p, r)'
      BY <1>t, SameHonest
    <2>f. job'[p][r] \in {NoJob, [NoJob EXCEPT !.step = "wait"]} => JobHonest(p, r)'
      BY <1>t, FreshHonest
    <2>1. CASE UNCHANGED vars
      BY <2>0, <2>1 DEF vars
    <2>2. CASE OpenTui
      BY <2>0, <2>f, <2>2 DEF OpenTui, Dispatched, TypeOK
    <2>3. CASE SpinnerTick \/ Tick
      BY <2>0, <2>3 DEF SpinnerTick, Tick
    <2>4. ASSUME NEW S \in SUBSET Repos, RefreshKey(S) PROVE JobHonest(p, r)'
      BY <2>0, <2>f, <2>4 DEF RefreshKey, Dispatched, TypeOK
    <2>5. ASSUME NEW x \in Repos, ApplyRefresh(x) PROVE JobHonest(p, r)'
      BY <2>0, <2>f, <2>5 DEF ApplyRefresh, TypeOK
    <2>6. ASSUME NEW c \in Clis, StartCli(c) PROVE JobHonest(p, r)'
      BY <2>0, <2>f, <2>6 DEF StartCli, Dispatched, TypeOK
    <2>7. ASSUME NEW c \in Clis, CliEnds(c) PROVE JobHonest(p, r)'
      BY <2>0, <2>f, <2>7 DEF CliEnds, TypeOK
    <2>8. ASSUME NEW q \in Procs, Cancel(q) PROVE JobHonest(p, r)'
      BY <2>0, <2>8 DEF Cancel
    <2>9. ASSUME NEW q \in Procs, Die(q) PROVE JobHonest(p, r)'
      BY <2>0, <2>f, <2>9 DEF Die, TypeOK
    <2>10. ASSUME NEW q \in Procs, NEW x \in Repos, Acquire(q, x) \/ JobStep(q, x)
           PROVE  JobHonest(p, r)'
      <3>1. q # p \/ x # r => job'[p][r] = job[p][r]
        BY <2>10, JobFrame
      <3> QED BY <2>0, <2>10, <3>1, JobStaysHonest
    <2> QED BY <2>1, <2>2, <2>3, <2>4, <2>5, <2>6, <2>7, <2>8, <2>9, <2>10, NextCases
  <1>2. \A r \in Repos : Honest(rows'[r])
    <2>1. CASE OpenTui
      BY <2>1, ColdHonest DEF OpenTui, HonestInv, NeverFresherThanSeen
    <2>2. ASSUME NEW r \in Repos, ApplyRefresh(r) PROVE \A x \in Repos : Honest(rows'[x])
      <3>1. Honest(job[Tui][r].res)
        BY DEF HonestInv, JobHonest
      <3> QED BY <2>2, <3>1 DEF ApplyRefresh, HonestInv, NeverFresherThanSeen, TypeOK
    <2>3. ASSUME NEW p \in Procs, Die(p) PROVE \A x \in Repos : Honest(rows'[x])
      BY <2>3, ColdHonest DEF Die, HonestInv, NeverFresherThanSeen, tuiVars
    <2>4. CASE UNCHANGED rows
      BY <2>4 DEF HonestInv, NeverFresherThanSeen
    <2> QED BY <2>1, <2>2, <2>3, <2>4, Frames
  <1>3. \A r \in Repos : cache'[r].kind = "whole" => Honest(cache'[r].state)
    <2>1. ASSUME NEW p \in Procs, NEW r \in Repos, Rename(p, r)
          PROVE  \A x \in Repos : cache'[x].kind = "whole" => Honest(cache'[x].state)
      <3>1. Honest(job[p][r].res)
        BY <2>1 DEF Rename, HonestInv, JobHonest
      <3>2. cache' = [cache EXCEPT ![r] = File("whole", job[p][r].res)] \/ UNCHANGED cache
        BY <2>1 DEF Rename
      <3>3. cache'[r] = File("whole", job[p][r].res) \/ cache'[r] = cache[r]
        BY <3>2 DEF TypeOK
      <3>4. \A x \in Repos \ {r} : cache'[x] = cache[x]
        BY <3>2 DEF TypeOK
      <3>5. File("whole", job[p][r].res).state = job[p][r].res
        BY DEF File
      <3> QED BY <3>1, <3>3, <3>4, <3>5 DEF HonestInv, NeverFresherThanSeen
    <2>2. CASE UNCHANGED cache
      BY <2>2 DEF HonestInv, NeverFresherThanSeen
    <2> QED BY <2>1, <2>2, Frames
  <1> QED BY <1>1, <1>2, <1>3 DEF HonestInv, NeverFresherThanSeen

-----------------------------------------------------------------------------
(* Theorems *)

LEMMA InitIInv == Init => IInv
  <1> SUFFICES ASSUME Init PROVE IInv
    OBVIOUS
  <1>1. TypeOK
    <2>1. File("none", Cold) \in Files /\ File("broken", Cold) \in Files
      BY ColdTypes DEF File, Files
    <2>2. cache \in [Repos -> Files]
      BY <2>1 DEF Init
    <2>3. 1 \in 1..MaxTime /\ 0 \in 0..Parallelism
      OBVIOUS
    <2>4. time \in Times /\ slots \in [Procs -> 0..Parallelism]
      BY <2>3 DEF Init, Times
    <2> QED BY <2>2, <2>4, ColdTypes DEF Init, TypeOK
  <1>2. OffInv /\ PendingHasEnd /\ SpinnerTurns
    BY DEF Init, OffInv, PendingHasEnd, SpinnerTurns, NoJob
  <1>3. HonestInv
    BY DEF Init, HonestInv, NeverFresherThanSeen, JobHonest, Honest, NoJob, Cold, File
  <1>4. WithinParallelism
    <2>1. \A p \in Procs : Holding(p) = {}
      BY DEF Init, Holding, NoJob
    <2> QED BY <2>1, FS_EmptySet DEF Init, WithinParallelism
  <1> QED BY <1>1, <1>2, <1>3, <1>4 DEF IInv

\* The strengthened invariant holds in every reachable state.
THEOREM Invariance == Spec => []IInv
  <1>1. IInv /\ [Next]_vars => IInv'
    BY TypePreserved, OffPreserved, PendingPreserved, SpinnerPreserved, HonestPreserved,
       SlotsPreserved DEF IInv
  <1> QED BY <1>1, InitIInv, PTL DEF Spec

\* Type correctness; the number of slots in use included.
THEOREM TypeCorrect == Spec => []TypeOK
  BY Invariance, PTL DEF IInv

\* A repository marked pending in the list has exactly one refresh under way.
THEOREM PendingHas == Spec => []PendingHasEnd
  BY Invariance, PTL DEF IInv

\* Every process stays within global.parallelism and loses no slot.
THEOREM Within == Spec => []WithinParallelism
  BY Invariance, PTL DEF IInv

\* The spinner turns while anything is pending.
THEOREM Turns == Spec => []SpinnerTurns
  BY Invariance, PTL DEF IInv

\* No state shown or cached claims to be fresher than what was seen.
THEOREM NeverFresher == Spec => []NeverFresherThanSeen
  BY Invariance, PTL DEF IInv, HonestInv

\* Whatever dies, a whole cache file stays whole.
THEOREM StaysWhole == Spec => CacheStaysWhole
  <1>1. IInv /\ [Next]_vars =>
           [\A r \in Repos : cache[r].kind = "whole" => cache'[r].kind = "whole"]_vars
    <2> SUFFICES ASSUME IInv, Next, NEW r \in Repos, cache[r].kind = "whole"
                 PROVE  cache'[r].kind = "whole"
      OBVIOUS
    <2>1. ASSUME NEW p \in Procs, NEW x \in Repos, Rename(p, x)
          PROVE  cache'[r].kind = "whole"
      <3>1. cache' = [cache EXCEPT ![x] = File("whole", job[p][x].res)] \/ UNCHANGED cache
        BY <2>1 DEF Rename
      <3>2. cache'[r] = File("whole", job[p][x].res) \/ cache'[r] = cache[r]
        BY <3>1 DEF IInv, TypeOK
      <3>3. File("whole", job[p][x].res).kind = "whole"
        BY DEF File
      <3> QED BY <3>2, <3>3
    <2>2. CASE UNCHANGED cache
      BY <2>2
    <2> QED BY <2>1, <2>2, Frames
  <1> QED BY <1>1, Invariance, PTL DEF Spec, CacheStaysWhole

\* A status --refresh that exits 0 saw and saved every repository itself.
THEOREM ZeroSaved == Spec => ZeroMeansSaved
  <1> DEFINE Step == \A c \in Clis : code'[c] = "zero" /\ code[c] # "zero" =>
          \A r \in Repos : job[c][r].saved /\ ~job[c][r].res.err /\ job[c][r].res.at > 0
  <1>1. IInv /\ [Next]_vars => [Step]_vars
    <2> SUFFICES ASSUME IInv, Next, NEW c \in Clis, code'[c] = "zero", code[c] # "zero",
                        NEW r \in Repos
                 PROVE  job[c][r].saved /\ ~job[c][r].res.err /\ job[c][r].res.at > 0
      OBVIOUS
    <2>1. CASE CliEnds(c)
      <3>1. job[c][r].step = "over" /\ job[c][r].saved /\ ~job[c][r].res.err
        BY <2>1 DEF CliEnds, IInv, TypeOK
      <3> QED BY <3>1 DEF IInv, HonestInv, JobHonest
    <2>2. ASSUME NEW d \in Clis, StartCli(d) \/ (d # c /\ CliEnds(d)) PROVE FALSE
      BY <2>2 DEF StartCli, CliEnds, IInv, TypeOK
    <2>3. CASE UNCHANGED code
      BY <2>3
    <2> QED BY <2>1, <2>2, <2>3, Frames
  <1> QED BY <1>1, Invariance, PTL DEF Spec, ZeroMeansSaved
=============================================================================
