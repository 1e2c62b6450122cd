------------------------------- MODULE ResticRun -------------------------------
(***************************************************************************)
(* One streamed restic call: the child process and the goroutines around   *)
(* it (internal/resticx/exec.go, runStreamFDs), and the verdict the three  *)
(* callers draw from how it ended (browse.go, diff.go, treenode.go,        *)
(* errors.go).  Pipes are bounded counters of what is in them; what they   *)
(* carry is left out.  restic, the program it may start (a backend helper  *)
(* that inherits its pipes) and os/exec are the environment.               *)
(***************************************************************************)
EXTENDS Integers

CONSTANTS Cap,    \* what a pipe holds
          Lines,  \* what restic has to say on stdout
          Errors, \* and at most on stderr
          Patterns \* what goes to fd 4; bounds the payload

ASSUME ResticAssumption ==
    /\ Cap \in Nat \ {0} /\ Lines \in Nat /\ Errors \in Nat /\ Patterns \in Nat

VARIABLES
    op,      \* which caller: "ls", "diff" or "cat"
    ctx,     \* the caller's context: "live" or "canceled"
    late,    \* the deadline of the derived context has passed
    stop,    \* the callback canceled the derived context (ls)
    main,    \* where the calling goroutine is
    callback, \* how onStdout ended: "none", "ok", "decode" or "callback" error
    child,   \* restic: "none", "running", "ok", "failed" or "killed"
    helper,  \* a process that holds restic's pipes open
    stuck,   \* restic makes no progress on its own
    out, err, \* what is in the two pipes
    toOut, toErr, \* what restic has yet to write
    taken,   \* lines the callback has read
    copier,  \* the goroutine that copies stderr
    errOpen, \* our end of the stderr pipe, which Wait closes
    fd4, toFd4, \* what is in the pipe of the patterns, and what is yet to be written
    writer,  \* the goroutine that writes the patterns
    verdict  \* what the caller returned

resticVars == <<op, ctx, late, stop, main, callback, child, helper, stuck, out, err, toOut, toErr,
                taken, copier, errOpen, fd4, toFd4, writer, verdict>>
ctxVars == <<ctx, late, stop>>
childVars == <<child, helper, out, err, toOut, toErr>>
mainVars == <<main, callback, taken, verdict>>
sideVars == <<copier, errOpen, fd4, toFd4, writer>>
fixed == <<op, stuck>>

Done == ctx = "canceled" \/ late \/ stop
HasExited == child \in {"ok", "failed", "killed"}
\* Nobody is left who could write to restic's pipes.
WritersGone == HasExited /\ ~helper

ResticInit ==
    /\ op \in {"ls", "diff", "cat"} /\ stuck \in BOOLEAN
    /\ ctx = "live" /\ late = FALSE /\ stop = FALSE
    /\ main = "start" /\ callback = "none" /\ taken = 0 /\ verdict = "none"
    /\ child = "none" /\ helper = FALSE /\ out = 0 /\ err = 0
    /\ toOut = Lines /\ toErr \in 0..Errors
    /\ copier = "none" /\ errOpen = FALSE /\ fd4 = 0 /\ toFd4 \in 0..Patterns /\ writer = "none"

-----------------------------------------------------------------------------
(* runStreamFDs. *)

\* Pipes, writers, cmd.Start and the stderr copier; without a process the call is over.
StartChild ==
    /\ main = "start" /\ writer' = "writing"
    /\ \/ /\ child' = "running" /\ main' = "callback" /\ helper' \in BOOLEAN
          /\ copier' = "copying" /\ errOpen' = TRUE
       \/ /\ child' = "failed" /\ main' = "return" /\ UNCHANGED <<copier, errOpen, helper>>
    /\ UNCHANGED <<fixed, ctxVars, callback, taken, verdict, out, err, toOut, toErr, fd4, toFd4>>

\* onStdout takes a line.
TakeLine ==
    /\ main = "callback" /\ out > 0
    /\ out' = out - 1 /\ taken' = taken + 1
    /\ UNCHANGED <<fixed, ctxVars, main, callback, verdict, child, helper, err, toOut, toErr, sideVars>>

\* End of input; cut in the middle of a line it is a decode error (a search
\* for one record ends well either way and keeps its parse error aside).
TakeEnd ==
    /\ main = "callback" /\ out = 0 /\ WritersGone /\ main' = "drain"
    /\ \/ callback' = "ok"
       \/ child = "killed" /\ callback' = "decode"
    /\ UNCHANGED <<fixed, ctxVars, taken, verdict, childVars, sideVars>>

\* onStdout stops early: what it looked for is found (cat), a line is
\* malformed, or the consumer fails, which in ls also cancels restic.
StopEarly ==
    /\ main = "callback" /\ taken > 0 /\ main' = "drain"
    /\ \/ op = "cat" /\ callback' = "ok" /\ UNCHANGED stop
       \/ callback' = "decode" /\ UNCHANGED stop
       \/ op # "cat" /\ callback' = "callback" /\ stop' = (op = "ls")
    /\ UNCHANGED <<fixed, ctx, late, taken, verdict, childVars, sideVars>>

\* Mutant: straight to Wait, with output unread.
DrainNone ==
    /\ main = "drain" /\ main' = "wait"
    /\ UNCHANGED <<fixed, ctxVars, callback, taken, verdict, childVars, sideVars>>

\* io.Copy(io.Discard, stdout): unread output must not block restic for ever.
Drain ==
    /\ main = "drain"
    /\ \/ out > 0 /\ out' = out - 1 /\ UNCHANGED main
       \/ out = 0 /\ WritersGone /\ main' = "wait" /\ UNCHANGED out
    /\ UNCHANGED <<fixed, ctxVars, callback, taken, verdict, child, helper, err, toOut, toErr, sideVars>>

\* cmd.Wait: restic has exited; our ends of its pipes are closed.
Wait ==
    /\ main = "wait" /\ HasExited
    /\ main' = "join" /\ errOpen' = FALSE
    /\ UNCHANGED <<fixed, ctxVars, callback, taken, verdict, childVars, copier, fd4, toFd4, writer>>

Join ==
    /\ main = "join" /\ copier = "ended" /\ main' = "return"
    /\ UNCHANGED <<fixed, ctxVars, callback, taken, verdict, childVars, sideVars>>

\* The error of the callback first, then that of the process: Wait reports the
\* context where it had to kill restic, and its exit otherwise.
RunError ==
    IF callback \in {"decode", "callback"} /\ ~(op = "cat") THEN callback
    ELSE IF child = "ok" THEN "nil" ELSE "process"

\* classify: the context before the process.
Classify ==
    IF ctx = "canceled" \/ stop THEN "canceled" ELSE IF late THEN "timeout" ELSE "failed"

\* Mutant: the callback was content with what it read.
VerdictLsPlain ==
    IF ctx = "canceled" THEN "canceled"
    ELSE IF callback = "callback" THEN "callback"
    ELSE IF callback = "ok" THEN "complete"
    ELSE IF late THEN IF taken > 0 THEN "partial" ELSE "timeout"
    ELSE IF callback = "decode" THEN "parse" ELSE Classify

VerdictLs ==
    IF ctx = "canceled" THEN "canceled"
    ELSE IF callback = "callback" THEN "callback"
    ELSE IF RunError = "nil" THEN "complete"
    ELSE IF late THEN IF taken > 0 THEN "partial" ELSE "timeout"
    ELSE IF callback = "decode" THEN "parse" ELSE Classify

VerdictDiff ==
    IF ctx = "canceled" THEN "canceled"
    ELSE IF late THEN "timeout"
    ELSE IF callback \in {"decode", "callback"} THEN "callback"
    ELSE IF RunError = "nil" THEN "complete" ELSE Classify

VerdictCat ==
    IF ctx = "canceled" THEN "canceled"
    ELSE IF RunError # "nil" THEN Classify
    ELSE IF callback = "decode" THEN "parse" ELSE "complete"

\* The deferred closes release a writer nobody read from; the caller draws its verdict.
Return ==
    /\ main = "return" /\ main' = "returned"
    /\ verdict' = IF op = "ls" THEN VerdictLs ELSE IF op = "diff" THEN VerdictDiff ELSE VerdictCat
    /\ UNCHANGED <<fixed, ctxVars, callback, taken, childVars, sideVars>>

\* The goroutine on stderr: reads, ends at the end of input or when Wait closed it.
CopyErr ==
    /\ copier = "copying"
    /\ \/ errOpen /\ err > 0 /\ err' = err - 1 /\ UNCHANGED copier
       \/ (~errOpen \/ (err = 0 /\ WritersGone)) /\ copier' = "ended" /\ UNCHANGED err
    /\ UNCHANGED <<fixed, ctxVars, mainVars, child, helper, out, toOut, toErr, errOpen, fd4, toFd4, writer>>

\* The goroutine that feeds fd 4 blocks while the pipe is full and ends when
\* all is written or no reader is left, ours included.
WriteFd4 ==
    /\ writer = "writing"
    /\ \/ toFd4 > 0 /\ fd4 < Cap /\ fd4' = fd4 + 1 /\ toFd4' = toFd4 - 1 /\ UNCHANGED writer
       \/ (toFd4 = 0 \/ main = "returned") /\ writer' = "ended" /\ UNCHANGED <<fd4, toFd4>>
    /\ UNCHANGED <<fixed, ctxVars, mainVars, childVars, copier, errOpen>>

-----------------------------------------------------------------------------
(* The environment: contexts, os/exec's watcher, restic and its helper. *)

Cancel ==
    /\ ctx = "live" /\ main # "returned" /\ ctx' = "canceled"
    /\ UNCHANGED <<fixed, late, stop, mainVars, childVars, sideVars>>

Deadline ==
    /\ ~late /\ main # "returned" /\ late' = TRUE
    /\ UNCHANGED <<fixed, ctx, stop, mainVars, childVars, sideVars>>

\* exec.CommandContext: restic is killed, its helper is not.
Kill ==
    /\ Done /\ child = "running" /\ child' = "killed"
    /\ UNCHANGED <<fixed, ctxVars, mainVars, helper, out, err, toOut, toErr, sideVars>>

ReadFd4 ==
    /\ child = "running" /\ fd4 > 0 /\ fd4' = fd4 - 1
    /\ UNCHANGED <<fixed, ctxVars, mainVars, childVars, copier, errOpen, toFd4, writer>>

WriteOut ==
    /\ child = "running" /\ toOut > 0 /\ out < Cap
    /\ out' = out + 1 /\ toOut' = toOut - 1
    /\ UNCHANGED <<fixed, ctxVars, mainVars, child, helper, err, toErr, sideVars>>

WriteErr ==
    /\ child = "running" /\ toErr > 0 /\ err < Cap
    /\ err' = err + 1 /\ toErr' = toErr - 1
    /\ UNCHANGED <<fixed, ctxVars, mainVars, child, helper, out, toOut, sideVars>>

\* restic ends well once all is said, or fails at any time with its last words
\* said; it may leave its patterns unread.
Exit ==
    /\ child = "running" /\ toErr = 0
    /\ \/ toOut = 0 /\ child' = "ok"
       \/ child' = "failed"
    /\ UNCHANGED <<fixed, ctxVars, mainVars, helper, out, err, toOut, toErr, sideVars>>

\* A helper that restic left behind ends, in its own time.
HelperEnds ==
    /\ helper /\ HasExited /\ helper' = FALSE
    /\ UNCHANGED <<fixed, ctxVars, mainVars, child, out, err, toOut, toErr, sideVars>>

Call == StartChild \/ TakeLine \/ TakeEnd \/ StopEarly \/ Drain \/ Wait \/ Join \/ Return
Restic == WriteOut \/ WriteErr \/ Exit

ResticNext ==
    \/ Call \/ CopyErr \/ WriteFd4
    \/ Cancel \/ Deadline \/ Kill \/ ReadFd4 \/ Restic \/ HelperEnds

ResticSpec == ResticInit /\ [][ResticNext]_resticVars

\* Goroutines run and a kill works.  restic gets on with its work, each of its
\* steps on its own, and exits when all is said, or else its deadline passes; a
\* helper ends after restic.
ResticFairness ==
    /\ WF_resticVars(Call) /\ WF_resticVars(CopyErr) /\ WF_resticVars(WriteFd4) /\ WF_resticVars(Kill)
    /\ WF_resticVars(HelperEnds)
    /\ WF_resticVars(~stuck /\ WriteOut) /\ WF_resticVars(~stuck /\ WriteErr)
    /\ WF_resticVars(~stuck /\ toOut = 0 /\ Exit) /\ WF_resticVars(stuck /\ Deadline)

-----------------------------------------------------------------------------
ResticTypeOK ==
    /\ op \in {"ls", "diff", "cat"} /\ ctx \in {"live", "canceled"}
    /\ late \in BOOLEAN /\ stop \in BOOLEAN /\ helper \in BOOLEAN /\ stuck \in BOOLEAN /\ errOpen \in BOOLEAN
    /\ main \in {"start", "callback", "drain", "wait", "join", "return", "returned"}
    /\ callback \in {"none", "ok", "decode", "callback"}
    /\ child \in {"none", "running", "ok", "failed", "killed"}
    /\ out \in 0..Cap /\ err \in 0..Cap /\ fd4 \in 0..Cap
    /\ toOut \in 0..Lines /\ toErr \in 0..Errors /\ toFd4 \in 0..Patterns /\ taken \in 0..Lines
    /\ copier \in {"none", "copying", "ended"} /\ writer \in {"none", "writing", "ended"}
    /\ verdict \in {"none", "complete", "partial", "canceled", "timeout", "failed", "parse", "callback"}

\* A call that reports success got all of it: restic ended well and, unless
\* one record was looked for and found, every line it had was taken; a canceled
\* caller never hears of anything but its cancellation (browse.go, diff.go, treenode.go).
VerdictIsTrue ==
    /\ verdict = "complete" => child = "ok" /\ (op # "cat" => taken = Lines)
    /\ verdict = "partial" => taken > 0 /\ late
    /\ verdict = "timeout" => late
    /\ verdict \notin {"none", "canceled"} /\ ctx = "canceled" => FALSE

\* Nobody waits for ever: not the caller on a full pipe, a killed restic or the
\* copier, and no goroutine is left behind (exec.go, runStreamFDs).
CallEnds == <>[](main = "returned" /\ writer = "ended" /\ copier \in {"none", "ended"})
===============================================================================
