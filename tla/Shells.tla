--------------------------------- MODULE Shells ---------------------------------
(***************************************************************************)
(* Shells with a repository's credentials (internal/app/shell.go and       *)
(* shellprompt.go, internal/tui/repo_commands.go, cmd/resticscope/exec.go):*)
(* the temporary files a session writes before its child starts, and what  *)
(* becomes of them.  The interface prepares a session in a key handler and *)
(* hands it to Bubble Tea, which runs one child at a time; exec runs a     *)
(* shell, or the command after "--", and ends.                             *)
(***************************************************************************)
EXTENDS Naturals

CONSTANTS Shells,  \* sessions of one process
          First    \* the only one that exec has

ASSUME ShellsAssumption == First \in Shells

VARIABLES host,     \* [program, up]: "tui", "shell" or "command", and whether it runs
          session,  \* per session: [pc, kind, mode, prompt]
          files,    \* what is on disk: pairs of a session and "password" or "prompt"
          kept,    \* history: removals that failed
          told      \* sessions whose failed cleanup was shown

shellVars == <<host, session, files, kept, told>>

SessionConfig == [pc : {"none"}, kind : {"repo", "local"}, mode : {"file", "env"}, prompt : {"untagged", "file", "dir"}]

ShellsInit ==
    /\ host \in [program : {"tui", "shell", "command"}, up : {TRUE}]
    /\ session \in [Shells -> SessionConfig]
    /\ host.program # "tui" => \A s \in Shells : session[s].kind = "repo"
    /\ files = {} /\ kept = {} /\ told = {}

-----------------------------------------------------------------------------
InStep(s, step) == host.up /\ session[s].pc = step
Goes(s, step) == session' = [session EXCEPT ![s].pc = step]

\* The goroutine of Update is in no handler and waits for no child.
NoChild == \A s \in Shells : session[s].pc \in {"none", "queued", "done", "failed"}

\* Removals are tried one by one and may fail: gone is what they removed.
Unlink(wanted, gone) == gone \subseteq wanted /\ files' = files \ gone /\ kept' = kept \cup (wanted \ gone)

\* The key or the subcommand; secrets resolve, or the directory can be entered.
OpenShell(s) ==
    /\ InStep(s, "none") /\ NoChild /\ (host.program # "tui" => s = First)
    /\ \/ Goes(s, IF session[s].kind = "local" THEN "tag" ELSE "password")
       \/ Goes(s, "failed")
    /\ UNCHANGED <<host, files, kept, told>>

\* writePasswordFile.
WritePassword(s) ==
    /\ InStep(s, "password")
    /\ LET pw == {<<s, "password">>} IN
       \/ session[s].mode = "env" /\ Goes(s, "tag") /\ UNCHANGED <<files, kept>>
       \/ session[s].mode = "file" /\ Goes(s, "failed") /\ UNCHANGED <<files, kept>>
       \/ session[s].mode = "file" /\ Goes(s, "tag") /\ files' = files \cup pw /\ UNCHANGED kept
       \* Not written to the end: removed at once, as far as that works.
       \/ /\ session[s].mode = "file" /\ Goes(s, "failed")
          /\ \/ UNCHANGED <<files, kept>>
             \/ files' = files \cup pw /\ kept' = kept \cup pw
    /\ UNCHANGED <<host, told>>

\* applyPromptTag: without the tag the session is as good.
TagPrompt(s) ==
    /\ InStep(s, "tag") /\ Goes(s, "queued")
    /\ LET rc == {<<s, "prompt">>} IN
       \/ UNCHANGED <<files, kept>>
       \/ session[s].prompt # "untagged" /\ files' = files \cup rc /\ UNCHANGED kept
       \/ session[s].prompt # "untagged" /\ files' = files \cup rc /\ kept' = kept \cup rc
    /\ UNCHANGED <<host, told>>

Launch(s) == InStep(s, "queued") /\ NoChild /\ Goes(s, "running") /\ UNCHANGED <<host, files, kept, told>>

\* The child has ended, or could not be started.
ShellEnds(s) == InStep(s, "running") /\ Goes(s, "exited") /\ UNCHANGED <<host, files, kept, told>>

OwnFiles(s) == {f \in files : f[1] = s /\ f \notin kept}

\* Mutant: the second removal depends on the first.
CleanUpFirst(s) ==
    /\ InStep(s, "exited") /\ Goes(s, "done")
    /\ \/ Unlink(OwnFiles(s), OwnFiles(s))
       \/ \E f \in OwnFiles(s) : (f[2] = "password" \/ OwnFiles(s) = {f}) /\ Unlink({f}, {})
    /\ told' = IF host.program = "tui" /\ kept' # kept THEN told \cup {s} ELSE told
    /\ UNCHANGED host

\* The session's Cleanup: both files, whatever becomes of the other; the
\* interface reports what stayed, exec does not.
CleanUp(s) ==
    /\ InStep(s, "exited") /\ Goes(s, "done")
    /\ \E gone \in SUBSET OwnFiles(s) : Unlink(OwnFiles(s), gone)
    /\ told' = IF host.program = "tui" /\ kept' # kept THEN told \cup {s} ELSE told
    /\ UNCHANGED host

\* Quitting the interface leaves queued sessions to nobody; exec returns.
Leave ==
    /\ host.up /\ NoChild /\ (host.program # "tui" => session[First].pc \in {"done", "failed"})
    /\ host' = [host EXCEPT !.up = FALSE]
    /\ UNCHANGED <<session, files, kept, told>>

\* ctrl+c in exec's terminal ends it on the spot, unless a shell has the
\* terminal; deferred calls do not run.  The interface reads it as a key.
Interrupt ==
    /\ host.up /\ host.program # "tui" /\ session[First].pc # "none"
    /\ host.program = "shell" => session[First].pc # "running"
    /\ host' = [host EXCEPT !.up = FALSE]
    /\ UNCHANGED <<session, files, kept, told>>

ShellsNext ==
    \/ \E s \in Shells :
          \/ OpenShell(s) \/ WritePassword(s) \/ TagPrompt(s)
          \/ Launch(s) \/ ShellEnds(s) \/ CleanUp(s)
    \/ Leave \/ Interrupt

-----------------------------------------------------------------------------
(* buildShellEnv and stripCredEnv, on the names of the variables.          *)

CredFamily == {"RESTIC_REPOSITORY", "RESTIC_REPOSITORY_FILE", "RESTIC_PASSWORD", "RESTIC_PASSWORD_FILE", "RESTIC_PASSWORD_COMMAND",
               "RESTIC_CACHE_DIR", "RESTICSCOPE_REPO", "RESTICSCOPE_SNAPSHOT_ID", "AWS_ACCESS_KEY_ID", "AWS_PROFILE"}
KeptVars == {"AWS_PROFILE"}
Passwords == {"RESTIC_PASSWORD", "RESTIC_PASSWORD_FILE", "RESTIC_PASSWORD_COMMAND"}
Reserved == {"PATH", "HOME", "RESTIC_REPOSITORY", "RESTIC_REPOSITORY_FILE", "RESTIC_PASSWORD", "RESTIC_PASSWORD_FILE",
             "RESTIC_PASSWORD_COMMAND", "RESTIC_CACHE_DIR", "LD_PRELOAD"}

StripCredEnv(base) == base \ CredFamily

BackendEnviron(configured) == configured \ Reserved

\* The environment from its first part to its last, the names that each part sets;
\* of a name that is set twice the later value counts.
BuildShellEnv(base, configured, mode, snap) ==
    LET backend == BackendEnviron(configured)
    IN  <<[from |-> "inherited", names |-> base \ (backend \cup (CredFamily \ KeptVars))],
          [from |-> "own", names |-> {"RESTIC_REPOSITORY", "RESTICSCOPE_REPO"}],
          [from |-> "backend", names |-> backend],
          [from |-> "own", names |-> {"RESTIC_CACHE_DIR", IF mode = "env" THEN "RESTIC_PASSWORD" ELSE "RESTIC_PASSWORD_FILE"}
                                     \cup (IF snap THEN {"RESTICSCOPE_SNAPSHOT_ID"} ELSE {})]>>

-----------------------------------------------------------------------------
ShellsTypeOK == files \subseteq Shells \X {"password", "prompt"} /\ kept \subseteq files /\ told \subseteq Shells

\* A session that came to its end left no file behind but one whose own removal
\* failed; and when that was in its cleanup under the interface, the user was
\* told (writePasswordFile, chainCleanup, shellExitCallback).
NothingLeftBehind ==
    \A f \in files :
        /\ session[f[1]].pc \in {"done", "failed"} => f \in kept
        /\ (session[f[1]].pc = "done" /\ f[2] = "password" /\ host.program = "tui") => f[1] \in told

\* The environment has one repository's context: what was inherited of any
\* credential family is gone but for the profile selectors, all else that was
\* inherited stays, nothing is set twice but resticscope's own variables that a
\* repository may be configured with, and the password arrives one way only.
EnvIsScoped(base, configured, mode, snap) ==
    LET env == BuildShellEnv(base, configured, mode, snap)
        names == UNION {env[i].names : i \in 1..4}
    IN  /\ env[1].names \subseteq base \ (CredFamily \ KeptVars)
        /\ base \ CredFamily \subseteq names /\ StripCredEnv(base) \cap CredFamily = {}
        /\ \A i, j \in 1..4 : i < j => env[i].names \cap env[j].names \subseteq configured \cap {"RESTICSCOPE_REPO", "RESTICSCOPE_SNAPSHOT_ID"}
        /\ \E way \in Passwords : names \cap Passwords = {way}
===============================================================================
