------------------------------ MODULE RepoStatus -------------------------------
(***************************************************************************)
(* The health of a repository as the list and the exit code of status      *)
(* report it (internal/model/status.go, internal/app/status.go).  Times    *)
(* are integers; None is a time that is not known.                         *)
(***************************************************************************)
EXTENDS Integers, Sequences, FiniteSets

CONSTANT None
ASSUME StatusAssumption == None \notin Int

Statuses == {"green", "amber", "red", "grey", "error"}

\* EvaluateStatus: p are thresholds, s is the observed state of a repository.
EvaluateStatus(now, p, s) ==
    LET age == now - s.lastSnapshot
        isLockStale == s.lockedSince # None /\ p.lockMaxAge > 0 /\ now - s.lockedSince > p.lockMaxAge
    IN  CASE s.lastError -> "error"
          [] ~s.lastError /\ s.refreshedAt = None -> "grey"
          [] ~s.lastError /\ s.refreshedAt # None /\ (isLockStale \/ s.lastSnapshot = None) -> "red"
          [] OTHER -> IF age <= p.expectedFrequency THEN "green"
                      ELSE IF age <= p.expectedFrequency + p.staleGrace THEN "amber" ELSE "red"

\* statusRow: the marker of cached data that is out of date.
IsStale(now, staleAfter, s) ==
    s.refreshedAt # None /\ staleAfter > 0 /\ now - s.refreshedAt > staleAfter

\* WorstExitCode, for the statuses of all rows.
WorstExitCode(statuses) ==
    IF statuses \subseteq {"green"} THEN 0 ELSE IF statuses \subseteq {"green", "amber"} THEN 1 ELSE 2

-----------------------------------------------------------------------------
\* How bad a status is to a script.
Severity(status) == WorstExitCode({status})

\* A repository does not get better, nor its data fresher, by waiting: only a
\* refresh can do that.  And a zero exit code hides nothing: every repository
\* was refreshed, without error, and has a snapshot no older than it should be
\* (status.go, EvaluateStatus, WorstExitCode).
WaitingNeverHelps(now, later, p, staleAfter, s) ==
    now <= later =>
        /\ Severity(EvaluateStatus(now, p, s)) <= Severity(EvaluateStatus(later, p, s))
        /\ IsStale(now, staleAfter, s) => IsStale(later, staleAfter, s)
        /\ Severity(EvaluateStatus(now, p, s)) = 0 =>
             /\ ~s.lastError /\ s.refreshedAt # None /\ s.lastSnapshot # None
             /\ now <= s.lastSnapshot + p.expectedFrequency
===============================================================================
