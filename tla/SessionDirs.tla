------------------------------ MODULE SessionDirs ------------------------------
(***************************************************************************)
(* Session directories of the browse database (internal/browsedb/          *)
(* sessions.go, lock_unix.go; opened and closed by cmd/resticscope/        *)
(* browse.go).  A process starts by scavenging what others left behind,    *)
(* may then open one session of its own, and may die at any step; several  *)
(* processes share one cache directory.  A directory's name is a random    *)
(* token and never used twice, so its lock file is one inode for good:     *)
(* holder is the owner of the advisory lock on it, removed or not.         *)
(***************************************************************************)
EXTENDS FiniteSets

CONSTANTS Procs,   \* processes, one after the other in one place
          Dirs,    \* the tokens processes may draw; bounds the sessions
          Nobody,  \* no process
          NoDir,   \* no directory
          Prompt   \* a creator takes its lock within staleThreshold

ASSUME SessionAssumption ==
    Nobody \notin Procs /\ NoDir \notin Dirs /\ Prompt \in BOOLEAN

VARIABLES
    pc,        \* where each process is
    cur,       \* the directory it is at work on
    todo,      \* what its ReadDir listed and it has not looked at yet
    present,   \* session directories on disk
    lockFile,  \* those with active.lock in them
    dbFile,    \* those with the database in them
    old,       \* those last modified staleThreshold ago or more
    holder,    \* the owner of each directory's advisory lock
    drawn,     \* tokens drawn so far
    supported  \* whether the file system has advisory locks

sessionVars == <<pc, cur, todo, present, lockFile, dbFile, old, holder, drawn, supported>>
diskVars == <<present, lockFile, dbFile, old>>

Places == {"start", "scan", "openLock", "tryLock", "unlock", "remove", "run",
           "lockFile", "flock", "openDB", "using", "release", "undo", "closing", "over", "dead"}

\* Where a process has created its directory but not yet locked it.
Unlocked == {"lockFile", "flock"}
\* Where a session holds its lock.
Locked == {"openDB", "using", "release"}

SessionInit ==
    /\ pc = [p \in Procs |-> "dead"] /\ cur = [p \in Procs |-> NoDir]
    /\ todo = [p \in Procs |-> {}]
    /\ present = {} /\ lockFile = {} /\ dbFile = {} /\ old = {} /\ drawn = {}
    /\ holder = [d \in Dirs |-> Nobody]
    /\ supported \in BOOLEAN

Goto(p, place) == pc' = [pc EXCEPT ![p] = place]
SetHolder(d, q) == holder' = [holder EXCEPT ![d] = q]

-----------------------------------------------------------------------------
(* CleanStaleSessions, run before the session of this process exists. *)

\* cmdTUI of a new process.
Start(p) ==
    /\ pc[p] = "dead" /\ Goto(p, "start")
    /\ UNCHANGED <<cur, todo, present, lockFile, dbFile, old, holder, drawn, supported>>

ReadDir(p) ==
    /\ pc[p] = "start" /\ Goto(p, "scan")
    /\ todo' = [todo EXCEPT ![p] = present]
    /\ UNCHANGED <<cur, diskVars, holder, drawn, supported>>

\* Mutant: however recent, a directory nobody has locked is taken for a stale one.
StatAnyAge(p, d) ==
    /\ pc[p] = "scan" /\ d \in todo[p]
    /\ todo' = [todo EXCEPT ![p] = @ \ {d}]
    /\ IF d \in present
         THEN Goto(p, "openLock") /\ cur' = [cur EXCEPT ![p] = d]
         ELSE UNCHANGED <<pc, cur>>
    /\ UNCHANGED <<diskVars, holder, drawn, supported>>

\* sessionIsStale, its first half: a missing or recent directory is not stale.
Stat(p, d) ==
    /\ pc[p] = "scan" /\ d \in todo[p]
    /\ todo' = [todo EXCEPT ![p] = @ \ {d}]
    /\ IF d \in present /\ d \in old
         THEN Goto(p, "openLock") /\ cur' = [cur EXCEPT ![p] = d]
         ELSE UNCHANGED <<pc, cur>>
    /\ UNCHANGED <<diskVars, holder, drawn, supported>>

\* An old directory without a lock file is stale; the file may also be unreadable.
OpenLock(p) ==
    /\ pc[p] = "openLock"
    /\ \/ cur[p] \in lockFile /\ Goto(p, "tryLock")
       \/ cur[p] \in lockFile /\ Goto(p, "scan")
       \/ cur[p] \notin lockFile /\ Goto(p, "remove")
    /\ UNCHANGED <<cur, todo, diskVars, holder, drawn, supported>>

\* tryLock: refused while anybody holds the lock, and where there are no locks.
TryLock(p) ==
    /\ pc[p] = "tryLock"
    /\ IF supported /\ holder[cur[p]] = Nobody
         THEN SetHolder(cur[p], p) /\ Goto(p, "unlock")
         ELSE Goto(p, "scan") /\ UNCHANGED holder
    /\ UNCHANGED <<cur, todo, diskVars, drawn, supported>>

Unlock(p) ==
    /\ pc[p] = "unlock" /\ SetHolder(cur[p], Nobody) /\ Goto(p, "remove")
    /\ UNCHANGED <<cur, todo, diskVars, drawn, supported>>

ScanDone(p) ==
    /\ pc[p] = "scan" /\ todo[p] = {} /\ Goto(p, "run")
    /\ cur' = [cur EXCEPT ![p] = NoDir]
    /\ UNCHANGED <<todo, diskVars, holder, drawn, supported>>

-----------------------------------------------------------------------------
(* os.RemoveAll unlinks entry by entry, then the directory, and may fail   *)
(* at any of them; every unlink makes the directory recent again.          *)

AfterRemoval == [remove |-> "scan", undo |-> "run", closing |-> "over"]

RemoveEntry(p) ==
    /\ pc[p] \in DOMAIN AfterRemoval
    /\ \/ /\ cur[p] \in lockFile
          /\ lockFile' = lockFile \ {cur[p]} /\ UNCHANGED dbFile
       \/ /\ cur[p] \in dbFile
          /\ dbFile' = dbFile \ {cur[p]} /\ UNCHANGED lockFile
    /\ old' = old \ {cur[p]}
    /\ UNCHANGED <<pc, cur, todo, present, holder, drawn, supported>>

RemoveDir(p) ==
    /\ pc[p] \in DOMAIN AfterRemoval
    /\ cur[p] \notin lockFile \cup dbFile
    /\ present' = present \ {cur[p]} /\ old' = old \ {cur[p]}
    /\ Goto(p, AfterRemoval[pc[p]])
    /\ UNCHANGED <<cur, todo, lockFile, dbFile, holder, drawn, supported>>

\* Removal is best-effort: the scan goes on, an open or a close reports it.
RemoveFails(p) ==
    /\ pc[p] \in DOMAIN AfterRemoval
    /\ Goto(p, AfterRemoval[pc[p]])
    /\ UNCHANGED <<cur, todo, diskVars, holder, drawn, supported>>

-----------------------------------------------------------------------------
(* newBrowseOpen and browseStore.Close. *)

Mkdir(p) ==
    /\ pc[p] = "run"
    /\ \E d \in Dirs \ drawn :
         /\ drawn' = drawn \cup {d} /\ present' = present \cup {d}
         /\ cur' = [cur EXCEPT ![p] = d]
    /\ Goto(p, "lockFile")
    /\ UNCHANGED <<todo, lockFile, dbFile, old, holder, supported>>

\* LockSession: the file, then the lock.
CreateLockFile(p) ==
    /\ pc[p] = "lockFile"
    /\ \/ /\ cur[p] \in present
          /\ lockFile' = lockFile \cup {cur[p]} /\ old' = old \ {cur[p]}
          /\ Goto(p, "flock")
       \/ Goto(p, "undo") /\ UNCHANGED <<lockFile, old>>
    /\ UNCHANGED <<cur, todo, present, dbFile, holder, drawn, supported>>

\* A platform with locks must grant this one; one without goes on unlocked.
Flock(p) ==
    /\ pc[p] = "flock"
    /\ IF ~supported THEN Goto(p, "openDB") /\ UNCHANGED holder
       ELSE IF holder[cur[p]] = Nobody
              THEN SetHolder(cur[p], p) /\ Goto(p, "openDB")
              ELSE Goto(p, "undo") /\ UNCHANGED holder
    /\ UNCHANGED <<cur, todo, diskVars, drawn, supported>>

\* Releases p's lock on d, where it holds it.
Release(p, d) == SetHolder(d, IF holder[d] = p THEN Nobody ELSE holder[d])

\* OpenContext; a failure closes the lock and removes the directory.
OpenDB(p) ==
    /\ pc[p] = "openDB"
    /\ \/ /\ cur[p] \in present
          /\ dbFile' = dbFile \cup {cur[p]} /\ old' = old \ {cur[p]}
          /\ Goto(p, "using") /\ UNCHANGED holder
       \/ Release(p, cur[p]) /\ Goto(p, "undo") /\ UNCHANGED <<dbFile, old>>
    /\ UNCHANGED <<cur, todo, present, lockFile, drawn, supported>>

\* browseStore.Close: the pool, the lock, the directory.
CloseDB(p) ==
    /\ pc[p] = "using" /\ Goto(p, "release")
    /\ UNCHANGED <<cur, todo, diskVars, holder, drawn, supported>>

CloseLock(p) ==
    /\ pc[p] = "release" /\ Release(p, cur[p]) /\ Goto(p, "closing")
    /\ UNCHANGED <<cur, todo, diskVars, drawn, supported>>

-----------------------------------------------------------------------------
(* The environment. *)

\* A process ends or dies: the kernel drops its locks.
Die(p) ==
    /\ pc[p] # "dead" /\ Goto(p, "dead")
    /\ cur' = [cur EXCEPT ![p] = NoDir] /\ todo' = [todo EXCEPT ![p] = {}]
    /\ holder' = [d \in Dirs |-> IF holder[d] = p THEN Nobody ELSE holder[d]]
    /\ UNCHANGED <<diskVars, drawn, supported>>

\* Three hours pass without a change in d.
Age(d) ==
    /\ d \in present \ old
    /\ Prompt => \A p \in Procs : ~(pc[p] \in Unlocked /\ cur[p] = d)
    /\ old' = old \cup {d}
    /\ UNCHANGED <<pc, cur, todo, present, lockFile, dbFile, holder, drawn, supported>>

Scavenge(p) ==
    \/ ReadDir(p) \/ (\E d \in Dirs : Stat(p, d)) \/ OpenLock(p) \/ TryLock(p) \/ Unlock(p)
    \/ ScanDone(p)
RemoveAll(p) == RemoveEntry(p) \/ RemoveDir(p) \/ RemoveFails(p)
Own(p) ==
    \/ Mkdir(p) \/ CreateLockFile(p) \/ Flock(p) \/ OpenDB(p)
    \/ CloseDB(p) \/ CloseLock(p)

SessionNext ==
    \/ \E p \in Procs : Start(p) \/ Scavenge(p) \/ RemoveAll(p) \/ Own(p) \/ Die(p)
    \/ \E d \in Dirs : Age(d)

SessionSpec == SessionInit /\ [][SessionNext]_sessionVars

-----------------------------------------------------------------------------
SessionTypeOK ==
    /\ pc \in [Procs -> Places] /\ cur \in [Procs -> Dirs \cup {NoDir}]
    /\ todo \in [Procs -> SUBSET Dirs]
    /\ present \subseteq Dirs /\ lockFile \subseteq present /\ dbFile \subseteq present
    /\ old \subseteq present /\ drawn \subseteq Dirs
    /\ holder \in [Dirs -> Procs \cup {Nobody}] /\ supported \in BOOLEAN

\* Nobody takes a live session away: while a process uses its database, the
\* directory, the lock file and the database are there, and where locks exist
\* the lock is its own.  Scavengers that were slow to act on what they saw
\* are the danger (sessions.go, sessionIsStale and the RemoveAll after it).
LiveSessionKept ==
    \A p \in Procs : pc[p] = "using" =>
        /\ cur[p] \in present \cap lockFile \cap dbFile
        /\ supported => holder[cur[p]] = p

\* The only one who may call a directory stale is one who finds it old and
\* without a living owner: a verdict, once reached, stays true until it is acted upon.
VerdictStays ==
    \A p, q \in Procs :
        pc[p] \in {"unlock", "remove"} => ~(pc[q] \in Unlocked \cup Locked /\ cur[q] = cur[p])
===============================================================================
