--------------------------------- MODULE Prune ---------------------------------
(***************************************************************************)
(* resticscope cache prune (internal/app/prune.go): a walk over the        *)
(* entries of restic's cache root, in the order of their names, that ends  *)
(* where it is canceled or something cannot be read or removed.            *)
(***************************************************************************)
EXTENDS Integers, SequencesExt

\* entries[i]: [name, isDir, size]; repos: names; cacheName: RepoCacheName, which
\* may take two names to one.  trouble: at which entry and what goes wrong.
KnownCacheNames(repos, cacheName) == {cacheName[r] : r \in repos}

PruneCache(entries, known, all, dryRun, trouble) ==
    LET dirs == {i \in DOMAIN entries : entries[i].isDir}
        chosen == {i \in dirs : all \/ entries[i].name \notin known}
        stops == {i \in DOMAIN entries : i = trouble.at /\
                    \/ trouble.what = "canceled"
                    \/ trouble.what = "unreadable" /\ i \in dirs
                    \/ trouble.what = "not removed" /\ i \in chosen /\ ~dryRun}
        walked == {i \in dirs : \A s \in stops : i < s}
    IN  [failed |-> stops # {},
         entries |-> {[name |-> entries[i].name, isPruned |-> i \in chosen] : i \in walked},
         freed |-> MapThenSumSet(LAMBDA i : entries[i].size, chosen \cap walked),
         removed |-> IF dryRun THEN {} ELSE {entries[i].name : i \in chosen \cap walked},
         \* a removal that fails may have removed any part
         torn |-> {entries[i].name : i \in {i \in stops : trouble.what = "not removed"}}]

-----------------------------------------------------------------------------
\* Without --all no configured repository loses its cache, two that share one
\* included; a dry run announces what the same run removes; and a run that fails
\* part way still accounts for every directory it removed (PruneCache; the command
\* prints the error alone).
PruneIsExact(entries, repos, cacheName, all, trouble) ==
    LET Run(dry) == PruneCache(entries, KnownCacheNames(repos, cacheName), all, dry, trouble)
        done == Run(FALSE)
        pruned == {e.name : e \in {e \in done.entries : e.isPruned}}
    IN  /\ ~all => \A r \in repos : cacheName[r] \notin done.removed \cup done.torn
        /\ done.removed = pruned /\ done.torn \cap pruned = {}
        /\ done.freed = MapThenSumSet(LAMBDA i : entries[i].size, {i \in DOMAIN entries : entries[i].name \in done.removed})
        /\ Run(TRUE).removed = {} /\ (~done.failed => Run(TRUE) = [done EXCEPT !.removed = {}])
===============================================================================
