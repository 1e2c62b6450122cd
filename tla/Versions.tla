-------------------------------- MODULE Versions --------------------------------
(***************************************************************************)
(* Grouping the matches of restic find into versions of one file           *)
(* (internal/model/find.go).  A match is a record of a path, a type, a     *)
(* size and a modification time; display metadata is left out, as it is    *)
(* no part of the key.  snapTime gives the time of each cached snapshot;   *)
(* a snapshot outside its domain is unknown, its time the zero time 0.     *)
(***************************************************************************)
EXTENDS Integers, Arrange, FiniteSets, SequencesExt

Time(snapTime, s) == IF s \in DOMAIN snapTime THEN snapTime[s] ELSE 0

\* The hits of a result that count: the literal path, and a file as far as one can tell.
Counts(m, path) == m.path = path /\ m.type \in {"", "file"}
Key(m) == <<m.size, m.mtime>>

\* All hits in the order they are met: the snapshot and the key of each that counts.
Hits(results, path) ==
    LET met == FlattenSeq([i \in DOMAIN results |->
                  [j \in DOMAIN results[i].matches |->
                      [snapshot |-> results[i].snapshot, match |-> results[i].matches[j]]]])
    IN  KeptOf([n \in DOMAIN met |-> [snapshot |-> met[n].snapshot, key |-> Key(met[n].match)]],
               [n \in DOMAIN met |-> Counts(met[n].match, path)])

\* order: the keys, each where it is met first.
KeyOrder(hits) ==
    KeptOf([h \in DOMAIN hits |-> hits[h].key],
           [h \in DOMAIN hits |-> \A g \in DOMAIN hits : g < h => hits[g].key # hits[h].key])

\* The latest first, equals in the order they are in.
LatestFirst(s, time) == StableSorted(s, {p \in (DOMAIN s) \X (DOMAIN s) : time[p[1]] > time[p[2]]})

\* The snapshots that have version k, newest first.
Occurrences(hits, k, snapTime) ==
    LET found == KeptOf([h \in DOMAIN hits |-> hits[h].snapshot], [h \in DOMAIN hits |-> hits[h].key = k])
    IN  LatestFirst(found, [i \in DOMAIN found |-> Time(snapTime, found[i])])

\* Groups by their latest occurrence.
GroupFileVersions(results, path, snapTime) ==
    LET hits == Hits(results, path)
        keys == KeyOrder(hits)
        groups == [i \in DOMAIN keys |-> [key |-> keys[i], occurrences |-> Occurrences(hits, keys[i], snapTime)]]
    IN  LatestFirst(groups, [i \in DOMAIN groups |-> Time(snapTime, Head(groups[i].occurrences))])

-----------------------------------------------------------------------------
\* Each version is listed once with every snapshot that has it, newest first,
\* one it knows nothing of last; no foreign path and no directory is among
\* them; and the version on top is the one in the newest known snapshot
\* (find.go, GroupFileVersions).
VersionsAreExact(results, path, snapTime) ==
    LET groups == GroupFileVersions(results, path, snapTime)
        met == UNION {{i} \X DOMAIN results[i].matches : i \in DOMAIN results}
        hit(s, k) == {p \in met : /\ results[p[1]].snapshot = s /\ Counts(results[p[1]].matches[p[2]], path)
                                  /\ Key(results[p[1]].matches[p[2]]) = k}
        snaps == {results[i].snapshot : i \in DOMAIN results}
        keys == {Key(m) : m \in {n \in UNION {Range(results[i].matches) : i \in DOMAIN results} : Counts(n, path)}}
        newest(g) == \A i, j \in DOMAIN g.occurrences :
                        i < j => Time(snapTime, g.occurrences[i]) >= Time(snapTime, g.occurrences[j])
    IN  /\ {groups[i].key : i \in DOMAIN groups} = keys /\ Len(groups) = Cardinality(keys)
        /\ \A i \in DOMAIN groups :
             LET g == groups[i] IN
               /\ newest(g)
               /\ \A s \in snaps : Cardinality({n \in DOMAIN g.occurrences : g.occurrences[n] = s})
                                     = Cardinality(hit(s, g.key))
               /\ Range(g.occurrences) \subseteq snaps
               /\ \A k \in DOMAIN groups : i < k =>
                    \A n \in DOMAIN groups[k].occurrences :
                       Time(snapTime, Head(g.occurrences)) >= Time(snapTime, groups[k].occurrences[n])
===============================================================================
