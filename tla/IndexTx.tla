-------------------------------- MODULE IndexTx --------------------------------
(***************************************************************************)
(* The index transaction of the browse database and the queries that read  *)
(* what it committed (internal/browsedb/index.go, index_insert.go,         *)
(* queries.go).  A path is the sequence of its names, the root is <<>>; a  *)
(* node is a record of a path, a type and a size.  Nodes may arrive in any *)
(* order, each once, which is all index_insert.go asks of restic; that a   *)
(* stream is complete before Commit is the business of BrowseSession.      *)
(* Owners, times and permissions are carried along unread and left out.    *)
(***************************************************************************)
EXTENDS Integers, Sequences, FiniteSets, FiniteSetsExt, SequencesExt

CONSTANTS Snapshots, \* snapshots of one repository
          Tree,      \* the nodes of each, the root record included
          BatchRows, \* rows per INSERT
          CheckRows, \* diskCheckRows
          NoTx       \* no transaction

ASSUME IndexAssumption ==
    /\ BatchRows \in Nat \ {0} /\ CheckRows \in Nat \ {0}
    /\ DOMAIN Tree = Snapshots
    /\ \A s \in Snapshots :
         /\ IsFiniteSet(Tree[s]) /\ Tree[s] \subseteq [path : Seq(STRING), type : STRING, size : Nat]
         /\ \A m, n \in Tree[s] : m.path = n.path => m = n

VARIABLES
    snapshots, \* table snapshots: repo and snapshot to sid, entries, whether indexed
    dirs,      \* table dirs: a set of rows (did is a primary key)
    nodes,     \* table nodes: a sequence of rows, nothing makes them unique
    tx         \* the IndexTx, or NoTx

indexVars == <<snapshots, dirs, nodes, tx>>

Parent(p) == SubSeq(p, 1, Len(p) - 1)
Name(p) == p[Len(p)]
IsUnder(p, d) == Len(d) < Len(p) /\ SubSeq(p, 1, Len(d)) = d
IsDir(n) == n.type = "dir"

IndexInit ==
    /\ snapshots = [s \in {} |-> <<>>] /\ dirs = {} /\ nodes = <<>> /\ tx = NoTx

-----------------------------------------------------------------------------
(* IndexTx: operators from a transaction to a transaction. *)

\* ensureCleanDir: p and its missing ancestors, topmost first, get the next ids.
EnsureDir(t, p) ==
    LET known == {k \in 0..Len(p) : SubSeq(p, 1, k) \in DOMAIN t.dids}
        top == IF known = {} THEN -1 ELSE Max(known)
        added == [i \in 1..(Len(p) - top) |-> SubSeq(p, 1, top + i)]
        id(i) == t.nextDID + i - 1
        did(q) == IF q \in DOMAIN t.dids THEN t.dids[q] ELSE id(Len(q) - top)
        row(i) == [did |-> id(i), path |-> added[i], size |-> 0,
                   parent |-> IF added[i] = <<>> THEN 0 ELSE did(Parent(added[i]))]
    IN  [t EXCEPT !.dids = [q \in DOMAIN t.dids \cup Range(added) |-> did(q)],
                  !.dirBuf = @ \o [i \in DOMAIN added |-> row(i)],
                  !.sizes = @ \o [i \in DOMAIN added |-> 0],
                  !.nextDID = @ + Len(added)]

CacheParent(t, p) == [t EXCEPT !.cached = p, !.cachedDID = t.dids[p]]

\* parentDID: the one-entry cache first, as streams list siblings together.
WithParent(t, p) ==
    IF Parent(p) = t.cached THEN t
    ELSE CacheParent(EnsureDir(t, Parent(p)), Parent(p))

\* Add up to the buffer: directories become the cached parent, other nodes
\* add their size to their parent's.
Buffer(t, n) ==
    LET u == WithParent(t, n.path)
        v == IF IsDir(n) THEN CacheParent(EnsureDir(u, n.path), n.path)
             ELSE [u EXCEPT !.sizes[u.cachedDID - u.firstDID + 1] = @ + n.size]
    IN  [v EXCEPT !.buf = Append(@, [sid |-> t.sid, parent |-> u.cachedDID,
                                     name |-> Name(n.path), type |-> n.type, size |-> n.size]),
                  !.sinceCheck = @ + 1]

\* flush: one INSERT of all buffered rows, or the sticky failure.
Flush(t) == [t EXCEPT !.rows = @ \o t.buf, !.buf = <<>>]
Fail(t) == [t EXCEPT !.failed = TRUE]

\* Mutant: the pass goes upwards and misses what a child still has to get.
FoldSizesUp(t) ==
    LET into(sizes, row) ==
            IF row.parent >= t.firstDID
              THEN [sizes EXCEPT ![row.parent - t.firstDID + 1] = @ + sizes[row.did - t.firstDID + 1]]
              ELSE sizes
    IN  FoldLeft(into, t.sizes, t.dirBuf)

\* foldSubtreeSizes: one pass in descending id, each directory into its parent.
FoldSizes(t) ==
    LET into(sizes, row) ==
            IF row.parent >= t.firstDID
              THEN [sizes EXCEPT ![row.parent - t.firstDID + 1] = @ + sizes[row.did - t.firstDID + 1]]
              ELSE sizes
        count == Len(t.dirBuf)
        folded[k \in 0..count] == IF k = 0 THEN t.sizes ELSE into(folded[k - 1], t.dirBuf[count + 1 - k])
    IN  folded[count]

\* The rows flushDirs writes.
DirRows(t) ==
    LET sizes == FoldSizes(t)
    IN  {[did |-> r.did, sid |-> t.sid, path |-> r.path, size |-> sizes[r.did - t.firstDID + 1]]
            : r \in Range(t.dirBuf)}

-----------------------------------------------------------------------------
(* Operations. *)

\* allocSID: a reservation that was never committed is used again.
Sid(s) ==
    IF s \in DOMAIN snapshots THEN snapshots[s].sid
    ELSE 1 + Max({0} \cup {snapshots[r].sid : r \in DOMAIN snapshots})

\* Mutant: directory ids start over in each transaction.
NewTxFromOne(s) ==
    LET t == [snap |-> s, sid |-> Sid(s), left |-> Tree[s], firstDID |-> 1, nextDID |-> 1,
              dids |-> [q \in {} |-> 0], dirBuf |-> <<>>, sizes |-> <<>>, buf |-> <<>>, rows |-> <<>>,
              cached |-> <<>>, cachedDID |-> 0, sinceCheck |-> 0, failed |-> FALSE]
    IN  CacheParent(EnsureDir(t, <<>>), <<>>)

\* The transaction of snapshot s that BeginIndex returns, with the root interned.
NewTx(s) ==
    LET first == 1 + Max({0} \cup {d.did : d \in dirs})
        t == [snap |-> s, sid |-> Sid(s), left |-> Tree[s], firstDID |-> first, nextDID |-> first,
              dids |-> [q \in {} |-> 0], dirBuf |-> <<>>, sizes |-> <<>>, buf |-> <<>>, rows |-> <<>>,
              cached |-> <<>>, cachedDID |-> 0, sinceCheck |-> 0, failed |-> FALSE]
    IN  CacheParent(EnsureDir(t, <<>>), <<>>)

IsIndexed(s) == s \in DOMAIN snapshots /\ snapshots[s].indexed

\* An indexed snapshot is refused (errAlreadyIndexed).
BeginIndex(s) ==
    /\ tx = NoTx /\ ~IsIndexed(s)
    /\ tx' = NewTx(s)
    /\ UNCHANGED <<snapshots, dirs, nodes>>

\* Add of the record for the root, which has no row.
AddRoot ==
    /\ tx # NoTx /\ ~tx.failed
    /\ \E n \in tx.left : n.path = <<>> /\ tx' = [tx EXCEPT !.left = @ \ {n}]
    /\ UNCHANGED <<snapshots, dirs, nodes>>

\* Add: buffer, flush a full batch, look at the disk ceiling now and then; a
\* failed INSERT or a full disk sticks.
Add ==
    /\ tx # NoTx /\ ~tx.failed
    /\ \E n \in tx.left :
         /\ n.path # <<>>
         /\ LET b == [Buffer(tx, n) EXCEPT !.left = @ \ {n}]
                isFull == Len(b.buf) >= BatchRows
                f == IF isFull THEN Flush(b) ELSE b
                isDue == f.sinceCheck >= CheckRows
                c == IF isDue THEN [f EXCEPT !.sinceCheck = 0] ELSE f
            IN  \/ tx' = c
                \/ isFull /\ tx' = Fail([b EXCEPT !.buf = <<>>])
                \/ isDue /\ tx' = Fail(c)
    /\ UNCHANGED <<snapshots, dirs, nodes>>

\* Commit of a whole stream: last batch, sizes, directories and the marker
\* become visible together.
Commit ==
    /\ tx # NoTx /\ ~tx.failed /\ tx.left = {}
    /\ LET t == Flush(tx) IN
         /\ nodes' = nodes \o t.rows
         /\ dirs' = dirs \cup DirRows(t)
         /\ snapshots' = [s \in DOMAIN snapshots \cup {t.snap} |->
                            IF s = t.snap THEN [sid |-> t.sid, entries |-> Len(t.rows), indexed |-> TRUE]
                            ELSE snapshots[s]]
    /\ tx' = NoTx

\* Rollback, also the end of a Commit that failed at any of its steps.
Rollback ==
    /\ tx # NoTx /\ tx' = NoTx
    /\ UNCHANGED <<snapshots, dirs, nodes>>

IndexNext == (\E s \in Snapshots : BeginIndex(s)) \/ AddRoot \/ Add \/ Commit \/ Rollback

IndexSpec == IndexInit /\ [][IndexNext]_indexVars

-----------------------------------------------------------------------------
(* Queries over the committed tables. *)

\* dirSizes: positive recursive sizes by path, zero for what is absent.
DirSize(s, p) ==
    LET found == {d \in dirs : d.sid = snapshots[s].sid /\ d.path = p /\ d.size > 0}
    IN  IF found = {} THEN 0 ELSE (CHOOSE d \in found : TRUE).size

\* A row as an entry below its parent, with fillDirSizes.
Entry(s, path, r) ==
    LET p == Append(path, r.name)
    IN  [path |-> p, type |-> r.type, size |-> IF IsDir(r) THEN DirSize(s, p) ELSE r.size]

RowsIn(did) == {i \in DOMAIN nodes : nodes[i].parent = did}

\* ListDir, an entry per row: none for a snapshot that is not indexed or an unknown directory.
ListDir(s, dir) ==
    LET ids == IF IsIndexed(s)
                 THEN {d.did : d \in {e \in dirs : e.sid = snapshots[s].sid /\ e.path = dir}} ELSE {}
    IN  IF ids = {} THEN <<>>
        ELSE [i \in RowsIn(CHOOSE did \in ids : TRUE) |-> Entry(s, dir, nodes[i])]

\* SubtreeCounts: files and directories under dir, by the range of their parents' paths.
SubtreeCounts(s, dir) ==
    LET sid == snapshots[s].sid
        within == {d.did : d \in {e \in dirs : e.sid = sid /\ (e.path = dir \/ IsUnder(e.path, dir))}}
        count(type) == Cardinality({i \in DOMAIN nodes :
                                      nodes[i].sid = sid /\ nodes[i].parent \in within /\ nodes[i].type = type})
    IN  [files |-> count("file"), dirs |-> count("dir")]

\* Search: every row of the snapshot whose name matches, joined to its parent's path.
Search(s, name) ==
    LET rows == {i \in DOMAIN nodes : IsIndexed(s) /\ nodes[i].sid = snapshots[s].sid /\ nodes[i].name = name}
        dir(r) == CHOOSE d \in dirs : d.did = r.parent
    IN  [i \in rows |-> Entry(s, dir(nodes[i]).path, nodes[i])]

-----------------------------------------------------------------------------
(* The namespace the queries are to agree with, by definition. *)

\* The recursive size of directory d of s.
TrueSize(s, d) == MapThenSumSet(LAMBDA n : n.size, {n \in Tree[s] : ~IsDir(n) /\ IsUnder(n.path, d)})

TrueEntry(s, n) == [path |-> n.path, type |-> n.type,
                    size |-> IF IsDir(n) THEN TrueSize(s, n.path) ELSE n.size]

TrueEntries(s, ns) == {TrueEntry(s, n) : n \in ns}
Below(s, d) == {n \in Tree[s] : IsUnder(n.path, d)}

\* The entries found are those of a set, each once.
IsListing(found, set) == Range(found) = set /\ IsInjective(found)

AllDirs == {<<>>} \cup UNION {{SubSeq(n.path, 1, k) : k \in 1..Len(n.path)} : n \in UNION Range(Tree)}
AllNames == {Name(p) : p \in AllDirs \ {<<>>}}

\* What browsing shows of an indexed snapshot is that snapshot: every listing,
\* recursive size, count and search agrees with the tree restic streamed, in
\* whatever order and however batched; nothing of it is visible before Commit,
\* nor of another snapshot in the same tables (index.go, queries.go).
IndexIsExact ==
    \A s \in Snapshots, d \in AllDirs :
        IF IsIndexed(s)
          THEN /\ IsListing(ListDir(s, d), TrueEntries(s, {n \in Below(s, d) : Parent(n.path) = d}))
               /\ LET c == SubtreeCounts(s, d) IN
                    /\ c.files = Cardinality({n \in Below(s, d) : n.type = "file"})
                    /\ c.dirs = Cardinality({n \in Below(s, d) : IsDir(n)})
               /\ \A name \in AllNames :
                    IsListing(Search(s, name), TrueEntries(s, {n \in Below(s, <<>>) : Name(n.path) = name}))
               /\ snapshots[s].entries = Cardinality(Below(s, <<>>))
          ELSE ListDir(s, d) = <<>>

IndexTypeOK ==
    /\ DOMAIN snapshots \subseteq Snapshots
    /\ \A s \in DOMAIN snapshots : snapshots[s].sid \in Nat \ {0} /\ snapshots[s].entries \in Nat
    /\ \A d, e \in dirs : d.did = e.did => d = e
    /\ \A i \in DOMAIN nodes : \E d \in dirs : nodes[i].parent = d.did
    /\ tx # NoTx => /\ tx.snap \in Snapshots /\ tx.left \subseteq Tree[tx.snap]
                    /\ Len(tx.sizes) = Len(tx.dirBuf) /\ tx.failed \in BOOLEAN
===============================================================================
