---------------------------- MODULE BrowseSession ----------------------------
(***************************************************************************)
(* The session-scoped browse store (internal/app/browsesession.go).        *)
(*                                                                         *)
(* Workers are the TUI's command goroutines: each runs one store operation *)
(* at a time, an index ("index": IndexSnapshot) or a read ("query":        *)
(* ListDir, SubtreeCounts, SearchSnapshot).  Closers are the goroutines    *)
(* that call Close.  A worker holds opMu for a whole operation; mu guards  *)
(* the three shared fields.  A critical section of mu with no call in it   *)
(* is one step that needs mu free; the two that call store.Close() under   *)
(* mu take two steps and keep mu in between.                               *)
(*                                                                         *)
(* A handle is one result of open(): a database in a session directory of  *)
(* its own random name (cmd/resticscope/browse.go).  Rows are abstracted   *)
(* to how much of a snapshot's namespace they cover: "none", "some", "all".*)
(***************************************************************************)
EXTENDS FiniteSets

CONSTANTS Workers,    \* goroutines that run store operations
          Closers,    \* goroutines that call BrowseSession.Close
          Snapshots,  \* snapshots an operation may name
          Handles,    \* the stores open() can return; bounds the number of opens
          NoOne,      \* nil for a goroutine, a cancel function or a mutex holder
          NoStore     \* nil for a store

ASSUME ProcAssumption ==
    /\ Workers \cap Closers = {}
    /\ NoOne \notin Workers \cup Closers
    /\ NoStore \notin Handles
    /\ Snapshots # {}

Procs == Workers \cup Closers
Extent == {"none", "some", "all"}
Ops == [kind : {"index", "query"}, snap : Snapshots]
NoScan == [got |-> "none", timedOut |-> FALSE]

VARIABLES
    pc,        \* per worker: its control point
    cpc,       \* per closer: its control point
    opMu,      \* BrowseSession.opMu: its holder
    mu,        \* BrowseSession.mu: its holder across a store.Close()
    store,     \* BrowseSession.store
    closed,    \* BrowseSession.closed
    inflight,  \* BrowseSession.inflight: the worker whose operation it cancels
    grabbed,   \* per closer: the cancel function Close took under mu
    op,        \* per worker: the call it serves
    local,     \* per worker: the store its beginOp returned or opened
    canceled,  \* per worker: the context of the call it serves is done
    scan,      \* per worker: what the restic stream delivered so far
    ret,       \* per worker: what an index call is about to return
    db,        \* per handle: "unused", "open" or "closed" (directory removed)
    content,   \* per handle and snapshot: the committed rows
    tx         \* the worker with an open index transaction

sessVars == <<opMu, mu, store, closed, inflight>>
closeVars == <<cpc, grabbed>>
opVars   == <<op, local, scan, ret>>
dbVars   == <<db, content, tx>>
vars == <<pc, sessVars, closeVars, opVars, canceled, dbVars>>

\* Control points at which a worker holds opMu, those at which its operation is
\* registered in inflight, and those at which it uses the store.
Indexing   == {"stream", "commit", "rollback"}
Using      == {"use", "resolve", "begin", "release"} \cup Indexing
Opening    == {"opened", "install", "installClose"}
Registered == {"ensure", "opening", "fail"} \cup Opening \cup Using
Holding    == {"register"} \cup Registered
WorkerPC   == {"idle", "lockOp"} \cup Holding
CloserPC   == {"idle", "mark", "cancel", "wait", "shut", "closing", "done"}

TypeOK ==
    /\ pc \in [Workers -> WorkerPC]
    /\ cpc \in [Closers -> CloserPC]
    /\ opMu \in Procs \cup {NoOne}
    /\ mu \in Procs \cup {NoOne}
    /\ store \in Handles \cup {NoStore}
    /\ closed \in BOOLEAN
    /\ inflight \in Workers \cup {NoOne}
    /\ grabbed \in [Closers -> Workers \cup {NoOne}]
    /\ op \in [Workers -> Ops]
    /\ local \in [Workers -> Handles \cup {NoStore}]
    /\ canceled \in [Workers -> BOOLEAN]
    /\ scan \in [Workers -> [got : Extent, timedOut : BOOLEAN]]
    /\ ret \in [Workers -> {"ok", "error", "incomplete"}]
    /\ db \in [Handles -> {"unused", "open", "closed"}]
    /\ content \in [Handles -> [Snapshots -> Extent]]
    /\ tx \in Workers \cup {NoOne}

NoRows == [s \in Snapshots |-> "none"]

Init ==
    /\ pc = [w \in Workers |-> "idle"]
    /\ cpc = [c \in Closers |-> "idle"]
    /\ opMu = NoOne /\ mu = NoOne
    /\ store = NoStore /\ closed = FALSE /\ inflight = NoOne
    /\ grabbed = [c \in Closers |-> NoOne]
    /\ op = [w \in Workers |-> CHOOSE o \in Ops : TRUE]
    /\ local = [w \in Workers |-> NoStore]
    /\ canceled = [w \in Workers |-> FALSE]
    /\ scan = [w \in Workers |-> NoScan]
    /\ ret = [w \in Workers |-> "ok"]
    /\ db = [h \in Handles |-> "unused"]
    /\ content = [h \in Handles |-> NoRows]
    /\ tx = NoOne

Goto(w, l) == pc' = [pc EXCEPT ![w] = l]
CGoto(c, l) == cpc' = [cpc EXCEPT ![c] = l]

-----------------------------------------------------------------------------
(* beginOp *)

\* A caller enters beginOp.  Its context starts live: EndOp and an aborted
\* Register drop the context of the call before.
StartOp(w) ==
    /\ pc[w] = "idle"
    /\ \E o \in Ops : op' = [op EXCEPT ![w] = o]
    /\ Goto(w, "lockOp")
    /\ UNCHANGED <<sessVars, closeVars, local, scan, ret, canceled, dbVars>>

\* The caller's context is done: quit, esc, or a superseded view.  It does not
\* interrupt the wait for opMu.
CallerCancels(w) ==
    /\ pc[w] # "idle"
    /\ canceled' = [canceled EXCEPT ![w] = TRUE]
    /\ UNCHANGED <<pc, sessVars, closeVars, opVars, dbVars>>

LockOp(w) ==
    /\ pc[w] = "lockOp"
    /\ opMu = NoOne
    /\ opMu' = w
    /\ Goto(w, "register")
    /\ UNCHANGED <<mu, store, closed, inflight, closeVars, opVars, canceled, dbVars>>

\* Mutant: beginOp without its look at closed.
RegisterUnchecked(w) ==
    /\ pc[w] = "register"
    /\ mu = NoOne
    /\ inflight' = w
    /\ Goto(w, "ensure")
    /\ UNCHANGED <<opMu, mu, store, closed, closeVars, opVars, canceled, dbVars>>

\* Under mu: abort on a closed session, or make the operation cancellable.
Register(w) ==
    /\ pc[w] = "register"
    /\ mu = NoOne
    /\ \/ /\ closed
          /\ opMu' = NoOne
          /\ canceled' = [canceled EXCEPT ![w] = FALSE]
          /\ Goto(w, "idle")
          /\ UNCHANGED inflight
       \/ /\ ~closed
          /\ inflight' = w
          /\ Goto(w, "ensure")
          /\ UNCHANGED <<opMu, canceled>>
    /\ UNCHANGED <<mu, store, closed, closeVars, opVars, dbVars>>

\* ensureStore, first section of mu: closed, already open, or open it now.
Ensure(w) ==
    /\ pc[w] = "ensure"
    /\ mu = NoOne
    /\ \/ closed /\ Goto(w, "fail") /\ UNCHANGED local
       \/ /\ ~closed /\ store # NoStore
          /\ local' = [local EXCEPT ![w] = store]
          /\ Goto(w, "use")
       \/ ~closed /\ store = NoStore /\ Goto(w, "opening") /\ UNCHANGED local
    /\ UNCHANGED <<sessVars, closeVars, op, scan, ret, canceled, dbVars>>

\* open(ctx) runs without mu.  It cleans up after itself when it fails.
OpenStore(w) ==
    /\ pc[w] = "opening"
    /\ ~canceled[w]
    /\ \E h \in Handles :
          /\ db[h] = "unused"
          /\ db' = [db EXCEPT ![h] = "open"]
          /\ local' = [local EXCEPT ![w] = h]
    /\ Goto(w, "opened")
    /\ UNCHANGED <<sessVars, closeVars, op, scan, ret, canceled, content, tx>>

OpenFails(w) ==
    /\ pc[w] = "opening"
    /\ Goto(w, "fail")
    /\ UNCHANGED <<sessVars, closeVars, opVars, canceled, dbVars>>

\* browseStore.Close: the pool, the lock and the whole directory go.
Destroy(h) ==
    /\ db' = [db EXCEPT ![h] = "closed"]
    /\ content' = [content EXCEPT ![h] = NoRows]
    /\ UNCHANGED tx

\* Mutant: a context that ended during open forgets the new store.
DiscardForgets(w) ==
    /\ pc[w] = "opened"
    /\ canceled[w]
    /\ local' = [local EXCEPT ![w] = NoStore]
    /\ Goto(w, "fail")
    /\ UNCHANGED <<sessVars, closeVars, op, scan, ret, canceled, dbVars>>

\* A context that ended during open discards the new store.
DiscardOpened(w) ==
    /\ pc[w] = "opened"
    /\ canceled[w]
    /\ Destroy(local[w])
    /\ local' = [local EXCEPT ![w] = NoStore]
    /\ Goto(w, "fail")
    /\ UNCHANGED <<sessVars, closeVars, op, scan, ret, canceled>>

KeepOpened(w) ==
    /\ pc[w] = "opened"
    /\ ~canceled[w]
    /\ Goto(w, "install")
    /\ UNCHANGED <<sessVars, closeVars, opVars, canceled, dbVars>>

\* ensureStore, second section of mu: Close may have come in between.
Install(w) ==
    /\ pc[w] = "install"
    /\ mu = NoOne
    /\ ~closed
    /\ store' = local[w]
    /\ Goto(w, "use")
    /\ UNCHANGED <<opMu, mu, closed, inflight, closeVars, opVars, canceled, dbVars>>

InstallRefused(w) ==
    /\ pc[w] = "install"
    /\ mu = NoOne
    /\ closed
    /\ mu' = w
    /\ Goto(w, "installClose")
    /\ UNCHANGED <<opMu, store, closed, inflight, closeVars, opVars, canceled, dbVars>>

InstallClose(w) ==
    /\ pc[w] = "installClose"
    /\ Destroy(local[w])
    /\ local' = [local EXCEPT ![w] = NoStore]
    /\ mu' = NoOne
    /\ Goto(w, "fail")
    /\ UNCHANGED <<opMu, store, closed, inflight, closeVars, op, scan, ret, canceled>>

\* beginOp's error path and release: unregister, cancel, unlock opMu.
EndOp(w) ==
    /\ pc[w] \in {"fail", "release"}
    /\ mu = NoOne
    /\ inflight' = NoOne
    /\ opMu' = NoOne
    /\ local' = [local EXCEPT ![w] = NoStore]
    /\ scan' = [scan EXCEPT ![w] = NoScan]
    /\ ret' = [ret EXCEPT ![w] = "ok"]
    /\ canceled' = [canceled EXCEPT ![w] = FALSE]
    /\ Goto(w, "idle")
    /\ UNCHANGED <<mu, store, closed, closeVars, op, dbVars>>

-----------------------------------------------------------------------------
(* The operations *)

Visible(h) == {s \in Snapshots : content[h][s] # "none"}

Return(w, r) == ret' = [ret EXCEPT ![w] = r] /\ Goto(w, "release")

\* ListDir, SubtreeCounts, Search: one read of committed rows, or an error.
Query(w) ==
    /\ pc[w] = "use" /\ op[w].kind = "query"
    /\ Goto(w, "release")
    /\ UNCHANGED <<sessVars, closeVars, opVars, canceled, dbVars>>

\* IsIndexed; a done context makes the read fail.
CheckIndexed(w) ==
    /\ pc[w] = "use" /\ op[w].kind = "index"
    /\ \/ Return(w, "error")
       \/ ~canceled[w] /\ op[w].snap \in Visible(local[w]) /\ Return(w, "ok")
       \/ /\ ~canceled[w] /\ op[w].snap \notin Visible(local[w])
          /\ Goto(w, "resolve")
          /\ UNCHANGED ret
    /\ UNCHANGED <<sessVars, closeVars, op, local, scan, canceled, dbVars>>

\* Secrets.Resolve takes no context.
ResolveSecrets(w) ==
    /\ pc[w] = "resolve"
    /\ \/ Return(w, "error")
       \/ Goto(w, "begin") /\ UNCHANGED ret
    /\ UNCHANGED <<sessVars, closeVars, op, local, scan, canceled, dbVars>>

\* BeginIndex refuses a snapshot whose index is committed (errAlreadyIndexed).
BeginIndex(w) ==
    /\ pc[w] = "begin"
    /\ \/ Return(w, "error") /\ UNCHANGED tx
       \/ /\ ~canceled[w] /\ op[w].snap \notin Visible(local[w])
          /\ tx = NoOne
          /\ tx' = w
          /\ Goto(w, "stream")
          /\ UNCHANGED ret
    /\ UNCHANGED <<sessVars, closeVars, op, local, scan, canceled, db, content>>

\* The callback adds rows; the last one completes the namespace.
StreamRows(w) ==
    /\ pc[w] = "stream"
    /\ \/ scan[w].got = "none" /\ scan' = [scan EXCEPT ![w].got = "some"]
       \/ scan[w].got # "all" /\ scan' = [scan EXCEPT ![w].got = "all"]
    /\ UNCHANGED <<pc, sessVars, closeVars, op, local, ret, canceled, dbVars>>

\* browse.index_timeout expires.
StreamTimeout(w) ==
    /\ pc[w] = "stream" /\ ~scan[w].timedOut
    /\ scan' = [scan EXCEPT ![w].timedOut = TRUE]
    /\ UNCHANGED <<pc, sessVars, closeVars, op, local, ret, canceled, dbVars>>

\* Mutant: a stream cut by the timeout after some rows counts as complete.
TimeoutCompletes(w, exitOK, addErr) ==
    IF ~canceled[w] /\ ~addErr /\ (exitOK \/ scan[w].timedOut) THEN "complete"
    ELSE "error"

\* How StreamSnapshotTree classifies a stream that ended, in the order of its
\* switch; exitOK is restic exiting 0 with nothing left to decode, and addErr a
\* failed Add (tx.Add takes the operation's context).
StreamOutcome(w, exitOK, addErr) ==
    CASE canceled[w] -> "error"
      [] ~canceled[w] /\ addErr -> "error"
      [] ~canceled[w] /\ ~addErr /\ exitOK -> "complete"
      [] ~canceled[w] /\ ~addErr /\ ~exitOK /\ scan[w].timedOut
            /\ scan[w].got # "none" -> "incomplete"
      [] OTHER -> "error"

\* restic exits 0 only after emitting the whole namespace; it may fail, be
\* killed by a done context, or be abandoned by a failed Add at any time.
StreamEnd(w) ==
    /\ pc[w] = "stream"
    /\ \E exitOK, addErr \in BOOLEAN :
          LET outcome == StreamOutcome(w, exitOK, addErr) IN
          /\ exitOK => scan[w].got = "all"
          /\ \/ outcome = "complete" /\ Goto(w, "commit") /\ UNCHANGED ret
             \/ /\ outcome # "complete"
                /\ ret' = [ret EXCEPT ![w] = outcome]
                /\ Goto(w, "rollback")
    /\ UNCHANGED <<sessVars, closeVars, op, local, scan, canceled, dbVars>>

\* Commit marks the snapshot indexed in the transaction that holds its rows.
Commit(w) ==
    /\ pc[w] = "commit"
    /\ ~canceled[w]
    /\ content' = [content EXCEPT ![local[w]][op[w].snap] = scan[w].got]
    /\ tx' = NoOne
    /\ Goto(w, "release")
    /\ UNCHANGED <<sessVars, closeVars, opVars, canceled, db>>

\* A done context or any failed step of Commit rolls the transaction back.
CommitFails(w) ==
    /\ pc[w] = "commit"
    /\ tx' = NoOne
    /\ ret' = [ret EXCEPT ![w] = "error"]
    /\ Goto(w, "rollback")
    /\ UNCHANGED <<sessVars, closeVars, op, local, scan, canceled, db, content>>

\* Mutant: no deferred Rollback.
RollbackForgotten(w) ==
    /\ pc[w] = "rollback"
    /\ Goto(w, "release")
    /\ UNCHANGED <<sessVars, closeVars, opVars, canceled, dbVars>>

\* The deferred Rollback, idempotent, before the deferred release.
Rollback(w) ==
    /\ pc[w] = "rollback"
    /\ tx' = NoOne
    /\ Goto(w, "release")
    /\ UNCHANGED <<sessVars, closeVars, opVars, canceled, db, content>>

-----------------------------------------------------------------------------
(* Close *)

CallClose(c) ==
    /\ cpc[c] = "idle"
    /\ CGoto(c, "mark")
    /\ UNCHANGED <<pc, sessVars, grabbed, opVars, canceled, dbVars>>

\* Mark closed and take the cancel function in one section of mu.
MarkClosed(c) ==
    /\ cpc[c] = "mark"
    /\ mu = NoOne
    /\ closed' = TRUE
    /\ grabbed' = [grabbed EXCEPT ![c] = inflight]
    /\ CGoto(c, "cancel")
    /\ UNCHANGED <<pc, opMu, mu, store, inflight, opVars, canceled, dbVars>>

\* Mutant: Close only waits.
CancelNothing(c) ==
    /\ cpc[c] = "cancel"
    /\ CGoto(c, "wait")
    /\ UNCHANGED <<pc, sessVars, grabbed, opVars, canceled, dbVars>>

\* The function cancels the operation it was taken from.  None registers after
\* the mark, so that one is still running exactly when it is still inflight.
CancelInflight(c) ==
    /\ cpc[c] = "cancel"
    /\ canceled' = [w \in Workers |->
                      canceled[w] \/ (w = grabbed[c] /\ w = inflight)]
    /\ CGoto(c, "wait")
    /\ UNCHANGED <<pc, sessVars, grabbed, opVars, dbVars>>

\* Mutant: Close does not wait for the operation it canceled.
CloseUnlocked(c) ==
    /\ cpc[c] = "wait"
    /\ opMu' = c
    /\ CGoto(c, "shut")
    /\ UNCHANGED <<pc, mu, store, closed, inflight, grabbed, opVars, canceled, dbVars>>

LockForClose(c) ==
    /\ cpc[c] = "wait"
    /\ opMu = NoOne
    /\ opMu' = c
    /\ CGoto(c, "shut")
    /\ UNCHANGED <<pc, mu, store, closed, inflight, grabbed, opVars, canceled, dbVars>>

\* Mutant: Close returns without closing the store.
ShutKeepsStore(c) ==
    /\ cpc[c] = "shut"
    /\ mu = NoOne
    /\ opMu' = NoOne
    /\ CGoto(c, "done")
    /\ UNCHANGED <<pc, mu, store, closed, inflight, grabbed, opVars, canceled, dbVars>>

Shut(c) ==
    /\ cpc[c] = "shut"
    /\ mu = NoOne
    /\ \/ store = NoStore /\ opMu' = NoOne /\ CGoto(c, "done") /\ UNCHANGED mu
       \/ store # NoStore /\ mu' = c /\ CGoto(c, "closing") /\ UNCHANGED opMu
    /\ UNCHANGED <<pc, store, closed, inflight, grabbed, opVars, canceled, dbVars>>

CloseStore(c) ==
    /\ cpc[c] = "closing"
    /\ Destroy(store)
    /\ store' = NoStore
    /\ mu' = NoOne
    /\ opMu' = NoOne
    /\ CGoto(c, "done")
    /\ UNCHANGED <<pc, closed, inflight, grabbed, opVars, canceled>>

-----------------------------------------------------------------------------
BeginStep(w) ==
    \/ LockOp(w) \/ Register(w) \/ Ensure(w) \/ OpenStore(w) \/ OpenFails(w)
    \/ DiscardOpened(w) \/ KeepOpened(w) \/ Install(w) \/ InstallRefused(w)
    \/ InstallClose(w) \/ EndOp(w)

IndexStep(w) ==
    \/ Query(w) \/ CheckIndexed(w) \/ ResolveSecrets(w) \/ BeginIndex(w)
    \/ Commit(w) \/ CommitFails(w) \/ Rollback(w)

StreamStep(w) == StreamRows(w) \/ StreamTimeout(w) \/ StreamEnd(w)

CloseStep(c) ==
    \/ MarkClosed(c) \/ CancelInflight(c) \/ LockForClose(c) \/ Shut(c)
    \/ CloseStore(c)

Next ==
    \/ \E w \in Workers :
          StartOp(w) \/ CallerCancels(w) \/ BeginStep(w) \/ IndexStep(w) \/ StreamStep(w)
    \/ \E c \in Closers : CallClose(c) \/ CloseStep(c)

Spec == Init /\ [][Next]_vars

\* Strong fairness stands for Go's mutexes, which hand the lock to a starving
\* waiter.  A stream is only sure to end once its context is done and restic is
\* killed: nothing here relies on restic answering or on index_timeout.
Fairness ==
    /\ \A w \in Workers :
          /\ SF_vars(BeginStep(w))
          /\ WF_vars(IndexStep(w))
          /\ WF_vars(canceled[w] /\ StreamEnd(w))
    /\ \A c \in Closers : SF_vars(CloseStep(c))

FairSpec == Spec /\ Fairness

-----------------------------------------------------------------------------
(* Properties *)

\* Close takes the store away from nobody: a worker that uses a store holds
\* opMu, and the store is the session's and is open.
StoreOpenWhileUsed ==
    \A w \in Workers : pc[w] \in Using =>
        opMu = w /\ local[w] = store /\ store # NoStore /\ db[store] = "open"

\* Every open store has an owner that will close it, the session or the worker
\* still opening it, and once a Close has returned none is left or ever opened.
NoLeakedStore ==
    /\ \A h \in Handles : db[h] = "open" =>
          h = store \/ \E w \in Workers : pc[w] \in Opening /\ local[w] = h
    /\ (\E c \in Closers : cpc[c] = "done") => \A h \in Handles : db[h] # "open"

\* A Close that waits for opMu has canceled whatever operation holds it: mark
\* and registration exclude each other under mu, in whichever order they come.
CancelReachesInflight ==
    \A c \in Closers, w \in Workers :
        cpc[c] \in {"wait", "shut"} /\ inflight = w => canceled[w]

\* Only whole namespaces are ever committed, and IndexSnapshot returns nil only
\* if the snapshot is committed in the store the session still has.
OkMeansWholeIndex ==
    /\ \A h \in Handles, s \in Snapshots : content[h][s] \in {"none", "all"}
    /\ \A w \in Workers :
          pc[w] = "release" /\ op[w].kind = "index" /\ ret[w] = "ok" =>
              content[store][op[w].snap] = "all"

\* The pool has one connection: an operation never leaves its transaction open
\* for the next one to wait on, and a query never runs beside one.
NoDanglingTx ==
    \A w \in Workers : tx = w => opMu = w /\ pc[w] \in Indexing

\* The session implements what it promises.
AbsHolder == IF opMu \in Workers /\ pc[opMu] \in Using THEN opMu ELSE NoOne
AbsPhase == IF \E c \in Closers : cpc[c] = "done" THEN "gone"
            ELSE IF store # NoStore THEN "warm" ELSE "cold"
AbsPublished == IF store = NoStore THEN {} ELSE Visible(store)
Promise == INSTANCE BrowseSessionSpec
    WITH phase <- AbsPhase, holder <- AbsHolder, published <- AbsPublished
RefinesSpec == Promise!Spec

\* Close always returns, however long restic would keep streaming and although
\* other operations keep coming.
CloseReturns == \A c \in Closers : cpc[c] = "mark" ~> cpc[c] = "done"
=============================================================================
