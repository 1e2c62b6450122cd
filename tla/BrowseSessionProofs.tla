------------------------- MODULE BrowseSessionProofs -------------------------
(***************************************************************************)
(* Theorems of BrowseSession for any number of workers, closers, snapshots *)
(* and stores.  The argument is that opMu really serializes: IInv ties the *)
(* control point of every goroutine to the mutex it holds, the operation   *)
(* registered in inflight, the transaction it has open and the store it    *)
(* may rely on.                                                            *)
(***************************************************************************)
EXTENDS BrowseSession, TLAPS

\* opMu, mu and inflight name exactly the goroutine whose control point says so.
LockInv ==
    /\ \A w \in Workers :
          /\ pc[w] \in Holding <=> opMu = w
          /\ pc[w] \in Registered <=> inflight = w
          /\ pc[w] = "installClose" <=> mu = w
    /\ \A c \in Closers :
          /\ cpc[c] \in {"shut", "closing"} <=> opMu = c
          /\ cpc[c] = "closing" <=> mu = c

\* An open store is the session's or still with the worker that opened it.
AllOwned ==
    \A h \in Handles : db[h] = "open" =>
        h = store \/ \E w \in Workers : pc[w] \in Opening /\ local[w] = h

\* Which store each goroutine may rely on.
StoreInv ==
    /\ store # NoStore => db[store] = "open"
    /\ \A w \in Workers :
          /\ pc[w] \in Using => local[w] = store /\ store # NoStore
          /\ pc[w] \in {"opening"} \cup Opening => store = NoStore
          /\ pc[w] \in Opening => local[w] # NoStore /\ db[local[w]] = "open"
    /\ \A c \in Closers : cpc[c] = "closing" => store # NoStore

\* Once marked, the session stays closed, nothing registers, and a Close that
\* is past its cancel has canceled what was registered.
CloseInv ==
    \A c \in Closers :
        /\ cpc[c] \in {"cancel", "wait", "shut", "closing", "done"} => closed
        /\ cpc[c] = "done" => store = NoStore /\ inflight = NoOne
        /\ \A w \in Workers : inflight = w =>
              /\ cpc[c] = "cancel" => grabbed[c] = w
              /\ cpc[c] \in {"wait", "shut"} => canceled[w]

\* Transactions belong to their indexer, only whole streams are committed, and
\* a store starts and ends empty.
IndexInv ==
    /\ \A w \in Workers :
          /\ tx = w => pc[w] \in Indexing
          /\ pc[w] = "commit" => scan[w].got = "all"
          /\ pc[w] = "rollback" => ret[w] # "ok"
          /\ pc[w] = "release" /\ op[w].kind = "index" /\ ret[w] = "ok" =>
                content[store][op[w].snap] = "all"
          /\ pc[w] \in Opening => content[local[w]] = NoRows
    /\ \A h \in Handles : db[h] # "open" => content[h] = NoRows
    /\ \A h \in Handles, s \in Snapshots : content[h][s] \in {"none", "all"}

IInv == TypeOK /\ LockInv /\ StoreInv /\ AllOwned /\ CloseInv /\ IndexInv

\* Every step keeps every variable in its type.
LEMMA TypePreserved == TypeOK /\ StoreInv /\ [Next]_vars => TypeOK'
<1> SUFFICES ASSUME TypeOK /\ StoreInv, [Next]_vars PROVE TypeOK'
  OBVIOUS
<1> USE ProcAssumption DEF TypeOK, Procs, Holding, Registered, Using, Opening, Indexing, WorkerPC, CloserPC,
       Goto, CGoto, sessVars, closeVars, opVars, dbVars
<1>1. ASSUME NEW w \in Workers, StartOp(w) PROVE TypeOK'
  BY <1>1 DEF StartOp
<1>2. ASSUME NEW w \in Workers, CallerCancels(w) PROVE TypeOK'
  BY <1>2 DEF CallerCancels
<1>3. ASSUME NEW w \in Workers, LockOp(w) PROVE TypeOK'
  BY <1>3 DEF LockOp
<1>4. ASSUME NEW w \in Workers, Register(w) PROVE TypeOK'
  <2>1. pc' \in [Workers -> WorkerPC]
    BY <1>4, SMTT(30) DEF Register
  <2>2. canceled' \in [Workers -> BOOLEAN]
    BY <1>4 DEF Register
  <2>3. opMu' \in Procs \cup {NoOne} /\ inflight' \in Workers \cup {NoOne}
    BY <1>4 DEF Register
  <2>4. UNCHANGED <<mu, store, closed, cpc, grabbed, op, local, scan, ret, db, content, tx>>
    BY <1>4 DEF Register
  <2> QED
    BY <2>1, <2>2, <2>3, <2>4 DEF Extent
<1>5. ASSUME NEW w \in Workers, Ensure(w) PROVE TypeOK'
  <2>1. pc' \in [Workers -> WorkerPC]
    BY <1>5 DEF Ensure
  <2>2. local' \in [Workers -> Handles \cup {NoStore}]
    BY <1>5 DEF Ensure
  <2>3. UNCHANGED <<sessVars, cpc, grabbed, op, scan, ret, canceled, db, content, tx>>
    BY <1>5 DEF Ensure
  <2> QED
    BY <2>1, <2>2, <2>3 DEF Extent
<1>6. ASSUME NEW w \in Workers, OpenStore(w) PROVE TypeOK'
  BY <1>6 DEF OpenStore
<1>7. ASSUME NEW w \in Workers, OpenFails(w) PROVE TypeOK'
  BY <1>7 DEF OpenFails
<1>8. ASSUME NEW w \in Workers, DiscardOpened(w) PROVE TypeOK'
  BY <1>8 DEF DiscardOpened, Destroy, StoreInv, NoRows, Extent
<1>9. ASSUME NEW w \in Workers, KeepOpened(w) PROVE TypeOK'
  BY <1>9 DEF KeepOpened
<1>10. ASSUME NEW w \in Workers, Install(w) PROVE TypeOK'
  BY <1>10 DEF Install, StoreInv
<1>11. ASSUME NEW w \in Workers, InstallRefused(w) PROVE TypeOK'
  BY <1>11 DEF InstallRefused
<1>12. ASSUME NEW w \in Workers, InstallClose(w) PROVE TypeOK'
  BY <1>12 DEF InstallClose, Destroy, StoreInv, NoRows, Extent
<1>13. ASSUME NEW w \in Workers, EndOp(w) PROVE TypeOK'
  BY <1>13 DEF EndOp, NoScan, Extent
<1>14. ASSUME NEW w \in Workers, Query(w) PROVE TypeOK'
  BY <1>14 DEF Query
<1>15. ASSUME NEW w \in Workers, CheckIndexed(w) PROVE TypeOK'
  BY <1>15, ZenonT(40) DEF CheckIndexed, Return
<1>16. ASSUME NEW w \in Workers, ResolveSecrets(w) PROVE TypeOK'
  BY <1>16 DEF ResolveSecrets, Return
<1>17. ASSUME NEW w \in Workers, BeginIndex(w) PROVE TypeOK'
  BY <1>17 DEF BeginIndex, Return
<1>18. ASSUME NEW w \in Workers, StreamRows(w) PROVE TypeOK'
  <2> USE <1>18 DEF StreamRows, Extent
  <2>1. CASE scan' = [scan EXCEPT ![w].got = "some"]
    BY <2>1
  <2>2. CASE scan' = [scan EXCEPT ![w].got = "all"]
    BY <2>2
  <2> QED
    BY <2>1, <2>2
<1>19. ASSUME NEW w \in Workers, StreamTimeout(w) PROVE TypeOK'
  BY <1>19, ZenonT(40) DEF StreamTimeout, Extent
<1>20. ASSUME NEW w \in Workers, StreamEnd(w) PROVE TypeOK'
  <2>1. pc' \in [Workers -> WorkerPC]
    BY <1>20 DEF StreamEnd, StreamOutcome, Extent
  <2>2. ret' \in [Workers -> {"ok", "error", "incomplete"}]
    BY <1>20 DEF StreamEnd, StreamOutcome, Extent
  <2>3. UNCHANGED <<sessVars, cpc, grabbed, op, local, scan, canceled, db, content, tx>>
    BY <1>20 DEF StreamEnd, StreamOutcome, Extent
  <2> QED
    BY <2>1, <2>2, <2>3 DEF Extent
<1>21. ASSUME NEW w \in Workers, Commit(w) PROVE TypeOK'
  BY <1>21 DEF Commit, StoreInv, Extent
<1>22. ASSUME NEW w \in Workers, CommitFails(w) PROVE TypeOK'
  BY <1>22 DEF CommitFails
<1>23. ASSUME NEW w \in Workers, Rollback(w) PROVE TypeOK'
  BY <1>23 DEF Rollback
<1>24. ASSUME NEW c \in Closers, CallClose(c) PROVE TypeOK'
  BY <1>24 DEF CallClose
<1>25. ASSUME NEW c \in Closers, MarkClosed(c) PROVE TypeOK'
  BY <1>25 DEF MarkClosed
<1>26. ASSUME NEW c \in Closers, CancelInflight(c) PROVE TypeOK'
  BY <1>26 DEF CancelInflight
<1>27. ASSUME NEW c \in Closers, LockForClose(c) PROVE TypeOK'
  BY <1>27 DEF LockForClose
<1>28. ASSUME NEW c \in Closers, Shut(c) PROVE TypeOK'
  <2> USE <1>28 DEF Shut
  <2>1. CASE store = NoStore
    BY <2>1
  <2>2. CASE store # NoStore
    BY <2>2
  <2> QED
    BY <2>1, <2>2
<1>29. ASSUME NEW c \in Closers, CloseStore(c) PROVE TypeOK'
  BY <1>29 DEF CloseStore, Destroy, StoreInv, NoRows, Extent
<1>30. CASE UNCHANGED vars
  BY <1>30 DEF vars
<1> QED
  BY <1>1, <1>2, <1>3, <1>4, <1>5, <1>6, <1>7, <1>8, <1>9, <1>10, <1>11,
     <1>12, <1>13, <1>14, <1>15, <1>16, <1>17, <1>18, <1>19, <1>20, <1>21,
     <1>22, <1>23, <1>24, <1>25, <1>26, <1>27, <1>28, <1>29, <1>30
  DEF Next, BeginStep, IndexStep, StreamStep, CloseStep

\* Every step keeps the mutexes and inflight with the goroutine they name.
LEMMA LockPreserved == IInv /\ [Next]_vars => LockInv'
<1> SUFFICES ASSUME IInv, [Next]_vars PROVE LockInv'
  OBVIOUS
<1> USE ProcAssumption DEF LockInv, IInv, TypeOK, Procs, Holding, Registered, Using, Opening, Indexing, WorkerPC, CloserPC,
       Goto, CGoto, sessVars, closeVars, opVars, dbVars
<1>1. ASSUME NEW w \in Workers, StartOp(w) PROVE LockInv'
  BY <1>1 DEF StartOp
<1>2. ASSUME NEW w \in Workers, CallerCancels(w) PROVE LockInv'
  BY <1>2 DEF CallerCancels
<1>3. ASSUME NEW w \in Workers, LockOp(w) PROVE LockInv'
  BY <1>3 DEF LockOp
<1>4. ASSUME NEW w \in Workers, Register(w) PROVE LockInv'
  BY <1>4 DEF Register
<1>5. ASSUME NEW w \in Workers, Ensure(w) PROVE LockInv'
  BY <1>5 DEF Ensure
<1>6. ASSUME NEW w \in Workers, OpenStore(w) PROVE LockInv'
  BY <1>6 DEF OpenStore
<1>7. ASSUME NEW w \in Workers, OpenFails(w) PROVE LockInv'
  BY <1>7 DEF OpenFails
<1>8. ASSUME NEW w \in Workers, DiscardOpened(w) PROVE LockInv'
  BY <1>8 DEF DiscardOpened, Destroy
<1>9. ASSUME NEW w \in Workers, KeepOpened(w) PROVE LockInv'
  BY <1>9 DEF KeepOpened
<1>10. ASSUME NEW w \in Workers, Install(w) PROVE LockInv'
  BY <1>10 DEF Install
<1>11. ASSUME NEW w \in Workers, InstallRefused(w) PROVE LockInv'
  BY <1>11 DEF InstallRefused
<1>12. ASSUME NEW w \in Workers, InstallClose(w) PROVE LockInv'
  BY <1>12 DEF InstallClose, Destroy
<1>13. ASSUME NEW w \in Workers, EndOp(w) PROVE LockInv'
  BY <1>13 DEF EndOp
<1>14. ASSUME NEW w \in Workers, Query(w) PROVE LockInv'
  BY <1>14 DEF Query
<1>15. ASSUME NEW w \in Workers, CheckIndexed(w) PROVE LockInv'
  BY <1>15 DEF CheckIndexed, Return
<1>16. ASSUME NEW w \in Workers, ResolveSecrets(w) PROVE LockInv'
  BY <1>16 DEF ResolveSecrets, Return
<1>17. ASSUME NEW w \in Workers, BeginIndex(w) PROVE LockInv'
  BY <1>17 DEF BeginIndex, Return
<1>18. ASSUME NEW w \in Workers, StreamRows(w) PROVE LockInv'
  BY <1>18 DEF StreamRows
<1>19. ASSUME NEW w \in Workers, StreamTimeout(w) PROVE LockInv'
  BY <1>19 DEF StreamTimeout
<1>20. ASSUME NEW w \in Workers, StreamEnd(w) PROVE LockInv'
  BY <1>20 DEF StreamEnd, StreamOutcome
<1>21. ASSUME NEW w \in Workers, Commit(w) PROVE LockInv'
  BY <1>21 DEF Commit
<1>22. ASSUME NEW w \in Workers, CommitFails(w) PROVE LockInv'
  BY <1>22 DEF CommitFails
<1>23. ASSUME NEW w \in Workers, Rollback(w) PROVE LockInv'
  BY <1>23 DEF Rollback
<1>24. ASSUME NEW c \in Closers, CallClose(c) PROVE LockInv'
  BY <1>24 DEF CallClose
<1>25. ASSUME NEW c \in Closers, MarkClosed(c) PROVE LockInv'
  BY <1>25 DEF MarkClosed
<1>26. ASSUME NEW c \in Closers, CancelInflight(c) PROVE LockInv'
  BY <1>26 DEF CancelInflight
<1>27. ASSUME NEW c \in Closers, LockForClose(c) PROVE LockInv'
  BY <1>27 DEF LockForClose
<1>28. ASSUME NEW c \in Closers, Shut(c) PROVE LockInv'
  BY <1>28 DEF Shut
<1>29. ASSUME NEW c \in Closers, CloseStore(c) PROVE LockInv'
  BY <1>29 DEF CloseStore, Destroy
<1>30. CASE UNCHANGED vars
  BY <1>30 DEF vars
<1> QED
  BY <1>1, <1>2, <1>3, <1>4, <1>5, <1>6, <1>7, <1>8, <1>9, <1>10, <1>11,
     <1>12, <1>13, <1>14, <1>15, <1>16, <1>17, <1>18, <1>19, <1>20, <1>21,
     <1>22, <1>23, <1>24, <1>25, <1>26, <1>27, <1>28, <1>29, <1>30
  DEF Next, BeginStep, IndexStep, StreamStep, CloseStep

\* Every step keeps each open store owned and the session's store usable.
LEMMA StorePreserved == IInv /\ [Next]_vars => StoreInv'
<1> SUFFICES ASSUME IInv, [Next]_vars PROVE StoreInv'
  OBVIOUS
<1> USE ProcAssumption DEF StoreInv, IInv, LockInv, TypeOK, Procs, Holding, Registered, Using, Opening, Indexing, WorkerPC, CloserPC,
       Goto, CGoto, sessVars, closeVars, opVars, dbVars
<1>1. ASSUME NEW w \in Workers, StartOp(w) PROVE StoreInv'
  BY <1>1 DEF StartOp
<1>2. ASSUME NEW w \in Workers, CallerCancels(w) PROVE StoreInv'
  BY <1>2 DEF CallerCancels
<1>3. ASSUME NEW w \in Workers, LockOp(w) PROVE StoreInv'
  BY <1>3 DEF LockOp
<1>4. ASSUME NEW w \in Workers, Register(w) PROVE StoreInv'
  BY <1>4 DEF Register
<1>5. ASSUME NEW w \in Workers, Ensure(w) PROVE StoreInv'
  BY <1>5 DEF Ensure
<1>6. ASSUME NEW w \in Workers, OpenStore(w) PROVE StoreInv'
  BY <1>6 DEF OpenStore
<1>7. ASSUME NEW w \in Workers, OpenFails(w) PROVE StoreInv'
  BY <1>7 DEF OpenFails
<1>8. ASSUME NEW w \in Workers, DiscardOpened(w) PROVE StoreInv'
  BY <1>8 DEF DiscardOpened, Destroy
<1>9. ASSUME NEW w \in Workers, KeepOpened(w) PROVE StoreInv'
  <2>1. pc[w] = "opened"
    BY <1>9 DEF KeepOpened
  <2>2. store = NoStore /\ db[local[w]] = "open"
    BY <1>9 DEF KeepOpened
  <2>3. local[w] # NoStore
    BY <1>9 DEF KeepOpened
  <2>4. pc' = [pc EXCEPT ![w] = "install"]
    BY <1>9 DEF KeepOpened
  <2>5. UNCHANGED <<store, local, db, cpc>>
    BY <1>9 DEF KeepOpened
  <2> QED
    BY <2>1, <2>2, <2>3, <2>4, <2>5
<1>10. ASSUME NEW w \in Workers, Install(w) PROVE StoreInv'
  <2>1. store' = local[w]
    BY <1>10 DEF Install
  <2>2. local[w] # NoStore
    BY <1>10 DEF Install
  <2>3. db[local[w]] = "open"
    BY <1>10 DEF Install
  <2>4. \A v \in Workers : v # w => pc[v] \notin Holding
    BY <1>10 DEF Install
  <2>5. \A c \in Closers : cpc[c] # "closing"
    BY <1>10 DEF Install
  <2>6. pc' = [pc EXCEPT ![w] = "use"]
    BY <1>10 DEF Install
  <2>7. UNCHANGED <<local, db, cpc>>
    BY <1>10 DEF Install
  <2> QED
    BY <2>1, <2>2, <2>3, <2>4, <2>5, <2>6, <2>7
<1>11. ASSUME NEW w \in Workers, InstallRefused(w) PROVE StoreInv'
  BY <1>11 DEF InstallRefused
<1>12. ASSUME NEW w \in Workers, InstallClose(w) PROVE StoreInv'
  BY <1>12 DEF InstallClose, Destroy
<1>13. ASSUME NEW w \in Workers, EndOp(w) PROVE StoreInv'
  BY <1>13 DEF EndOp
<1>14. ASSUME NEW w \in Workers, Query(w) PROVE StoreInv'
  BY <1>14 DEF Query
<1>15. ASSUME NEW w \in Workers, CheckIndexed(w) PROVE StoreInv'
  BY <1>15 DEF CheckIndexed, Return
<1>16. ASSUME NEW w \in Workers, ResolveSecrets(w) PROVE StoreInv'
  BY <1>16 DEF ResolveSecrets, Return
<1>17. ASSUME NEW w \in Workers, BeginIndex(w) PROVE StoreInv'
  BY <1>17 DEF BeginIndex, Return
<1>18. ASSUME NEW w \in Workers, StreamRows(w) PROVE StoreInv'
  BY <1>18 DEF StreamRows
<1>19. ASSUME NEW w \in Workers, StreamTimeout(w) PROVE StoreInv'
  BY <1>19 DEF StreamTimeout
<1>20. ASSUME NEW w \in Workers, StreamEnd(w) PROVE StoreInv'
  BY <1>20 DEF StreamEnd, StreamOutcome
<1>21. ASSUME NEW w \in Workers, Commit(w) PROVE StoreInv'
  BY <1>21 DEF Commit
<1>22. ASSUME NEW w \in Workers, CommitFails(w) PROVE StoreInv'
  BY <1>22 DEF CommitFails
<1>23. ASSUME NEW w \in Workers, Rollback(w) PROVE StoreInv'
  BY <1>23 DEF Rollback
<1>24. ASSUME NEW c \in Closers, CallClose(c) PROVE StoreInv'
  BY <1>24 DEF CallClose
<1>25. ASSUME NEW c \in Closers, MarkClosed(c) PROVE StoreInv'
  BY <1>25 DEF MarkClosed
<1>26. ASSUME NEW c \in Closers, CancelInflight(c) PROVE StoreInv'
  BY <1>26 DEF CancelInflight
<1>27. ASSUME NEW c \in Closers, LockForClose(c) PROVE StoreInv'
  BY <1>27 DEF LockForClose
<1>28. ASSUME NEW c \in Closers, Shut(c) PROVE StoreInv'
  BY <1>28 DEF Shut
<1>29. ASSUME NEW c \in Closers, CloseStore(c) PROVE StoreInv'
  BY <1>29 DEF CloseStore, Destroy
<1>30. CASE UNCHANGED vars
  BY <1>30 DEF vars
<1> QED
  BY <1>1, <1>2, <1>3, <1>4, <1>5, <1>6, <1>7, <1>8, <1>9, <1>10, <1>11,
     <1>12, <1>13, <1>14, <1>15, <1>16, <1>17, <1>18, <1>19, <1>20, <1>21,
     <1>22, <1>23, <1>24, <1>25, <1>26, <1>27, <1>28, <1>29, <1>30
  DEF Next, BeginStep, IndexStep, StreamStep, CloseStep

\* No step leaves an open store without an owner.
LEMMA OwnedPreserved == IInv /\ [Next]_vars => AllOwned'
<1> SUFFICES ASSUME IInv, [Next]_vars PROVE AllOwned'
  OBVIOUS
<1> USE ProcAssumption DEF AllOwned, IInv, StoreInv, LockInv, TypeOK, Procs, Holding, Registered, Using, Opening, Indexing, WorkerPC, CloserPC,
       Goto, CGoto, sessVars, closeVars, opVars, dbVars
<1>1. ASSUME NEW w \in Workers, StartOp(w) PROVE AllOwned'
  BY <1>1 DEF StartOp
<1>2. ASSUME NEW w \in Workers, CallerCancels(w) PROVE AllOwned'
  BY <1>2 DEF CallerCancels
<1>3. ASSUME NEW w \in Workers, LockOp(w) PROVE AllOwned'
  BY <1>3 DEF LockOp
<1>4. ASSUME NEW w \in Workers, Register(w) PROVE AllOwned'
  BY <1>4, SMTT(30) DEF Register
<1>5. ASSUME NEW w \in Workers, Ensure(w) PROVE AllOwned'
  BY <1>5 DEF Ensure
<1>6. ASSUME NEW w \in Workers, OpenStore(w) PROVE AllOwned'
  BY <1>6 DEF OpenStore
<1>7. ASSUME NEW w \in Workers, OpenFails(w) PROVE AllOwned'
  BY <1>7 DEF OpenFails
<1>8. ASSUME NEW w \in Workers, DiscardOpened(w) PROVE AllOwned'
  BY <1>8 DEF DiscardOpened, Destroy
<1>9. ASSUME NEW w \in Workers, KeepOpened(w) PROVE AllOwned'
  <2>1. \A v \in Workers : pc'[v] \in Opening <=> pc[v] \in Opening
    BY <1>9 DEF KeepOpened
  <2>2. UNCHANGED <<store, local, db>>
    BY <1>9 DEF KeepOpened
  <2> QED
    BY <2>1, <2>2 DEF AllOwned
<1>10. ASSUME NEW w \in Workers, Install(w) PROVE AllOwned'
  <2>1. store = NoStore
    BY <1>10 DEF Install
  <2>2. \A v \in Workers : v # w => pc[v] \notin Opening
    BY <1>10 DEF Install
  <2>3. \A h \in Handles : db[h] = "open" => h = local[w]
    BY <2>1, <2>2 DEF AllOwned
  <2>4. store' = local[w] /\ UNCHANGED db
    BY <1>10 DEF Install
  <2> QED
    BY <2>1, <2>2, <2>3, <2>4 DEF AllOwned
<1>11. ASSUME NEW w \in Workers, InstallRefused(w) PROVE AllOwned'
  BY <1>11 DEF InstallRefused
<1>12. ASSUME NEW w \in Workers, InstallClose(w) PROVE AllOwned'
  BY <1>12 DEF InstallClose, Destroy
<1>13. ASSUME NEW w \in Workers, EndOp(w) PROVE AllOwned'
  BY <1>13 DEF EndOp
<1>14. ASSUME NEW w \in Workers, Query(w) PROVE AllOwned'
  BY <1>14 DEF Query
<1>15. ASSUME NEW w \in Workers, CheckIndexed(w) PROVE AllOwned'
  BY <1>15 DEF CheckIndexed, Return
<1>16. ASSUME NEW w \in Workers, ResolveSecrets(w) PROVE AllOwned'
  BY <1>16 DEF ResolveSecrets, Return
<1>17. ASSUME NEW w \in Workers, BeginIndex(w) PROVE AllOwned'
  BY <1>17 DEF BeginIndex, Return
<1>18. ASSUME NEW w \in Workers, StreamRows(w) PROVE AllOwned'
  BY <1>18 DEF StreamRows
<1>19. ASSUME NEW w \in Workers, StreamTimeout(w) PROVE AllOwned'
  BY <1>19 DEF StreamTimeout
<1>20. ASSUME NEW w \in Workers, StreamEnd(w) PROVE AllOwned'
  BY <1>20 DEF StreamEnd, StreamOutcome
<1>21. ASSUME NEW w \in Workers, Commit(w) PROVE AllOwned'
  BY <1>21 DEF Commit
<1>22. ASSUME NEW w \in Workers, CommitFails(w) PROVE AllOwned'
  BY <1>22 DEF CommitFails
<1>23. ASSUME NEW w \in Workers, Rollback(w) PROVE AllOwned'
  BY <1>23 DEF Rollback
<1>24. ASSUME NEW c \in Closers, CallClose(c) PROVE AllOwned'
  BY <1>24 DEF CallClose
<1>25. ASSUME NEW c \in Closers, MarkClosed(c) PROVE AllOwned'
  BY <1>25 DEF MarkClosed
<1>26. ASSUME NEW c \in Closers, CancelInflight(c) PROVE AllOwned'
  BY <1>26 DEF CancelInflight
<1>27. ASSUME NEW c \in Closers, LockForClose(c) PROVE AllOwned'
  BY <1>27 DEF LockForClose
<1>28. ASSUME NEW c \in Closers, Shut(c) PROVE AllOwned'
  BY <1>28 DEF Shut
<1>29. ASSUME NEW c \in Closers, CloseStore(c) PROVE AllOwned'
  BY <1>29 DEF CloseStore, Destroy
<1>30. CASE UNCHANGED vars
  BY <1>30 DEF vars
<1> QED
  BY <1>1, <1>2, <1>3, <1>4, <1>5, <1>6, <1>7, <1>8, <1>9, <1>10, <1>11,
     <1>12, <1>13, <1>14, <1>15, <1>16, <1>17, <1>18, <1>19, <1>20, <1>21,
     <1>22, <1>23, <1>24, <1>25, <1>26, <1>27, <1>28, <1>29, <1>30
  DEF Next, BeginStep, IndexStep, StreamStep, CloseStep

\* Every step keeps a marked session closed and its operation canceled.
LEMMA ClosePreserved == IInv /\ [Next]_vars => CloseInv'
<1> SUFFICES ASSUME IInv, [Next]_vars PROVE CloseInv'
  OBVIOUS
<1> USE ProcAssumption DEF CloseInv, IInv, StoreInv, LockInv, TypeOK, Procs, Holding, Registered, Using, Opening, Indexing, WorkerPC, CloserPC,
       Goto, CGoto, sessVars, closeVars, opVars, dbVars
<1>1. ASSUME NEW w \in Workers, StartOp(w) PROVE CloseInv'
  BY <1>1 DEF StartOp
<1>2. ASSUME NEW w \in Workers, CallerCancels(w) PROVE CloseInv'
  BY <1>2 DEF CallerCancels
<1>3. ASSUME NEW w \in Workers, LockOp(w) PROVE CloseInv'
  BY <1>3 DEF LockOp
<1>4. ASSUME NEW w \in Workers, Register(w) PROVE CloseInv'
  BY <1>4 DEF Register
<1>5. ASSUME NEW w \in Workers, Ensure(w) PROVE CloseInv'
  BY <1>5 DEF Ensure
<1>6. ASSUME NEW w \in Workers, OpenStore(w) PROVE CloseInv'
  BY <1>6 DEF OpenStore
<1>7. ASSUME NEW w \in Workers, OpenFails(w) PROVE CloseInv'
  BY <1>7 DEF OpenFails
<1>8. ASSUME NEW w \in Workers, DiscardOpened(w) PROVE CloseInv'
  BY <1>8 DEF DiscardOpened, Destroy
<1>9. ASSUME NEW w \in Workers, KeepOpened(w) PROVE CloseInv'
  BY <1>9 DEF KeepOpened
<1>10. ASSUME NEW w \in Workers, Install(w) PROVE CloseInv'
  BY <1>10 DEF Install
<1>11. ASSUME NEW w \in Workers, InstallRefused(w) PROVE CloseInv'
  BY <1>11 DEF InstallRefused
<1>12. ASSUME NEW w \in Workers, InstallClose(w) PROVE CloseInv'
  BY <1>12 DEF InstallClose, Destroy
<1>13. ASSUME NEW w \in Workers, EndOp(w) PROVE CloseInv'
  BY <1>13 DEF EndOp
<1>14. ASSUME NEW w \in Workers, Query(w) PROVE CloseInv'
  BY <1>14 DEF Query
<1>15. ASSUME NEW w \in Workers, CheckIndexed(w) PROVE CloseInv'
  BY <1>15 DEF CheckIndexed, Return
<1>16. ASSUME NEW w \in Workers, ResolveSecrets(w) PROVE CloseInv'
  BY <1>16 DEF ResolveSecrets, Return
<1>17. ASSUME NEW w \in Workers, BeginIndex(w) PROVE CloseInv'
  BY <1>17 DEF BeginIndex, Return
<1>18. ASSUME NEW w \in Workers, StreamRows(w) PROVE CloseInv'
  BY <1>18 DEF StreamRows
<1>19. ASSUME NEW w \in Workers, StreamTimeout(w) PROVE CloseInv'
  BY <1>19 DEF StreamTimeout
<1>20. ASSUME NEW w \in Workers, StreamEnd(w) PROVE CloseInv'
  BY <1>20 DEF StreamEnd, StreamOutcome
<1>21. ASSUME NEW w \in Workers, Commit(w) PROVE CloseInv'
  BY <1>21 DEF Commit
<1>22. ASSUME NEW w \in Workers, CommitFails(w) PROVE CloseInv'
  BY <1>22 DEF CommitFails
<1>23. ASSUME NEW w \in Workers, Rollback(w) PROVE CloseInv'
  BY <1>23 DEF Rollback
<1>24. ASSUME NEW c \in Closers, CallClose(c) PROVE CloseInv'
  BY <1>24 DEF CallClose
<1>25. ASSUME NEW c \in Closers, MarkClosed(c) PROVE CloseInv'
  BY <1>25 DEF MarkClosed
<1>26. ASSUME NEW c \in Closers, CancelInflight(c) PROVE CloseInv'
  BY <1>26 DEF CancelInflight
<1>27. ASSUME NEW c \in Closers, LockForClose(c) PROVE CloseInv'
  BY <1>27 DEF LockForClose
<1>28. ASSUME NEW c \in Closers, Shut(c) PROVE CloseInv'
  BY <1>28 DEF Shut
<1>29. ASSUME NEW c \in Closers, CloseStore(c) PROVE CloseInv'
  BY <1>29 DEF CloseStore, Destroy
<1>30. CASE UNCHANGED vars
  BY <1>30 DEF vars
<1> QED
  BY <1>1, <1>2, <1>3, <1>4, <1>5, <1>6, <1>7, <1>8, <1>9, <1>10, <1>11,
     <1>12, <1>13, <1>14, <1>15, <1>16, <1>17, <1>18, <1>19, <1>20, <1>21,
     <1>22, <1>23, <1>24, <1>25, <1>26, <1>27, <1>28, <1>29, <1>30
  DEF Next, BeginStep, IndexStep, StreamStep, CloseStep

\* Every step keeps transactions with their indexer and commits whole streams only.
LEMMA IndexPreserved == IInv /\ [Next]_vars => IndexInv'
<1> SUFFICES ASSUME IInv, [Next]_vars PROVE IndexInv'
  OBVIOUS
<1> USE ProcAssumption DEF IndexInv, IInv, StoreInv, LockInv, TypeOK, Extent, Ops, NoScan, NoRows, Visible, Procs, Holding, Registered, Using, Opening, Indexing, WorkerPC, CloserPC,
       Goto, CGoto, sessVars, closeVars, opVars, dbVars
<1>1. ASSUME NEW w \in Workers, StartOp(w) PROVE IndexInv'
  BY <1>1 DEF StartOp
<1>2. ASSUME NEW w \in Workers, CallerCancels(w) PROVE IndexInv'
  BY <1>2 DEF CallerCancels
<1>3. ASSUME NEW w \in Workers, LockOp(w) PROVE IndexInv'
  BY <1>3 DEF LockOp
<1>4. ASSUME NEW w \in Workers, Register(w) PROVE IndexInv'
  BY <1>4 DEF Register
<1>5. ASSUME NEW w \in Workers, Ensure(w) PROVE IndexInv'
  <2>1. \A v \in Workers : v # w => pc'[v] = pc[v] /\ local'[v] = local[v]
    BY <1>5 DEF Ensure
  <2>2. pc'[w] \in {"fail", "use", "opening"}
    BY <1>5 DEF Ensure
  <2>3. UNCHANGED <<op, scan, ret, db, content, tx, store>>
    BY <1>5 DEF Ensure
  <2>4. pc[w] = "ensure"
    BY <1>5 DEF Ensure
  <2> QED
    BY <2>1, <2>2, <2>3, <2>4
<1>6. ASSUME NEW w \in Workers, OpenStore(w) PROVE IndexInv'
  <2>1. PICK h \in Handles : /\ db[h] = "unused"
                             /\ db' = [db EXCEPT ![h] = "open"]
                             /\ local' = [local EXCEPT ![w] = h]
    BY <1>6 DEF OpenStore
  <2>2. \A v \in Workers : v # w => pc'[v] = pc[v] /\ local'[v] = local[v]
    BY <1>6, <2>1 DEF OpenStore
  <2>3. pc[w] = "opening" /\ pc'[w] = "opened"
    BY <1>6 DEF OpenStore
  <2>4. UNCHANGED <<op, scan, ret, content, tx, store>>
    BY <1>6 DEF OpenStore
  <2>5. \A g \in Handles : db'[g] # "open" => db[g] # "open"
    BY <2>1
  <2>6. local'[w] = h /\ content[h] = NoRows
    BY <2>1
  <2> QED
    BY <2>2, <2>3, <2>4, <2>5, <2>6
<1>7. ASSUME NEW w \in Workers, OpenFails(w) PROVE IndexInv'
  BY <1>7 DEF OpenFails
<1>8. ASSUME NEW w \in Workers, DiscardOpened(w) PROVE IndexInv'
  BY <1>8 DEF DiscardOpened, Destroy
<1>9. ASSUME NEW w \in Workers, KeepOpened(w) PROVE IndexInv'
  BY <1>9 DEF KeepOpened
<1>10. ASSUME NEW w \in Workers, Install(w) PROVE IndexInv'
  BY <1>10 DEF Install
<1>11. ASSUME NEW w \in Workers, InstallRefused(w) PROVE IndexInv'
  BY <1>11 DEF InstallRefused
<1>12. ASSUME NEW w \in Workers, InstallClose(w) PROVE IndexInv'
  BY <1>12 DEF InstallClose, Destroy
<1>13. ASSUME NEW w \in Workers, EndOp(w) PROVE IndexInv'
  BY <1>13 DEF EndOp
<1>14. ASSUME NEW w \in Workers, Query(w) PROVE IndexInv'
  BY <1>14 DEF Query
<1>15. ASSUME NEW w \in Workers, CheckIndexed(w) PROVE IndexInv'
  BY <1>15 DEF CheckIndexed, Return
<1>16. ASSUME NEW w \in Workers, ResolveSecrets(w) PROVE IndexInv'
  <2> USE <1>16 DEF ResolveSecrets, Return
  <2>1. CASE Goto(w, "release")
    BY <2>1
  <2>2. CASE Goto(w, "begin")
    BY <2>2
  <2> QED
    BY <2>1, <2>2
<1>17. ASSUME NEW w \in Workers, BeginIndex(w) PROVE IndexInv'
  BY <1>17 DEF BeginIndex, Return
<1>18. ASSUME NEW w \in Workers, StreamRows(w) PROVE IndexInv'
  BY <1>18 DEF StreamRows
<1>19. ASSUME NEW w \in Workers, StreamTimeout(w) PROVE IndexInv'
  BY <1>19 DEF StreamTimeout
<1>20. ASSUME NEW w \in Workers, StreamEnd(w) PROVE IndexInv'
  BY <1>20 DEF StreamEnd, StreamOutcome
<1>21. ASSUME NEW w \in Workers, Commit(w) PROVE IndexInv'
  BY <1>21 DEF Commit
<1>22. ASSUME NEW w \in Workers, CommitFails(w) PROVE IndexInv'
  BY <1>22 DEF CommitFails
<1>23. ASSUME NEW w \in Workers, Rollback(w) PROVE IndexInv'
  BY <1>23 DEF Rollback
<1>24. ASSUME NEW c \in Closers, CallClose(c) PROVE IndexInv'
  BY <1>24 DEF CallClose
<1>25. ASSUME NEW c \in Closers, MarkClosed(c) PROVE IndexInv'
  BY <1>25 DEF MarkClosed
<1>26. ASSUME NEW c \in Closers, CancelInflight(c) PROVE IndexInv'
  BY <1>26 DEF CancelInflight
<1>27. ASSUME NEW c \in Closers, LockForClose(c) PROVE IndexInv'
  BY <1>27 DEF LockForClose
<1>28. ASSUME NEW c \in Closers, Shut(c) PROVE IndexInv'
  BY <1>28 DEF Shut
<1>29. ASSUME NEW c \in Closers, CloseStore(c) PROVE IndexInv'
  BY <1>29 DEF CloseStore, Destroy
<1>30. CASE UNCHANGED vars
  BY <1>30 DEF vars
<1> QED
  BY <1>1, <1>2, <1>3, <1>4, <1>5, <1>6, <1>7, <1>8, <1>9, <1>10, <1>11,
     <1>12, <1>13, <1>14, <1>15, <1>16, <1>17, <1>18, <1>19, <1>20, <1>21,
     <1>22, <1>23, <1>24, <1>25, <1>26, <1>27, <1>28, <1>29, <1>30
  DEF Next, BeginStep, IndexStep, StreamStep, CloseStep

\* The initial state satisfies the invariant.
LEMMA InitIInv == Init => IInv
<1> SUFFICES ASSUME Init PROVE IInv
  OBVIOUS
<1> USE ProcAssumption DEF Init
<1>1. TypeOK
  <2>1. (CHOOSE o \in Ops : TRUE) \in Ops
    <3>1. PICK s : s \in Snapshots
      OBVIOUS
    <3>2. [kind |-> "index", snap |-> s] \in Ops
      BY <3>1 DEF Ops
    <3> QED
      BY <3>2
  <2> QED
    BY <2>1 DEF TypeOK, WorkerPC, CloserPC, Procs, NoScan, NoRows, Extent
<1>2. LockInv
  BY DEF LockInv, Procs, Holding, Registered, Opening, Using, Indexing
<1>3. StoreInv /\ AllOwned
  BY DEF StoreInv, AllOwned, Opening, Using, Indexing
<1>4. CloseInv
  BY DEF CloseInv
<1>5. IndexInv
  BY DEF IndexInv, Opening, Using, Indexing, NoRows, NoScan
<1> QED
  BY <1>1, <1>2, <1>3, <1>4, <1>5 DEF IInv

\* IInv holds in every reachable state.
THEOREM Invariance == Spec => []IInv
<1>1. IInv /\ [Next]_vars => IInv'
  BY TypePreserved, LockPreserved, StorePreserved, OwnedPreserved,
     ClosePreserved, IndexPreserved DEF IInv
<1> QED
  BY <1>1, InitIInv, PTL DEF Spec

\* Every variable keeps to its type.
THEOREM TypeCorrect == Spec => []TypeOK
<1>1. IInv => TypeOK
  BY DEF IInv
<1> QED
  BY <1>1, Invariance, PTL

\* No operation ever uses a store that Close took away or that is not the
\* session's: ensureStore's second look at closed, and Close's wait for opMu.
THEOREM StoreOpen == Spec => []StoreOpenWhileUsed
<1>1. IInv => StoreOpenWhileUsed
  BY DEF IInv, LockInv, StoreInv, StoreOpenWhileUsed, Holding, Registered
<1> QED
  BY <1>1, Invariance, PTL

\* Whenever open races Close, somebody closes the store, and nothing is open
\* once a Close has returned.
THEOREM NoLeak == Spec => []NoLeakedStore
<1>1. IInv => NoLeakedStore
  <2> SUFFICES ASSUME IInv PROVE NoLeakedStore
    OBVIOUS
  <2>1. ASSUME NEW c \in Closers, cpc[c] = "done", NEW h \in Handles
        PROVE  db[h] # "open"
    <3>1. store = NoStore /\ inflight = NoOne
      BY <2>1 DEF IInv, CloseInv
    <3>2. \A w \in Workers : pc[w] \notin Opening
      BY <3>1, ProcAssumption DEF IInv, LockInv, Registered
    <3>3. h # store
      BY <3>1, ProcAssumption
    <3> QED
      BY <3>2, <3>3 DEF IInv, AllOwned
  <2> QED
    BY <2>1 DEF IInv, AllOwned, NoLeakedStore
<1> QED
  BY <1>1, Invariance, PTL

\* A Close that waits for opMu has canceled the operation that holds it.
THEOREM CancelReaches == Spec => []CancelReachesInflight
<1>1. IInv => CancelReachesInflight
  BY DEF IInv, CloseInv, CancelReachesInflight
<1> QED
  BY <1>1, Invariance, PTL

\* A partial index is never committed, and success means a committed one.
THEOREM WholeIndex == Spec => []OkMeansWholeIndex
<1>1. IInv => OkMeansWholeIndex
  BY DEF IInv, IndexInv, OkMeansWholeIndex
<1> QED
  BY <1>1, Invariance, PTL

\* The single connection is free whenever an operation begins.
THEOREM NoTxLeft == Spec => []NoDanglingTx
<1>1. IInv => NoDanglingTx
  BY DEF IInv, IndexInv, LockInv, NoDanglingTx, Holding, Registered, Using
<1> QED
  BY <1>1, Invariance, PTL

\* A step is one of BrowseSessionSpec's or leaves what it speaks of alone.
LEMMA StepRefines == IInv /\ IInv' /\ [Next]_vars => [Promise!Next]_(Promise!vars)
<1> SUFFICES ASSUME IInv, IInv', [Next]_vars
             PROVE  [Promise!Next]_(Promise!vars)
  OBVIOUS
<1> USE ProcAssumption DEF Goto, CGoto, sessVars, closeVars, opVars, dbVars
<1> DEFINE Stutter == UNCHANGED <<AbsPhase, AbsHolder, AbsPublished>>
<1>1. ASSUME NEW w \in Workers, StartOp(w) PROVE Stutter
  BY <1>1 DEF StartOp, AbsPhase, AbsHolder, AbsPublished, Visible, IInv,
     TypeOK, LockInv, StoreInv, CloseInv, IndexInv, Procs, Holding,
     Registered, Using, Opening, Indexing
<1>2. ASSUME NEW w \in Workers, CallerCancels(w) PROVE Stutter
  BY <1>2 DEF CallerCancels, AbsPhase, AbsHolder, AbsPublished, Visible, IInv,
     TypeOK, LockInv, StoreInv, CloseInv, IndexInv, Procs, Holding,
     Registered, Using, Opening, Indexing
<1>3. ASSUME NEW w \in Workers, LockOp(w) PROVE Stutter
  BY <1>3 DEF LockOp, AbsPhase, AbsHolder, AbsPublished, Visible, IInv,
     TypeOK, LockInv, StoreInv, CloseInv, IndexInv, Procs, Holding,
     Registered, Using, Opening, Indexing
<1>4. ASSUME NEW w \in Workers, Register(w) PROVE Stutter
  BY <1>4 DEF Register, AbsPhase, AbsHolder, AbsPublished, Visible, IInv,
     TypeOK, LockInv, StoreInv, CloseInv, IndexInv, Procs, Holding,
     Registered, Using, Opening, Indexing
<1>5. ASSUME NEW w \in Workers, OpenStore(w) PROVE Stutter
  BY <1>5 DEF OpenStore, AbsPhase, AbsHolder, AbsPublished, Visible, IInv,
     TypeOK, LockInv, StoreInv, CloseInv, IndexInv, Procs, Holding,
     Registered, Using, Opening, Indexing
<1>6. ASSUME NEW w \in Workers, OpenFails(w) PROVE Stutter
  BY <1>6 DEF OpenFails, AbsPhase, AbsHolder, AbsPublished, Visible, IInv,
     TypeOK, LockInv, StoreInv, CloseInv, IndexInv, Procs, Holding,
     Registered, Using, Opening, Indexing
<1>7. ASSUME NEW w \in Workers, DiscardOpened(w) PROVE Stutter
  BY <1>7 DEF DiscardOpened, Destroy, AbsPhase, AbsHolder, AbsPublished,
     Visible, IInv, TypeOK, LockInv, StoreInv, CloseInv, IndexInv, Procs,
     Holding, Registered, Using, Opening, Indexing
<1>8. ASSUME NEW w \in Workers, KeepOpened(w) PROVE Stutter
  BY <1>8 DEF KeepOpened, AbsPhase, AbsHolder, AbsPublished, Visible, IInv,
     TypeOK, LockInv, StoreInv, CloseInv, IndexInv, Procs, Holding,
     Registered, Using, Opening, Indexing
<1>9. ASSUME NEW w \in Workers, InstallRefused(w) PROVE Stutter
  BY <1>9 DEF InstallRefused, AbsPhase, AbsHolder, AbsPublished, Visible,
     IInv, TypeOK, LockInv, StoreInv, CloseInv, IndexInv, Procs, Holding,
     Registered, Using, Opening, Indexing
<1>10. ASSUME NEW w \in Workers, InstallClose(w) PROVE Stutter
  BY <1>10 DEF InstallClose, Destroy, AbsPhase, AbsHolder, AbsPublished,
     Visible, IInv, TypeOK, LockInv, StoreInv, CloseInv, IndexInv, Procs,
     Holding, Registered, Using, Opening, Indexing
<1>11. ASSUME NEW w \in Workers, Query(w) PROVE Stutter
  BY <1>11 DEF Query, AbsPhase, AbsHolder, AbsPublished, Visible, IInv,
     TypeOK, LockInv, StoreInv, CloseInv, IndexInv, Procs, Holding,
     Registered, Using, Opening, Indexing
<1>12. ASSUME NEW w \in Workers, CheckIndexed(w) PROVE Stutter
  BY <1>12 DEF CheckIndexed, Return, AbsPhase, AbsHolder, AbsPublished,
     Visible, IInv, TypeOK, LockInv, StoreInv, CloseInv, IndexInv, Procs,
     Holding, Registered, Using, Opening, Indexing
<1>13. ASSUME NEW w \in Workers, ResolveSecrets(w) PROVE Stutter
  BY <1>13 DEF ResolveSecrets, Return, AbsPhase, AbsHolder, AbsPublished,
     Visible, IInv, TypeOK, LockInv, StoreInv, CloseInv, IndexInv, Procs,
     Holding, Registered, Using, Opening, Indexing
<1>14. ASSUME NEW w \in Workers, BeginIndex(w) PROVE Stutter
  BY <1>14 DEF BeginIndex, Return, AbsPhase, AbsHolder, AbsPublished, Visible,
     IInv, TypeOK, LockInv, StoreInv, CloseInv, IndexInv, Procs, Holding,
     Registered, Using, Opening, Indexing
<1>15. ASSUME NEW w \in Workers, StreamRows(w) PROVE Stutter
  BY <1>15 DEF StreamRows, AbsPhase, AbsHolder, AbsPublished, Visible, IInv,
     TypeOK, LockInv, StoreInv, CloseInv, IndexInv, Procs, Holding,
     Registered, Using, Opening, Indexing
<1>16. ASSUME NEW w \in Workers, StreamTimeout(w) PROVE Stutter
  BY <1>16 DEF StreamTimeout, AbsPhase, AbsHolder, AbsPublished, Visible,
     IInv, TypeOK, LockInv, StoreInv, CloseInv, IndexInv, Procs, Holding,
     Registered, Using, Opening, Indexing
<1>17. ASSUME NEW w \in Workers, StreamEnd(w) PROVE Stutter
  BY <1>17 DEF StreamEnd, StreamOutcome, AbsPhase, AbsHolder, AbsPublished,
     Visible, IInv, TypeOK, LockInv, StoreInv, CloseInv, IndexInv, Procs,
     Holding, Registered, Using, Opening, Indexing
<1>18. ASSUME NEW w \in Workers, CommitFails(w) PROVE Stutter
  BY <1>18 DEF CommitFails, AbsPhase, AbsHolder, AbsPublished, Visible, IInv,
     TypeOK, LockInv, StoreInv, CloseInv, IndexInv, Procs, Holding,
     Registered, Using, Opening, Indexing
<1>19. ASSUME NEW w \in Workers, Rollback(w) PROVE Stutter
  BY <1>19 DEF Rollback, AbsPhase, AbsHolder, AbsPublished, Visible, IInv,
     TypeOK, LockInv, StoreInv, CloseInv, IndexInv, Procs, Holding,
     Registered, Using, Opening, Indexing
<1>20. ASSUME NEW c \in Closers, CallClose(c) PROVE Stutter
  BY <1>20 DEF CallClose, AbsPhase, AbsHolder, AbsPublished, Visible, IInv,
     TypeOK, LockInv, StoreInv, CloseInv, IndexInv, Procs, Holding,
     Registered, Using, Opening, Indexing
<1>21. ASSUME NEW c \in Closers, MarkClosed(c) PROVE Stutter
  BY <1>21 DEF MarkClosed, AbsPhase, AbsHolder, AbsPublished, Visible, IInv,
     TypeOK, LockInv, StoreInv, CloseInv, IndexInv, Procs, Holding,
     Registered, Using, Opening, Indexing
<1>22. ASSUME NEW c \in Closers, CancelInflight(c) PROVE Stutter
  BY <1>22 DEF CancelInflight, AbsPhase, AbsHolder, AbsPublished, Visible,
     IInv, TypeOK, LockInv, StoreInv, CloseInv, IndexInv, Procs, Holding,
     Registered, Using, Opening, Indexing
<1>23. ASSUME NEW c \in Closers, LockForClose(c) PROVE Stutter
  <2>1. AbsHolder = NoOne
    BY <1>23 DEF LockForClose, AbsHolder
  <2>2. AbsHolder' = NoOne
    BY <1>23 DEF LockForClose, AbsHolder, IInv, TypeOK
  <2>3. AbsPhase' = AbsPhase /\ AbsPublished' = AbsPublished
    BY <1>23 DEF LockForClose, AbsPhase, AbsPublished, Visible, IInv, TypeOK
  <2> QED
    BY <2>1, <2>2, <2>3
\* An operation that finds the store open acquires it; the others go on.
<1>24. ASSUME NEW w \in Workers, Ensure(w) PROVE Stutter \/ Promise!Acquire(w)
  <2>1. CASE closed
    BY <1>24, <2>1 DEF Ensure, AbsPhase, AbsHolder, AbsPublished, Visible,
       IInv, TypeOK, LockInv, StoreInv, CloseInv, IndexInv, Procs, Holding,
       Registered, Using, Opening, Indexing
  <2>2. CASE ~closed /\ store = NoStore
    BY <1>24, <2>2 DEF Ensure, AbsPhase, AbsHolder, AbsPublished, Visible,
       IInv, TypeOK, LockInv, StoreInv, CloseInv, IndexInv, Procs, Holding,
       Registered, Using, Opening, Indexing
  <2>3. CASE ~closed /\ store # NoStore
    <3>1. AbsHolder = NoOne /\ AbsHolder' = w
      BY <1>24, <2>3 DEF Ensure, AbsPhase, AbsHolder, AbsPublished,
         Visible, IInv, TypeOK, LockInv, StoreInv, CloseInv, IndexInv,
         Procs, Holding, Registered, Using, Opening, Indexing
    <3>2. AbsPhase = "warm" /\ AbsPhase' = "warm"
      BY <1>24, <2>3 DEF Ensure, AbsPhase, AbsHolder, AbsPublished,
         Visible, IInv, TypeOK, LockInv, StoreInv, CloseInv, IndexInv,
         Procs, Holding, Registered, Using, Opening, Indexing
    <3>3. AbsPublished' = AbsPublished
      BY <1>24, <2>3 DEF Ensure, AbsPhase, AbsHolder, AbsPublished,
         Visible, IInv, TypeOK, LockInv, StoreInv, CloseInv, IndexInv,
         Procs, Holding, Registered, Using, Opening, Indexing
    <3> QED
      BY <3>1, <3>2, <3>3 DEF Promise!Acquire
  <2> QED
    BY <2>1, <2>2, <2>3
\* The operation that opened the store acquires it, and it is empty.
<1>25. ASSUME NEW w \in Workers, Install(w) PROVE Promise!Acquire(w)
  <2>1. AbsHolder = NoOne /\ AbsHolder' = w
    BY <1>25 DEF Install, AbsPhase, AbsHolder, AbsPublished, Visible, IInv,
       TypeOK, LockInv, StoreInv, CloseInv, IndexInv, Procs, Holding,
       Registered, Using, Opening, Indexing
  <2>2. AbsPhase = "cold" /\ AbsPhase' = "warm"
    BY <1>25 DEF Install, AbsPhase, AbsHolder, AbsPublished, Visible, IInv,
       TypeOK, LockInv, StoreInv, CloseInv, IndexInv, Procs, Holding,
       Registered, Using, Opening, Indexing
  <2>3. AbsPublished = {}
    BY <1>25 DEF Install, AbsPhase, AbsHolder, AbsPublished, Visible, IInv,
       TypeOK, LockInv, StoreInv, CloseInv, IndexInv, Procs, Holding,
       Registered, Using, Opening, Indexing
  <2>4. store' = local[w] /\ content' = content /\ content[local[w]] = NoRows
    BY <1>25 DEF Install, AbsPhase, AbsHolder, AbsPublished, Visible, IInv,
       TypeOK, LockInv, StoreInv, CloseInv, IndexInv, Procs, Holding,
       Registered, Using, Opening, Indexing
  <2>5. AbsPublished' = {}
    BY <2>4 DEF AbsPublished, Visible, NoRows
  <2> QED
    BY <2>1, <2>2, <2>3, <2>5 DEF Promise!Acquire
<1>26. ASSUME NEW w \in Workers, EndOp(w) PROVE Stutter \/ Promise!Release(w)
  <2>1. AbsPhase' = AbsPhase /\ AbsPublished' = AbsPublished /\ AbsHolder' = NoOne
    BY <1>26 DEF EndOp, AbsPhase, AbsHolder, AbsPublished, Visible, IInv,
       TypeOK, LockInv, StoreInv, CloseInv, IndexInv, Procs, Holding,
       Registered, Using, Opening, Indexing
  <2>2. CASE pc[w] = "release"
    <3>1. AbsHolder = w
      BY <1>26, <2>2 DEF AbsPhase, AbsHolder, AbsPublished, Visible, IInv,
         TypeOK, LockInv, StoreInv, CloseInv, IndexInv, Procs, Holding,
         Registered, Using, Opening, Indexing
    <3> QED
      BY <2>1, <3>1 DEF Promise!Release
  <2>3. CASE pc[w] = "fail"
    <3>1. AbsHolder = NoOne
      BY <1>26, <2>3 DEF AbsPhase, AbsHolder, AbsPublished, Visible, IInv,
         TypeOK, LockInv, StoreInv, CloseInv, IndexInv, Procs, Holding,
         Registered, Using, Opening, Indexing
    <3> QED
      BY <2>1, <3>1
  <2> QED
    BY <1>26, <2>2, <2>3 DEF EndOp
\* Commit publishes one whole snapshot.
<1>27. ASSUME NEW w \in Workers, Commit(w)
      PROVE  Promise!Publish(w, op[w].snap) /\ op[w].snap \in Snapshots
  <2>1. AbsHolder = w /\ AbsHolder' = w
    BY <1>27 DEF Commit, AbsPhase, AbsHolder, AbsPublished, Visible, IInv,
       TypeOK, LockInv, StoreInv, CloseInv, IndexInv, Procs, Holding,
       Registered, Using, Opening, Indexing
  <2>2. AbsPhase' = AbsPhase
    BY <1>27 DEF Commit, AbsPhase, AbsHolder, AbsPublished, Visible, IInv,
       TypeOK, LockInv, StoreInv, CloseInv, IndexInv, Procs, Holding,
       Registered, Using, Opening, Indexing
  <2>3. op[w].snap \in Snapshots /\ store \in Handles /\ store' = store
    BY <1>27 DEF Commit, Ops, AbsPhase, AbsHolder, AbsPublished, Visible,
       IInv, TypeOK, LockInv, StoreInv, CloseInv, IndexInv, Procs, Holding,
       Registered, Using, Opening, Indexing
  <2>4. content' = [content EXCEPT ![store][op[w].snap] = "all"]
    BY <1>27 DEF Commit, AbsPhase, AbsHolder, AbsPublished, Visible, IInv,
       TypeOK, LockInv, StoreInv, CloseInv, IndexInv, Procs, Holding,
       Registered, Using, Opening, Indexing
  <2>5. AbsPublished' = AbsPublished \cup {op[w].snap}
    BY <2>3, <2>4 DEF AbsPublished, Visible, IInv, TypeOK
  <2> QED
    BY <2>1, <2>2, <2>3, <2>5 DEF Promise!Publish
\* The first Close to get here shuts the session down, later ones find it gone.
<1>28. ASSUME NEW c \in Closers, Shut(c) PROVE Stutter \/ Promise!Shutdown
  <2>1. AbsHolder = NoOne /\ AbsHolder' = NoOne
    BY <1>28 DEF Shut, AbsPhase, AbsHolder, AbsPublished, Visible, IInv,
       TypeOK, LockInv, StoreInv, CloseInv, IndexInv, Procs, Holding,
       Registered, Using, Opening, Indexing
  <2>2. CASE store = NoStore
    <3>1. AbsPublished = {} /\ AbsPublished' = {}
      BY <1>28, <2>2 DEF Shut, AbsPublished
    <3>2. AbsPhase' = "gone"
      BY <1>28, <2>2 DEF Shut, AbsPhase, IInv, TypeOK
    <3> QED
      BY <2>1, <3>1, <3>2 DEF Promise!Shutdown
  <2>3. CASE store # NoStore
    <3>1. AbsPhase' = AbsPhase /\ AbsPublished' = AbsPublished
      BY <1>28, <2>3 DEF Shut, AbsPhase, AbsPublished, Visible, IInv, TypeOK
    <3> QED
      BY <2>1, <3>1
  <2> QED
    BY <2>2, <2>3
<1>29. ASSUME NEW c \in Closers, CloseStore(c) PROVE Promise!Shutdown
  <2>1. AbsHolder = NoOne /\ AbsHolder' = NoOne
    BY <1>29 DEF CloseStore, AbsPhase, AbsHolder, AbsPublished, Visible,
       IInv, TypeOK, LockInv, StoreInv, CloseInv, IndexInv, Procs, Holding,
       Registered, Using, Opening, Indexing
  <2>2. AbsPhase # "gone" /\ AbsPhase' = "gone"
    BY <1>29 DEF CloseStore, AbsPhase, AbsHolder, AbsPublished, Visible,
       IInv, TypeOK, LockInv, StoreInv, CloseInv, IndexInv, Procs, Holding,
       Registered, Using, Opening, Indexing
  <2>3. AbsPublished' = {}
    BY <1>29 DEF CloseStore, AbsPublished
  <2> QED
    BY <2>1, <2>2, <2>3 DEF Promise!Shutdown
<1>30. ASSUME UNCHANGED vars PROVE Stutter
  BY <1>30 DEF vars, AbsPhase, AbsHolder, AbsPublished, Visible
<1> QED
  BY <1>1, <1>2, <1>3, <1>4, <1>5, <1>6, <1>7, <1>8, <1>9, <1>10, <1>11,
     <1>12, <1>13, <1>14, <1>15, <1>16, <1>17, <1>18, <1>19, <1>20, <1>21,
     <1>22, <1>23, <1>24, <1>25, <1>26, <1>27, <1>28, <1>29, <1>30
  DEF Next, BeginStep, IndexStep, StreamStep, CloseStep, Promise!Next, Promise!vars

\* The locks, contexts and transactions implement the promise: one store, held
\* by one operation at a time, published whole, shut down for good.
THEOREM Refinement == Spec => RefinesSpec
<1>1. Init => Promise!Init
  <2> SUFFICES ASSUME Init PROVE Promise!Init
    OBVIOUS
  <2> QED
    BY ProcAssumption DEF Init, AbsPhase, AbsHolder, AbsPublished, Promise!Init
<1>2. IInv /\ IInv' /\ [Next]_vars => [Promise!Next]_(Promise!vars)
  BY StepRefines
<1> QED
  BY <1>1, <1>2, Invariance, PTL DEF Spec, RefinesSpec, Promise!Spec

=============================================================================
