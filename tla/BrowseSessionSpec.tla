-------------------------- MODULE BrowseSessionSpec --------------------------
(***************************************************************************)
(* What a browse session promises to the rest of the program               *)
(* (internal/app/browsesession.go, type BrowseSession): one store at most, *)
(* opened on first use, held by one operation at a time, and destroyed for *)
(* good by Close, never under the operation that holds it.  A snapshot is  *)
(* published whole by the operation that holds the store, or not at all.   *)
(* How locks, contexts and transactions achieve it is BrowseSession.tla.   *)
(***************************************************************************)
CONSTANTS Workers,    \* goroutines that run store operations
          Snapshots,  \* snapshots that can be indexed
          NoOne       \* the store is not held

VARIABLES phase,      \* "cold": never opened, "warm": open, "gone": shut down
          holder,     \* the worker whose operation holds the store
          published   \* snapshots with a committed index

vars == <<phase, holder, published>>

TypeOK ==
    /\ phase \in {"cold", "warm", "gone"}
    /\ holder \in Workers \cup {NoOne}
    /\ published \subseteq Snapshots

Init == phase = "cold" /\ holder = NoOne /\ published = {}

\* The first operation opens the store; every one has it to itself.
Acquire(w) ==
    /\ phase # "gone"
    /\ holder = NoOne
    /\ holder' = w
    /\ phase' = "warm"
    /\ UNCHANGED published

Publish(w, s) ==
    /\ holder = w
    /\ published' = published \cup {s}
    /\ UNCHANGED <<phase, holder>>

Release(w) ==
    /\ holder = w
    /\ holder' = NoOne
    /\ UNCHANGED <<phase, published>>

\* Close takes the store away only while nobody holds it.
Shutdown ==
    /\ phase # "gone"
    /\ holder = NoOne
    /\ phase' = "gone"
    /\ published' = {}
    /\ UNCHANGED holder

Next ==
    \/ \E w \in Workers :
          \/ Acquire(w)
          \/ \E s \in Snapshots : Publish(w, s)
          \/ Release(w)
    \/ Shutdown

Spec == Init /\ [][Next]_vars
=============================================================================
