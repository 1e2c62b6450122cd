---------------------------- MODULE ExtractTargets ----------------------------
(***************************************************************************)
(* What App.Extract promises of the target directories of one snapshot     *)
(* (internal/app/extract.go, extract_privileged.go), to any number of      *)
(* calls of any number of processes: a source appears at its target at     *)
(* once, to the last node below it, or not at all; nothing that is there   *)
(* goes away or is replaced; and a call that says it succeeded brought its *)
(* source.  A call that failed, or whose process died, may have brought it *)
(* all the same.  Staging, renames, helpers and signals are in             *)
(* ExtractPipeline.tla.                                                    *)
(***************************************************************************)
CONSTANTS Nodes, Dirs, Root, Up,  \* the snapshot's tree, as in ExtractPipeline
          Runs                    \* calls of Extract

VARIABLES call,     \* per run: idle, asked, ok or failed
          source,   \* per run: what it was asked for
          brought,  \* per run: what of its source it put at the target
          there,    \* nodes that extraction put at their targets
          foreign,  \* nodes whose targets are taken by something else
          foul      \* a staging directory was deleted by a run that had not made it

vars == <<call, source, brought, there, foreign, foul>>

WithBelow(n) == {n} \cup {x \in Nodes : n \in Up[x]}

Init ==
    /\ call = [r \in Runs |-> "idle"] /\ source = [r \in Runs |-> Root]
    /\ brought = [r \in Runs |-> "none"]
    /\ there = {} /\ foreign \subseteq Nodes
    /\ foul = FALSE

Ask(r, n) ==
    /\ call[r] = "idle"
    /\ call' = [call EXCEPT ![r] = "asked"] /\ source' = [source EXCEPT ![r] = n]
    /\ UNCHANGED <<brought, there, foreign, foul>>

\* One empty directory may take the place of another.
Bring(r) ==
    LET all == WithBelow(source[r])
    IN  /\ call[r] = "asked" /\ brought[r] = "none"
        /\ all \cap foreign = {}
        /\ all \cap there = {} \/ (all = {source[r]} /\ source[r] \in Dirs)
        /\ there' = there \cup all
        /\ \E b \in {"whole"} \cup (IF foul THEN {"part"} ELSE {}) : brought' = [brought EXCEPT ![r] = b]
        /\ UNCHANGED <<call, source, foreign, foul>>

Answer(r) ==
    /\ call[r] = "asked"
    /\ \/ brought[r] # "none" /\ call' = [call EXCEPT ![r] = "ok"] /\ UNCHANGED foul
       \/ call' = [call EXCEPT ![r] = "failed"] /\ foul' \in {foul, TRUE}
    /\ UNCHANGED <<source, brought, there, foreign>>

Next == \E r \in Runs : (\E n \in Nodes : Ask(r, n)) \/ Bring(r) \/ Answer(r)

Spec == Init /\ [][Next]_vars
===============================================================================
