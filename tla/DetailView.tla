------------------------------ MODULE DetailView ------------------------------
(***************************************************************************)
(* The detail view of one repository (internal/tui: detail_keys.go,        *)
(* snapgroup.go, the marks in snapshotdiff.go, applyRefresh): grouping and *)
(* collapsing of the snapshot list, the cursor, and the two marks a diff   *)
(* starts from.  A refresh may replace the snapshots under any screen.     *)
(* Hosts, tag sets and path sets are numbers in their sort order, 0 for a  *)
(* missing one; positions count from 1.                                    *)
(***************************************************************************)
EXTENDS Navigation, Arrange, SequencesExt

CONSTANTS Snaps,      \* snapshots: [id, time, tree, host, tags, paths]
          Refreshed   \* the sets of them a refresh may report

\* An id names one snapshot.
ASSUME DetailAssumption ==
    /\ Snaps \subseteq [id : Nat \ {0}, time : Nat, tree : Nat, host : Nat, tags : Nat, paths : Nat]
    /\ \A a, b \in Snaps : a.id = b.id => a = b
    /\ Refreshed \subseteq SUBSET Snaps /\ \A S \in Refreshed : IsFiniteSet(S)

VARIABLE detail  \* [snaps, mode, collapse, cursor, marks]

Modes == <<"off", "host", "tags", "paths">>

DetailInit ==
    \E S \in Refreshed : detail = [snaps |-> S, mode |-> 1, collapse |-> FALSE, cursor |-> 1, marks |-> <<>>]

-----------------------------------------------------------------------------
(* buildSnapDisplay: the rows, each with the snapshots folded into it.     *)

Collapsible(a, b) ==
    a.tree # 0 /\ a.tree = b.tree /\ <<a.host, a.tags, a.paths>> = <<b.host, b.tags, b.paths>>

\* The rows for the first i snapshots, each folded into the row above or a new one.
CollapseTreeRuns(snaps) ==
    LET fold(nodes, s) ==
            IF nodes # <<>> /\ Collapsible(Last(nodes).head, s)
            THEN [nodes EXCEPT ![Len(nodes)].peers = @ \cup {s}]
            ELSE Append(nodes, [head |-> s, peers |-> {}])
        rows[i \in 0..Len(snaps)] == IF i = 0 THEN <<>> ELSE fold(rows[i - 1], snaps[i])
    IN  rows[Len(snaps)]

\* snapshotBeforeNewest, the order of the snapshots a refresh brings.
Newer(a, b) == a.time > b.time \/ (a.time = b.time /\ a.id > b.id)

\* Sections in the order of their keys, the missing key last, newest first in each.
SnapSections(snaps, mode) ==
    LET key(s) == IF Modes[mode] = "off" THEN 0 ELSE s[Modes[mode]]
        keys == Arranged({key(s) : s \in snaps}, LAMBDA i, j : i # 0 /\ (j = 0 \/ i < j))
    IN  [i \in DOMAIN keys |-> Arranged({s \in snaps : key(s) = keys[i]}, Newer)]

SnapDisplay(d) ==
    LET nodes(section) == IF d.collapse THEN CollapseTreeRuns(section)
                          ELSE [i \in DOMAIN section |-> [head |-> section[i], peers |-> {}]]
        sections == SnapSections(d.snaps, d.mode)
    IN  FlattenSeq([i \in DOMAIN sections |-> nodes(sections[i])])

-----------------------------------------------------------------------------
(* Selection and marks. *)

InNode(node, id) == id \in {s.id : s \in {node.head} \cup node.peers}

Clamp(i, n) == IF i > n /\ n > 0 THEN n ELSE i

\* selectedNode, where the display is not empty.
SelectedNode(d) == SnapDisplay(d)[Clamp(d.cursor, Len(SnapDisplay(d)))]
SelectedSnap(d) == SelectedNode(d).head

\* normalizedDetailMarks: the rows of the first i marks, without the absent.
Normalized(marks, nodes) ==
    LET head(s) == nodes[CHOOSE i \in DOMAIN nodes : InNode(nodes[i], s.id)].head
        add(out, s) == IF (\A i \in DOMAIN nodes : ~InNode(nodes[i], s.id)) \/ Contains(out, head(s))
                       THEN out ELSE Append(out, head(s))
        kept[i \in 0..Len(marks)] == IF i = 0 THEN <<>> ELSE add(kept[i - 1], marks[i])
    IN  kept[Len(marks)]

\* indexOfSnap: the row that shows snapshot id, folded or not.
IndexOfSnap(nodes, id) ==
    LET at == SelectInSeq(nodes, LAMBDA n : InNode(n, id)) IN IF at = 0 THEN 1 ELSE at

\* What cycleSnapGroup and cycleSnapCollapse share after the mode has changed.
Reanchored(d, new) ==
    LET nodes == SnapDisplay(new)
    IN  [new EXCEPT !.marks = Normalized(@, nodes),
                    !.cursor = IF nodes = <<>> THEN 1 ELSE IndexOfSnap(nodes, SelectedSnap(d).id)]

\* diffPair: the older and the newer, or none.
DiffPair(d) ==
    LET marks == Normalized(d.marks, SnapDisplay(d))
        pair == IF Len(marks) = 2 THEN marks ELSE <<marks[1], SelectedSnap(d)>>
    IN  IF marks = <<>> \/ pair[1].id = pair[2].id THEN <<>>
        ELSE IF pair[2].time < pair[1].time THEN <<pair[2], pair[1]>> ELSE pair

-----------------------------------------------------------------------------
(* Actions. *)

ScreenKept == UNCHANGED <<view, prevView, extractReturn, quitting, flight>>

\* enter in the list.
EnterDetail ==
    /\ ~quitting /\ view = "list" /\ view' = "detail"
    /\ detail' = [detail EXCEPT !.cursor = 1, !.mode = 1, !.collapse = FALSE]
    /\ UNCHANGED <<prevView, extractReturn, quitting, flight, budget>>

\* goBack from detail.
LeaveDetail ==
    /\ ~quitting /\ view = "detail" /\ view' = "list"
    /\ detail' = [detail EXCEPT !.marks = <<>>, !.mode = 1, !.collapse = FALSE]
    /\ UNCHANGED <<prevView, extractReturn, quitting, flight, budget>>

AtDetail == ~quitting /\ view = "detail"
InDetail == AtDetail /\ detail.snaps # {}

MoveCursor ==
    /\ InDetail /\ Press("detail")
    /\ \/ detail.cursor > 1 /\ detail' = [detail EXCEPT !.cursor = @ - 1]
       \/ detail.cursor < Len(SnapDisplay(detail)) /\ detail' = [detail EXCEPT !.cursor = @ + 1]
    /\ ScreenKept

\* toggleDetailMark: two slots, the oldest mark gives way.
ToggleDetailMark ==
    /\ InDetail /\ Press("detail")
    /\ LET snap == SelectedSnap(detail)
           at == {i \in DOMAIN detail.marks : detail.marks[i].id = snap.id}
           added == Append(detail.marks, snap)
       IN  \/ \E i \in at : detail' = [detail EXCEPT !.marks = RemoveAt(@, i)]
           \/ at = {} /\ detail' = [detail EXCEPT !.marks = IF Len(added) > 2 THEN Tail(added) ELSE added]
    /\ ScreenKept

CycleSnapGroup ==
    /\ AtDetail /\ Press("detail")
    /\ detail' = Reanchored(detail, [detail EXCEPT !.mode = (@ % Len(Modes)) + 1])
    /\ ScreenKept

\* Mutant: the cursor keeps its position.
CycleSnapCollapseInPlace ==
    /\ AtDetail /\ Press("detail")
    /\ detail' = [Reanchored(detail, [detail EXCEPT !.collapse = ~@]) EXCEPT !.cursor = detail.cursor]
    /\ ScreenKept

CycleSnapCollapse ==
    /\ AtDetail /\ Press("detail")
    /\ detail' = Reanchored(detail, [detail EXCEPT !.collapse = ~@])
    /\ ScreenKept

\* enter on i.
OpenInfo ==
    /\ InDetail /\ view' = "info"
    /\ UNCHANGED <<prevView, extractReturn, quitting, flight, budget, detail>>

\* applyRefresh of this repository: the marks follow, the cursor stays.
ApplyRefreshed ==
    /\ Press("detail")
    /\ \E S \in Refreshed :
          LET new == [detail EXCEPT !.snaps = S]
          IN  detail' = [new EXCEPT !.marks = Normalized(@, SnapDisplay(new))]
    /\ ScreenKept

DetailNext ==
    \/ EnterDetail \/ LeaveDetail \/ MoveCursor \/ ToggleDetailMark
    \/ CycleSnapGroup \/ CycleSnapCollapse \/ OpenInfo \/ ApplyRefreshed

-----------------------------------------------------------------------------
DetailTypeOK ==
    /\ detail.snaps \subseteq Snaps /\ detail.mode \in DOMAIN Modes /\ detail.collapse \in BOOLEAN
    /\ detail.cursor \in Nat \ {0} /\ detail.marks \in Seq(Snaps)
    \* Both slots name a row of the display, never one row twice.
    /\ Len(detail.marks) <= 2
    /\ \A i, j \in DOMAIN detail.marks : i # j => detail.marks[i].id # detail.marks[j].id

\* The same contents of the same source: what a collapsed row stands for.
SameBackup(a, b) == a.id = b.id \/ Collapsible(a, b)

\* Grouping and collapsing keep the selected snapshot under the cursor, shown
\* by itself or by the row it is folded into; and as long as the user stays with
\* the repository, whatever reorders, folds or refreshes the list, a mark is
\* lost only by the user's hand or with its snapshot: it stays, or passes to a
\* snapshot with the same contents and source (snapgroup.go, applyRefresh).
SelectionKept ==
    /\ (/\ detail'.mode # detail.mode \/ detail'.collapse # detail.collapse
        /\ view = "detail" /\ view' = "detail" /\ detail.snaps # {}) =>
         InNode(SelectedNode(detail'), SelectedSnap(detail).id)
    /\ (/\ detail'.snaps # detail.snaps \/ detail'.mode # detail.mode \/ detail'.collapse # detail.collapse
        /\ view' # "list") =>
         \A i \in DOMAIN detail.marks : detail.marks[i] \in detail'.snaps =>
             \E j \in DOMAIN detail'.marks : SameBackup(detail.marks[i], detail'.marks[j])
===============================================================================
