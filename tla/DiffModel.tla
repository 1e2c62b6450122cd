------------------------------- MODULE DiffModel -------------------------------
(***************************************************************************)
(* From the change lines of restic diff to what the diff view shows and    *)
(* what it extracts (internal/model/diff.go): BuildDiffTree and            *)
(* DiffExtractIncludes.  A path is the sequence of its names, DiffRoot is  *)
(* <<>>.  A ModifierKind bitmask is the set of its markers; the text of a  *)
(* modifier says no more than that set and is left out, and so is the      *)
(* order of rows in a listing, which is layout.                            *)
(***************************************************************************)
EXTENDS Integers, Sequences, FiniteSets, SequencesExt

Kinds == {"+", "-", "M", "U", "T", "?"}
DiffRoot == <<>>

\* DiffParentOf, applied to anything but the root.
DiffParentOf(p) == SubSeq(p, 1, Len(p) - 1)
IsAncestor(d, p) == Len(d) < Len(p) /\ SubSeq(p, 1, Len(d)) = d

\* PrimaryChangeType, with "unknown" for an ancestor that did not change itself.
PrimaryChangeType(kinds) ==
    LET precedence == <<"?", "T", "-", "+", "M", "U">>
        at == SelectInSeq(precedence, LAMBDA k : k \in kinds)
    IN  IF at = 0 THEN "unknown" ELSE precedence[at]

-----------------------------------------------------------------------------
(* BuildDiffTree.  rows is the map of that name: a function from paths;    *)
(* Children groups its values by parent.                                   *)

\* ensure: a new row, or an explicit entry merged into the row that is there.
Ensure(rows, p, isDir, type, kinds) ==
    LET prev == rows[p]
        merged == prev.kinds \cup kinds
        isExplicit == type # "unknown"
        row == IF p \notin DOMAIN rows THEN [type |-> type, kinds |-> kinds, isDir |-> isDir]
               ELSE [type |-> IF prev.kinds # {} /\ kinds # {} THEN PrimaryChangeType(merged)
                              ELSE IF isExplicit THEN type ELSE prev.type,
                     kinds |-> merged,
                     isDir |-> IF isExplicit THEN isDir ELSE prev.isDir]
    IN  [q \in DOMAIN rows \cup {p} |-> IF q = p THEN row ELSE rows[q]]

\* An entry and every ancestor of it up to the root.
EnsureEntry(rows, e) ==
    LET ancestors == [i \in 1..Len(e.path) |-> SubSeq(e.path, 1, Len(e.path) - i)]
    IN  FoldLeft(LAMBDA r, anc : Ensure(r, anc, TRUE, "unknown", {}),
                 Ensure(rows, e.path, e.isDir, PrimaryChangeType(e.kinds), e.kinds), ancestors)

DiffRows(entries) == FoldLeft(EnsureEntry, [p \in {} |-> <<>>], entries)

\* mergedKinds, for paths that have an entry, and isDir where any of them says so.
MergedKinds(entries, p) == UNION {entries[i].kinds : i \in {j \in DOMAIN entries : entries[j].path = p}}
MergedIsDir(entries, p) == \E i \in DOMAIN entries : entries[i].path = p /\ entries[i].isDir
Changed(entries) == {entries[i].path : i \in DOMAIN entries}

NoStats == [k \in Kinds |-> 0]

\* addKinds for one path, in the aggregate of each of its ancestors.
AddKinds(entries, aggregate, p) ==
    LET kinds == MergedKinds(entries, p)
    IN  [d \in DOMAIN aggregate |->
           IF IsAncestor(d, p) THEN [k \in Kinds |-> aggregate[d][k] + IF k \in kinds THEN 1 ELSE 0]
           ELSE aggregate[d]]

\* pathOrder: each path at its first entry.
PathOrder(entries) ==
    LET add(order, e) == IF Contains(order, e.path) THEN order ELSE Append(order, e.path)
    IN  FoldLeft(add, <<>>, entries)

Aggregate(entries) ==
    FoldLeft(LAMBDA a, p : AddKinds(entries, a, p),
             [d \in DOMAIN DiffRows(entries) |-> NoStats], PathOrder(entries))

\* The listing of directory d: a row per child; only directories have an aggregate.
Children(entries, d) ==
    LET rows == DiffRows(entries)
        agg == Aggregate(entries)
        row(p) == [path |-> p, type |-> rows[p].type, kinds |-> rows[p].kinds, isDir |-> rows[p].isDir,
                   aggregate |-> IF rows[p].isDir THEN agg[p] ELSE NoStats]
    IN  {row(p) : p \in {q \in DOMAIN rows \ {DiffRoot} : DiffParentOf(q) = d}}

-----------------------------------------------------------------------------
(* DiffExtractIncludes. *)

FirstSide == {"-", "M", "U", "T", "?"}
SecondSide == {"+", "M", "U", "T", "?"}

Within(root, p) == p = root \/ IsAncestor(root, p)

\* Mutant: a directory that was removed and added again covers what is below it.
PureMixed(entries, root, filter, marker) ==
    {p \in Changed(entries) : /\ Within(root, p) /\ MergedIsDir(entries, p)
                              /\ marker \in MergedKinds(entries, p) \cap filter}

\* pureFirst, pureSecond: selected directories that exist on one side only.
Pure(entries, root, filter, marker) ==
    {p \in Changed(entries) : /\ Within(root, p) /\ MergedIsDir(entries, p)
                              /\ MergedKinds(entries, p) = {marker} /\ marker \in filter}

Covered(p, root, pure) == \E anc \in pure : IsAncestor(anc, p) /\ Within(root, anc)

\* The paths one side counts: visible, changed there, and no directory whose
\* unchanged contents would come along.
Selected(entries, root, filter, side) ==
    {p \in Changed(entries) :
        /\ Within(root, p)
        /\ MergedKinds(entries, p) \cap filter \cap side # {}
        /\ MergedIsDir(entries, p) => MergedKinds(entries, p) \in {{"+"}, {"-"}}}

Includes(entries, root, filter, side, marker) ==
    {p \in Selected(entries, root, filter, side) : ~Covered(p, root, Pure(entries, root, filter, marker))}

DiffExtractIncludes(entries, root, filter) ==
    [first |-> Includes(entries, root, filter, FirstSide, "-"),
     second |-> Includes(entries, root, filter, SecondSide, "+"),
     firstCount |-> Cardinality(Selected(entries, root, filter, FirstSide)),
     secondCount |-> Cardinality(Selected(entries, root, filter, SecondSide))]

-----------------------------------------------------------------------------
\* The tree shows what changed and nothing else: a directory lists a child if
\* and only if that changed or something under it did, with all markers ever
\* reported for it and the dominant one of them, and a directory counts every
\* changed path under it once per marker, whatever the order of the lines and
\* however often a path appears (diff.go, BuildDiffTree).
TreeIsExact(entries) ==
    LET changed == Changed(entries)
        above == UNION {{SubSeq(p, 1, k) : k \in 0..(Len(p) - 1)} : p \in changed}
        stats(d) == [k \in Kinds |->
                       Cardinality({p \in changed : IsAncestor(d, p) /\ k \in MergedKinds(entries, p)})]
        row(p) == [path |-> p, type |-> PrimaryChangeType(MergedKinds(entries, p)),
                   kinds |-> MergedKinds(entries, p), isDir |-> p \in above \/ MergedIsDir(entries, p),
                   aggregate |-> IF p \in above \/ MergedIsDir(entries, p) THEN stats(p) ELSE NoStats]
    IN  /\ \A d \in above :
             Children(entries, d) = {row(p) : p \in {q \in (changed \cup above) \ {DiffRoot} : DiffParentOf(q) = d}}
        /\ changed # {} => Aggregate(entries)[DiffRoot] = stats(DiffRoot)

\* What a recursive restore of the includes of one side brings of the changed paths.
Restored(entries, includes) ==
    {p \in Changed(entries) : \E i \in includes : p = i \/ (IsAncestor(i, p) /\ MergedIsDir(entries, i))}

\* Extracting what is shown brings every selected path of a side, restores no
\* directory that exists on both, and names nothing twice (diff.go,
\* DiffExtractIncludes).
IncludesAreExact(entries, root, filter) ==
    \A side \in {<<FirstSide, "-">>, <<SecondSide, "+">>} :
        LET sel == Selected(entries, root, filter, side[1])
            inc == Includes(entries, root, filter, side[1], side[2])
        IN  /\ sel \subseteq Restored(entries, inc) /\ inc \subseteq sel
            /\ \A p \in inc : MergedIsDir(entries, p) => MergedKinds(entries, p) = {side[2]}
            /\ \A p, q \in inc : ~(IsAncestor(p, q) /\ MergedIsDir(entries, p))
===============================================================================
