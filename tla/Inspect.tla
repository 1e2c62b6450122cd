-------------------------------- MODULE Inspect --------------------------------
(***************************************************************************)
(* The two records of a changed path side by side                          *)
(* (internal/tui/snapshotdiffinfo.go and snapshotdiffinfoview.go) and the  *)
(* comparison behind them (internal/model/treenode.go).                    *)
(*                                                                         *)
(* A record has the fields restic compares.  An owner is a pair of name    *)
(* and id, a time a number (0 is the zero time) of which two fall into one *)
(* printed second, a size one of which two print alike, and extended       *)
(* attributes are a sequence of pairs of name and value.                   *)
(***************************************************************************)
EXTENDS Integers, SequencesExt

NoNode == [type |-> "none"]
NilContent == <<"nil">>

\* What stays when the value of an attribute is looked up by its name: the last
\* one of that name.
ByName(attrs) ==
    [n \in {x[1] : x \in Range(attrs)} |->
        attrs[CHOOSE i \in DOMAIN attrs : attrs[i][1] = n /\ \A j \in DOMAIN attrs : attrs[j][1] = n => j <= i][2]]

SameXattrs(a, b) ==
    /\ Len(a) = Len(b)
    /\ \A x \in Range(b) : x[1] \in DOMAIN ByName(a) /\ ByName(a)[x[1]] = x[2]

XattrValuesDiffer(a, b) ==
    {n \in DOMAIN ByName(a) \cap DOMAIN ByName(b) : \E x \in Range(a) : x[1] = n /\ x[2] # ByName(b)[n]}
GenericAttrValuesDiffer(a, b) == {n \in DOMAIN a \cap DOMAIN b : a[n] # b[n]}

Scalars == {"type", "mode", "owner", "group", "mtime", "atime", "ctime", "inode", "deviceID", "size", "links",
            "linkTarget", "device", "generic", "content", "subtree", "error"}

\* The set of the flags that CompareTreeNodes raises.
CompareTreeNodes(a, b) ==
    {f \in Scalars : a[f] # b[f]} \cup (IF SameXattrs(a.xattrs, b.xattrs) THEN {} ELSE {"xattrs"})
OwnFieldsOnly(changes) == changes \ {"content", "subtree"}

-----------------------------------------------------------------------------
(* A cell, at its usual and at its full precision.                         *)

Rounded(n) == n \div 2

CellText(f, n, precise) ==
    CASE f = "size" -> IF precise THEN <<Rounded(n.size), n.size>> ELSE <<Rounded(n.size)>>
      [] f \in {"mtime", "ctime", "atime"} -> IF precise THEN <<n[f]>> ELSE <<Rounded(n[f])>>
      [] f = "xattrs" -> DOMAIN ByName(n.xattrs)
      [] f = "generic" -> DOMAIN n.generic
      [] OTHER -> <<n[f]>>

\* Rows that no record uses are left out, and so is the access time that restic
\* copies from the modification time by default.
Uses(f, n) ==
    CASE f = "size" -> n.type = "file"
      [] f = "atime" -> n.atime # n.mtime
      [] f \in {"inode", "links", "deviceID", "device"} -> n[f] # 0
      [] f \in {"linkTarget", "error"} -> n[f] # ""
      [] f = "xattrs" -> n.xattrs # <<>>
      [] f = "generic" -> DOMAIN n.generic # {}
      [] f \in {"content", "subtree"} -> FALSE
      [] OTHER -> TRUE

DiffInfoField(f, a, b, changed) ==
    LET both == a # NoNode /\ b # NoNode
        precise == both /\ changed /\ CellText(f, a, FALSE) = CellText(f, b, FALSE)
        Cell(n) == IF n = NoNode THEN {} ELSE {CellText(f, n, precise)}
    IN  [name |-> f, changed |-> both /\ changed, cells |-> <<Cell(a), Cell(b)>>]

\* diffInfoFields: contents are compared in words, for two records only.
DiffInfoFields(a, b) ==
    LET present == {a, b} \ {NoNode}
        both == a # NoNode /\ b # NoNode
        changes == IF both THEN CompareTreeNodes(a, b) ELSE {}
        shown == {f \in Scalars \cup {"xattrs"} : \E n \in present : Uses(f, n)}
    IN  {DiffInfoField(f, a, b, f \in changes) : f \in shown}
        \cup {[name |-> "contents", changed |-> changes \cap {"content", "subtree"} # {}, cells |-> <<{}, {}>>] :
                n \in {n \in present : both /\ n.type \in {"file", "dir"}}}

\* What the verdict lists, if there are two records.
DiffInfoVerdict(a, b) == {f.name : f \in {g \in DiffInfoFields(a, b) : g.changed}}

DiffInfoNotes(row, a, b) ==
    LET changes == CompareTreeNodes(a, b)
        own == OwnFieldsOnly(changes) # {}
    IN  IF a = NoNode \/ b = NoNode THEN {}
        ELSE {n \in {"marked for what is below", "only ctime", "only contents", "xattr values", "attribute values"} :
                CASE n = "marked for what is below" -> row.isDir /\ "U" \in row.kinds /\ "subtree" \in changes /\ ~own
                  [] n = "only ctime" -> changes = {"ctime"}
                  [] n = "only contents" -> "?" \in row.kinds /\ "content" \in changes /\ ~own
                  [] n = "xattr values" -> XattrValuesDiffer(a.xattrs, b.xattrs) # {}
                  [] n = "attribute values" -> GenericAttrValuesDiffer(a.generic, b.generic) # {}}

-----------------------------------------------------------------------------
(* The columns: what is looked up, and what the screen says of it.         *)

Missing == [type |-> "missing"]
Failed == [type |-> "failed"]

\* openDiffInfo: a row marked only + or - is in one snapshot.
Wanted(row) == {s \in {"first", "second"} : row.kinds # (IF s = "first" THEN {"+"} ELSE {"-"})}

\* answer[s] is a record, Missing or Failed.
SideNode(row, answer, s) == IF s \in Wanted(row) /\ answer[s] \notin {Missing, Failed} THEN answer[s] ELSE NoNode
DiffInfoProblems(row, answer) == {s \in Wanted(row) : answer[s] \in {Missing, Failed}}

-----------------------------------------------------------------------------
\* restic's equality of records: attributes have unique names and no order.
SameNode(a, b) == (\A f \in Scalars : a[f] = b[f]) /\ Range(a.xattrs) = Range(b.xattrs)

\* The screen names a difference exactly when restic sees one, although it leaves
\* out rows; where it marks a row, its cells differ or a note says in what; a note
\* that excludes other changes is right; and a side that was looked up is a column
\* or a problem (diffInfoVerdict, diffInfoFields, diffInfoNotes, diffInfoProblems).
InspectIsTrue(row, answer) ==
    LET a == SideNode(row, answer, "first")
        b == SideNode(row, answer, "second")
        fields == DiffInfoFields(a, b)
        named == DiffInfoVerdict(a, b)
        notes == DiffInfoNotes(row, a, b)
        columns == {s \in {"first", "second"} : SideNode(row, answer, s) # NoNode}
    IN  /\ columns = {"first", "second"} =>
             /\ named = {} <=> SameNode(a, b)
             /\ \A r \in fields : r.changed =>
                  \/ r.name = "contents" \/ r.cells[1] # r.cells[2]
                  \/ r.name = "xattrs" /\ "xattr values" \in notes
                  \/ r.name = "generic" /\ "attribute values" \in notes
             /\ "only ctime" \in notes => named = {"ctime"}
             /\ {"marked for what is below", "only contents"} \cap notes # {} => named = {"contents"}
        /\ columns \cap DiffInfoProblems(row, answer) = {}
        /\ Wanted(row) = columns \cup DiffInfoProblems(row, answer)
===============================================================================
