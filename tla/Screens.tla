-------------------------------- MODULE Screens --------------------------------
(***************************************************************************)
(* What a screen is made of, line by line (internal/tui: frame, listView,  *)
(* browseBody, findBody, snapshotDiffBody, detailBody and their tables).   *)
(* The budgets of Windows count the same lines ahead of time, by constants *)
(* of their own; here they are put together.  A line is a record; its text *)
(* and its width are left out.                                             *)
(***************************************************************************)
EXTENDS Windows

Line(kind) == Token(kind, 0, -1)
RowLine(i) == Token("row", 0, i)
Fill(kind, n) == [i \in 1..n |-> Line(kind)]

\* footerView: an input prompt or a status message stands above the help.
FooterView(prompt) == (IF prompt THEN <<Line("prompt")>> ELSE <<>>) \o <<Line("help")>>

\* frame: the footer is pinned below title and body.
Frame(h, body, footer) ==
    LET content == <<Line("title"), Line("blank")>> \o body
    IN  content \o Fill("blank", AtLeast(h - Len(content) - Len(footer), 1)) \o footer

\* scrollNote, snapTableScrollNote; only the snapshot table may have no room for it.
ScrollNote(start, end, total, room) == IF room /\ (start > 0 \/ end < total) THEN <<Line("note")>> ELSE <<>>

\* browseTableList; an empty table may say so.
TableLines(total, cursor, visible, emptyNote, room) ==
    LET w == ScrollWindow(ClampCursor(cursor, total), total, visible)
    IN  IF total = 0 THEN <<Line("header")>> \o (IF emptyNote THEN <<Line("note")>> ELSE <<>>)
        ELSE <<Line("header")>> \o [i \in 1..(w.end - w.start) |-> RowLine(w.start + i - 1)]
             \o ScrollNote(w.start, w.end, total, room)

\* The note under a grouped list names rows, not lines; where no row but the
\* selected one is shown it stands for itself.
GroupedNote(lines, total, room) ==
    LET data == {lines[i].data : i \in {j \in DOMAIN lines : lines[j].kind = "row"}}
    IN  ScrollNote(CHOOSE d \in data : \A e \in data : d <= e, 1 + CHOOSE d \in data : \A e \in data : e <= d, total, room)

TotalRows(lens) == RowsBefore(lens, Len(lens) + 1)

\* renderGroupedList with its header.
GroupedTable(lens, cursor, rows, room) ==
    LET lines == GroupedLines(lens, ClampCursor(cursor, TotalRows(lens)), rows)
    IN  <<Line("header")>> \o lines \o GroupedNote(lines, TotalRows(lens), room)

\* A list that has room for one line breaks it before the note, also where there is none.
LineBreak(lens, rows) ==
    IF rows = 1 /\ Len(GroupTokens(lens)) > 1 /\ TotalRows(lens) = 1 THEN <<Line("blank")>> ELSE <<>>

-----------------------------------------------------------------------------
(* The screens.  s is [h, prompt, lens, grouped, cursor, panel, waits]:    *)
(* lens the rows in each section, panel the lines about a snapshot, waits  *)
(* a view that has no table yet.                                           *)

Footer(s) == Len(FooterView(s.prompt))

ListBody(s) ==
    IF TotalRows(s.lens) = 0 THEN <<Line("note")>>
    ELSE IF s.grouped
    THEN GroupedTable(s.lens, s.cursor, TableVisible(s.h, Footer(s), 0), TRUE) \o LineBreak(s.lens, TableVisible(s.h, Footer(s), 0))
    ELSE TableLines(TotalRows(s.lens), s.cursor, TableVisible(s.h, Footer(s), 0), TRUE, TRUE)

BrowseBody(s) ==
    IF s.waits THEN Fill("meta", 2)
    ELSE Fill("meta", 2) \o TableLines(TotalRows(s.lens), s.cursor, TableVisible(s.h, Footer(s), 2), ~s.prompt, TRUE)

FindBody(s) ==
    Fill("meta", 2) \o
    (IF s.waits THEN <<Line("header")>>
     ELSE TableLines(TotalRows(s.lens), s.cursor, TableVisible(s.h, Footer(s), 2), FALSE, TRUE))

DiffBody(s) ==
    IF s.waits THEN Fill("meta", 2)
    ELSE Fill("meta", 2) \o TableLines(TotalRows(s.lens), s.cursor, TableVisible(s.h, Footer(s), 2), ~s.prompt, TRUE)

SnapPanel(s) == IF TotalRows(s.lens) = 0 THEN 0 ELSE s.panel

\* snapshotTable; its note gives way before a row does.
SnapTable(s) ==
    LET total == TotalRows(s.lens)
        visible == DetailVisible(s.h, Footer(s), SnapPanel(s))
        room == NoteShown(s.h, Footer(s), SnapPanel(s))
    IN  IF total = 0 THEN <<Line("header"), Line("empty")>>
        ELSE IF s.grouped THEN GroupedTable(s.lens, s.cursor, visible, room)
        ELSE TableLines(total, s.cursor, visible, TRUE, room)

DetailMeta == Fill("meta", 7)

DetailBody(s) ==
    LET panel == PanelRows(s.h, Footer(s), SnapPanel(s))
    IN  DetailMeta \o <<Line("blank"), Line("heading")>> \o SnapTable(s)
        \o (IF panel > 0 THEN <<Line("blank")>> \o Fill("panel", panel) ELSE <<>>)

\* A page: info, help, and the diff's inspector.
PageBody(s) ==
    LET total == TotalRows(s.lens)
        visible == ModalVisible(s.h, Footer(s))
        w == ModalWindow(s.cursor, total, visible)
    IN  [i \in 1..(w.end - w.start) |-> RowLine(w.start + i - 1)]
        \o (IF total > visible /\ visible > 1 THEN <<Line("note")>> ELSE <<>>)

\* modalOverflows counts the footer itself: whether the help offers scrolling.
PageOverflows(s) == TotalRows(s.lens) > AtLeast(s.h - 3 - (IF s.prompt THEN 2 ELSE 1), 1)

Body(screen, s) ==
    CASE screen = "list" -> ListBody(s)
      [] screen = "browse" -> BrowseBody(s)
      [] screen = "find" -> FindBody(s)
      [] screen = "diff" -> DiffBody(s)
      [] screen = "detail" -> DetailBody(s)
      [] screen = "page" -> PageBody(s)

\* The lines below which a screen cannot be complete.
LeastHeight(screen, s) ==
    Chrome(Footer(s)) +
    (CASE screen = "list" -> 3 [] screen = "detail" -> 11 [] screen = "page" -> 1 [] OTHER -> 5)

-----------------------------------------------------------------------------
\* What the lines of screen s amount to.
Complete(screen, s, lines) ==
    LET rows == {l.data : l \in {k \in Range(lines) : k.kind = "row"}}
        total == TotalRows(s.lens)
        table == ~(s.waits /\ screen \in {"browse", "find", "diff"})
    IN  /\ s.h >= LeastHeight(screen, s) => Len(lines) = s.h
        /\ (table /\ screen # "page" /\ total > 0) => ClampCursor(s.cursor, total) \in rows
        /\ (table /\ screen \notin {"page", "detail"}) => (Line("note") \in Range(lines) \/ rows = 0..(total - 1))
        /\ screen = "page" => (PageOverflows(s) <=> rows # 0..(total - 1))

\* A screen fills the terminal to the line: the title never scrolls off and the
\* footer is not pushed out, whatever is optional in between; the selected row is
\* on it, and where rows are missing something says so (frame and the budgets of
\* layout.go, browseVisible, findVisible, diffVisible, detailSnapVisible).
ScreenFits(screen, s) == \A lines \in {Frame(s.h, Body(screen, s), FooterView(s.prompt))} : Complete(screen, s, lines)
===============================================================================
