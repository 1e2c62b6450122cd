-------------------------------- MODULE Windows --------------------------------
(***************************************************************************)
(* Which lines of a list or of a page are on the screen (internal/tui:     *)
(* layout.go, group.go, detail.go).  Positions count from 0 and a window   *)
(* is the half-open interval from start to end, as in the code.            *)
(***************************************************************************)
EXTENDS Integers, SequencesExt

AtLeast(n, low) == IF n < low THEN low ELSE n
AtMost(n, high) == IF n > high THEN high ELSE n
Window(start, end) == [start |-> start, end |-> end]

-----------------------------------------------------------------------------
(* Heights.  h is the terminal's, footer the rows of the footer; title and *)
(* the blank lines below it and above the footer take three.               *)

Chrome(footer) == 3 + footer
ModalVisible(h, footer) == AtLeast(h - Chrome(footer), 1)

\* visibleRepos, browseVisible, findVisible, diffVisible: meta rows above the
\* table (none in the list), then its header and the scroll note.
TableVisible(h, footer, meta) == AtLeast(h - Chrome(footer) - meta - 2, 1)

\* detailOverhead: metadata, a blank, two headings, and what is optional.
DetailOverhead(footer, panelRows, note) ==
    Chrome(footer) + 7 + 3 + (IF note THEN 1 ELSE 0) + (IF panelRows > 0 THEN 1 + panelRows ELSE 0)

\* detailSnapDetailVisible; the panel about the selected snapshot has panelRows.
PanelShown(h, footer, panelRows) == h >= DetailOverhead(footer, panelRows, FALSE) + 1
PanelRows(h, footer, panelRows) == IF PanelShown(h, footer, panelRows) THEN panelRows ELSE 0
NoteShown(h, footer, panelRows) == h >= DetailOverhead(footer, PanelRows(h, footer, panelRows), TRUE) + 1
DetailVisible(h, footer, panelRows) ==
    LET overhead == DetailOverhead(footer, PanelRows(h, footer, panelRows), NoteShown(h, footer, panelRows))
    IN  AtLeast(h - overhead, 1)

-----------------------------------------------------------------------------
(* Flat lists and pages. *)

ClampCursor(i, total) == AtLeast(AtMost(i, total - 1), 0)

ScrollWindow(cursor, total, visible) ==
    LET rows == AtLeast(visible, 1)
        centered == AtLeast(cursor - rows \div 2, 0)
    IN  IF total <= rows THEN Window(0, total)
        ELSE IF centered + rows > total THEN Window(total - rows, total)
        ELSE Window(centered, centered + rows)

ClampModalScroll(scroll, total, bodyRows) == AtLeast(AtMost(scroll, AtLeast(total - bodyRows, 0)), 0)

\* The lines of a page that are shown; an overflowing one gives its last row to
\* a hint, unless it has one row only.
BodyRows(total, visible) == IF total > visible /\ visible > 1 THEN visible - 1 ELSE visible
ModalWindow(scroll, total, visible) ==
    LET start == ClampModalScroll(scroll, total, BodyRows(total, visible))
    IN  IF total <= visible THEN Window(0, total)
        ELSE Window(start, AtMost(start + BodyRows(total, visible), total))

ModalScrollBy(scroll, delta, total, visible) ==
    IF total <= visible THEN 0 ELSE ClampModalScroll(scroll + delta, total, AtLeast(visible - 1, 1))

-----------------------------------------------------------------------------
(* Lists in sections; lens are the sections' numbers of rows.              *)

Token(kind, section, data) == [kind |-> kind, section |-> section, data |-> data]

RowsBefore(lens, s) == FoldLeft(LAMBDA sum, n : sum + n, 0, SubSeq(lens, 1, s - 1))

\* buildGroupTokens, buildSnapTokens: a blank line between sections, a heading,
\* and the rows, numbered through.
SectionTokens(lens, s) ==
    (IF s > 1 THEN <<Token("blank", s, -1)>> ELSE <<>>) \o <<Token("heading", s, -1)>>
    \o [r \in 1..lens[s] |-> Token("row", s, RowsBefore(lens, s) + r - 1)]
GroupTokens(lens) == FlattenSeq([s \in DOMAIN lens |-> SectionTokens(lens, s)])

\* groupedWindow: the heading stays at the top, or is put there.
GroupedWindow(cursorPos, hPos, rows, n) ==
    LET tail == AtLeast(cursorPos - (rows - 1) \div 2, hPos + 1)
    IN  IF cursorPos < hPos + rows
        THEN [start |-> hPos, end |-> AtMost(hPos + rows, n), prependHeading |-> FALSE]
        ELSE [start |-> tail, end |-> AtMost(tail + rows - 1, n), prependHeading |-> TRUE]

\* renderGroupedList, snapshotTableGrouped: the lines shown in rows rows.
GroupedLines(lens, cursor, rows) ==
    LET tokens == GroupTokens(lens)
        cursorPos == SelectInSeq(tokens, LAMBDA t : t.kind = "row" /\ t.data = cursor) - 1
        hPos == SelectInSeq(tokens, LAMBDA t : t.kind = "heading" /\ t.section = tokens[cursorPos + 1].section) - 1
        w == GroupedWindow(cursorPos, hPos, rows, Len(tokens))
    IN  IF rows >= Len(tokens) THEN tokens
        ELSE IF rows = 1 THEN <<tokens[cursorPos + 1]>>
        ELSE (IF w.prependHeading THEN <<tokens[hPos + 1]>> ELSE <<>>) \o SubSeq(tokens, w.start + 1, w.end)

-----------------------------------------------------------------------------
\* A list window has the selected row in it, is within the list, and as full as
\* the list and the space allow (scrollWindow).
CursorShown(cursor, total, visible) ==
    LET w == ScrollWindow(cursor, total, visible)
    IN  /\ 0 <= w.start /\ w.start <= cursor /\ cursor < w.end /\ w.end <= total
        /\ w.end - w.start = AtMost(total, AtLeast(visible, 1))

\* A page shows as many lines as fit next to its hint, and from a position the
\* scroll keys have left each press moves it by one line or is at the end
\* (modalWindow, modalScrollBy).
PageShown(scroll, total, visible) ==
    LET at == ModalScrollBy(scroll, 0, total, visible)
        shown(s) == ModalWindow(s, total, visible)
        down == ModalScrollBy(at, 1, total, visible)
    IN  /\ 0 <= shown(at).start /\ shown(at).end <= total
        /\ shown(at).end - shown(at).start = AtMost(total, BodyRows(total, visible))
        /\ shown(down).start = shown(at).start + (IF shown(at).end < total THEN 1 ELSE 0)

\* A grouped list fits, has the selected row, and once it has two lines every
\* row in it stands under its own section's heading (groupedWindow).
GroupsShown(lens, cursor, rows) ==
    LET shown == GroupedLines(lens, cursor, rows)
        above(i) == {j \in 1..i : shown[j].kind = "heading"}
    IN  /\ Len(shown) <= rows
        /\ \E i \in DOMAIN shown : shown[i].kind = "row" /\ shown[i].data = cursor
        /\ \A i, j \in DOMAIN shown : i < j /\ {shown[i].kind, shown[j].kind} = {"row"} => shown[i].data < shown[j].data
        /\ rows > 1 => \A i \in DOMAIN shown : shown[i].kind = "row" =>
               \E j \in above(i) : shown[j].section = shown[i].section /\ \A k \in above(i) : k <= j
===============================================================================
