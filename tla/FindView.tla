------------------------------- MODULE FindView -------------------------------
(***************************************************************************)
(* The versions of one file (internal/tui/findversions.go on               *)
(* app/find.go): one command at a time, narrowed to the host of the        *)
(* snapshot the view was opened from or widened to all.  Rows are recorded *)
(* as the [path, host, all] restic was asked for.  How matches become rows *)
(* is module Versions.                                                     *)
(***************************************************************************)
EXTENDS BrowseView

VARIABLE find

FindInit ==
    find = [path |-> <<>>, host |-> 0, all |-> FALSE, resultHost |-> 0, resultAll |-> FALSE,
            rows |-> NoRows, err |-> "", gen |-> 0, cancel |-> 0]

FindLoading == find.cancel # 0

Have(s) == find' = s.find /\ flight' = s.commands
FindNow == [find |-> find, commands |-> flight]

\* supersedeFind.
SupersedeFind(s) ==
    [find |-> [s.find EXCEPT !.gen = @ + 1, !.cancel = 0], commands |-> Cancelled(s.commands, {"find"}, s.find.cancel)]

\* dispatchFind.
DispatchFind(s) ==
    [find |-> [s.find EXCEPT !.cancel = s.find.gen, !.err = ""],
     commands |-> s.commands \cup
         {Command("find", s.find.gen, [path |-> s.find.path, host |-> s.find.host, all |-> s.find.all])}]

\* clearFindVersions.
ClearFind(s) ==
    [s EXCEPT !.find = [@ EXCEPT !.path = <<>>, !.host = 0, !.all = FALSE, !.resultHost = 0, !.resultAll = FALSE,
                                 !.rows = NoRows, !.err = "", !.cancel = 0]]

\* openBrowseVersions on a regular file of the rows; the host is the live row's,
\* 0 when a refresh has taken the snapshot away.
StartFind ==
    /\ Idle /\ browse.rows # NoRows /\ Press("find") /\ view' = "find"
    /\ LET fresh == ClearFind(SupersedeFind(FindNow))
           origins == {s \in detail.snaps : s.id = browse.snap}
           host == IF origins = {} THEN 0 ELSE (CHOOSE s \in origins : TRUE).host
       IN  Have(DispatchFind([fresh EXCEPT !.find = [@ EXCEPT !.host = host, !.path = browse.rows.dir]]))
    /\ UNCHANGED <<prevView, extractReturn, quitting, detail, browse>>

\* HostToggle works while a search is under way, too.
HostToggle ==
    /\ view = "find" /\ Press("find")
    /\ Have(DispatchFind(SupersedeFind([FindNow EXCEPT !.find.all = ~@])))
    /\ Stay /\ UNCHANGED <<detail, browse>>

\* findVersionsBack.
FindBack ==
    /\ ~quitting /\ view = "find" /\ view' = "browse"
    /\ Have(ClearFind(SupersedeFind(FindNow)))
    /\ UNCHANGED <<prevView, extractReturn, quitting, budget, detail, browse>>

\* FindFileVersions: an unknown host is an error unless all are asked for; restic may fail.
Outcomes(ask) == {NoRows} \cup IF ask.all \/ ask.host # 0 THEN {ask} ELSE {}

\* applyFindVersionsMsg, with cancelFind.
FindAnswer(f) ==
    /\ Message(f, {"find"})
    /\ IF f.gen # find.gen THEN flight' = flight \ {f} /\ UNCHANGED find
       ELSE \E rows \in Outcomes(f.ask) :
               LET ok == rows # NoRows
               IN  /\ flight' = Cancelled(flight \ {f}, {"find"}, find.cancel)
                   /\ find' = [find EXCEPT !.cancel = 0, !.rows = rows, !.err = IF ok THEN "" ELSE "failed",
                                           !.resultHost = IF ok /\ ~rows.all THEN rows.host ELSE 0,
                                           !.resultAll = ok /\ rows.all]
    /\ UNCHANGED <<view, detail, browse>>

FindKeys == StartFind \/ HostToggle \/ FindBack

-----------------------------------------------------------------------------
\* The rows are the versions of the file the view was opened on, under the host
\* label of the very answer they came with, and once nothing is under way they
\* answer the latest toggle: a narrowed search never widens by itself
\* (findversions.go, app/find.go).
FindAnswersQuestion ==
    /\ find.rows # NoRows =>
         /\ find.rows.path = find.path /\ find.rows.all = find.resultAll
         /\ find.resultHost = (IF find.rows.all THEN 0 ELSE find.rows.host)
         /\ find.rows.all \/ (find.rows.host = find.host /\ find.host # 0)
         /\ ~FindLoading => find.rows.all = find.all
    /\ ~FindLoading /\ InFront = "find" => find.rows # NoRows \/ find.err # ""
    /\ view \in {"list", "detail", "browse"} => find.rows = NoRows /\ find.path = <<>>
===============================================================================
