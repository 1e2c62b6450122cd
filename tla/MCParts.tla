------------------------------- MODULE MCParts --------------------------------
(***************************************************************************)
(* Small instances of the screens and of what lies behind them: the list,  *)
(* session directories, the index transaction, one restic call, shells,    *)
(* and the pure algorithms on bounded inputs.  They share no state; part   *)
(* says which of them a behaviour is about, and the others stand still.    *)
(***************************************************************************)
EXTENDS Selection, SessionDirs, IndexTx, ResticRun, Shells, RepoStatus, Versions, Ranking, DiffModel, Screens,
        Inspect, RestoreArgs, Prune

VARIABLES part,  \* "views", "list", "sessions", "index", "restic", "shells" or "algorithms"
          input  \* what an algorithm was given, or NoInput

behindVars == <<sessionVars, indexVars, resticVars, shellVars>>
vars == <<part, input, viewsVars, list, behindVars>>
NoInput == [algorithm |-> "none"]

-----------------------------------------------------------------------------
Node(path, type, size) == [path |-> path, type |-> type, size |-> size]

\* A tree with an empty and two nested directories and a link, and a second
\* snapshot whose directory "a" has no record of its own.
MCTree ==
    [s1 |-> {Node(<<>>, "dir", 0), Node(<<"a">>, "dir", 4), Node(<<"a", "a">>, "file", 1),
             Node(<<"a", "b">>, "dir", 4), Node(<<"a", "b", "a">>, "dir", 4), Node(<<"a", "b", "a", "b">>, "file", 2),
             Node(<<"b">>, "symlink", 0)},
     s2 |-> {Node(<<"a", "a">>, "file", 3), Node(<<"b">>, "dir", 4)}]

\* Lines of a diff: a directory with a child, and a file; a path may come twice.
DiffPaths == {<<"a">>, <<"a", "b">>, <<"c">>}
Change(p, kinds) == [path |-> p, kinds |-> kinds, isDir |-> p = <<"a">>]
Changes == {Change(p, k) : p \in DiffPaths, k \in {{"+"}, {"-"}, {"M"}, {"T", "?"}}}

DiffInputs ==
    [algorithm : {"diff"}, entries : SeqOf(Changes, 3), root : {DiffRoot, <<"a">>},
     filter : {Kinds, {"+"}, {"M", "-"}}]

\* Matches of the file f in three snapshots of which one is not in the cache,
\* among them a foreign path and a directory.
Match(path, type, mtime) == [path |-> path, type |-> type, size |-> 1, mtime |-> mtime]
MatchLists == {<<>>, <<Match("f", "file", 1)>>, <<Match("f", "", 2)>>, <<Match("f", "dir", 1)>>,
               <<Match("g", "file", 1), Match("f", "file", 2)>>}
Orders == {<<"s", "t", "u">>, <<"u", "t", "s">>, <<"t", "s", "u">>}

VersionInputs ==
    [algorithm : {"versions"},
     results : UNION {{[i \in 1..3 |-> [snapshot |-> o[i], matches |-> ms[i]]] : ms \in [1..3 -> MatchLists]}
                        : o \in Orders},
     snapTime : {[s |-> 5, t |-> 6], [s |-> 6, t |-> 6]}]

Char(letter, isUpper) == [letter |-> letter, isUpper |-> isUpper, sep |-> letter = "."]
Chars == {Char("a", FALSE), Char("a", TRUE), Char("b", FALSE), Char(".", FALSE), Char(" ", FALSE)}
FileNames == SeqOf(Chars, 3) \ {<<>>}

\* A name at a time against every query, and lists of three names in which
\* several rank alike.
SearchNames == {<<Char("a", FALSE)>>, <<Char("b", FALSE), Char("a", FALSE)>>, <<Char("a", FALSE), Char("b", FALSE)>>}
SearchInputs ==
    [algorithm : {"search"}, names : {<<n>> : n \in FileNames} \cup [1..3 -> SearchNames],
     query : {<<Char("a", FALSE)>>, <<Char("a", TRUE), Char("b", FALSE)>>, <<Char("a", FALSE), Char("a", FALSE)>>,
              <<Char(" ", FALSE)>>, <<Char("a", FALSE), Char(" ", FALSE)>>},
     limit : 1..2]
Entries(names) == [i \in DOMAIN names |-> [name |-> names[i], path |-> Len(names) - i]]

Thresholds == [expectedFrequency : {1, 2}, staleGrace : {0, 1}, lockMaxAge : {0, 2}]
RepoStates == [lastError : BOOLEAN, refreshedAt : {None, 1}, lockedSince : {None, 0}, lastSnapshot : {None, 0, 1}]
StatusInputs == [algorithm : {"status"}, now : 1..4, later : 1..5, thresholds : Thresholds, staleAfter : {0, 1},
                 state : RepoStates]

\* Lists and pages of up to six lines, up to three sections, and screens of all
\* heights around those at which something optional comes or goes.
Sections == {<<>>, <<1>>, <<2, 1>>, <<3, 3, 2>>}
ScreenInputs ==
    [algorithm : {"window"}, at : 0..6, total : 0..6, visible : 0..5]
    \cup [algorithm : {"groups"}, lens : SeqOf(1..2, 3) \ {<<>>}, cursor : 0..5, rows : 1..9]
    \cup [algorithm : {"screen"}, screen : {"list", "detail"}, h : 1..25, prompt : BOOLEAN, lens : Sections,
           grouped : BOOLEAN, cursor : {0, 1, 4, 7}, panel : {0, 4}, waits : {FALSE}]
    \cup [algorithm : {"screen"}, screen : {"browse", "find", "diff", "page"}, h : 1..15, prompt : BOOLEAN,
           lens : Sections, grouped : {FALSE}, cursor : {0, 1, 4, 7}, panel : {0}, waits : BOOLEAN]

\* Records of three types, and those that differ in one field or in two.
Record(type) ==
    [type |-> type, mode |-> 1, owner |-> <<"", 1>>, group |-> <<"g", 1>>, mtime |-> 2, atime |-> 2, ctime |-> 2,
     inode |-> 1, deviceID |-> 0, size |-> IF type = "file" THEN 2 ELSE 0, links |-> 1,
     linkTarget |-> IF type = "symlink" THEN "t" ELSE "", device |-> 0,
     xattrs |-> <<<<"x", 1>>, <<"y", 1>>>>, generic |-> [g \in {"g"} |-> 1],
     content |-> IF type = "file" THEN <<"c">> ELSE NilContent, subtree |-> IF type = "dir" THEN "s" ELSE "", error |-> ""]

Variants(n) ==
    {[n EXCEPT !.mode = 2], [n EXCEPT !.owner = <<"u", 1>>], [n EXCEPT !.group = <<"g", 2>>],
     [n EXCEPT !.mtime = 3], [n EXCEPT !.mtime = 0], [n EXCEPT !.atime = 3], [n EXCEPT !.ctime = 3], [n EXCEPT !.inode = 0],
     [n EXCEPT !.deviceID = 1], [n EXCEPT !.links = 2], [n EXCEPT !.device = 1], [n EXCEPT !.error = "e"],
     [n EXCEPT !.generic = [g \in {"g"} |-> 2]], [n EXCEPT !.generic = [g \in {"h"} |-> 1]],
     [n EXCEPT !.xattrs = <<<<"y", 1>>, <<"x", 1>>>>], [n EXCEPT !.xattrs = <<<<"x", 2>>, <<"y", 1>>>>],
     [n EXCEPT !.xattrs = <<<<"x", 1>>>>], [n EXCEPT !.xattrs = <<>>]}
    \cup (IF n.type = "file" THEN {[n EXCEPT !.size = 3], [n EXCEPT !.content = <<>>]} ELSE {})
    \cup (IF n.type = "dir" THEN {[n EXCEPT !.subtree = "t"]} ELSE {})
    \cup (IF n.type = "symlink" THEN {[n EXCEPT !.linkTarget = "u"]} ELSE {})

Types == {"file", "dir", "symlink"}
InspectInputs ==
    [algorithm : {"inspect"}, row : [isDir : BOOLEAN, kinds : {{"M"}, {"U"}, {"U", "?"}, {"+"}, {"-"}}],
     answer : UNION {[first : {Record(t)}, second : UNION {Variants(n) : n \in Variants(Record(t))}] : t \in Types}
              \cup [first : {Record(t) : t \in Types} \cup {Missing, Failed}, second : {Record(t) : t \in Types} \cup {Missing, Failed}]]

\* Three rows of a directory: two whose names differ in case, and a third.
DirRow(isDir, size, mtime, name, path) == [isDir |-> isDir, size |-> size, mtime |-> mtime, name |-> name, path |-> path]
BrowseRows(name) == {DirRow(d, z, t, name, 10 * name[1] + name[2]) : d \in BOOLEAN, z \in 1..2, t \in 0..2}
OrderInputs == [algorithm : {"order"}, mode : {"name", "size", "modified"},
                rows : {{a, b, c} : a \in BrowseRows(<<1, 1>>), b \in BrowseRows(<<1, 2>>), c \in BrowseRows(<<2, 0>>)}]

\* Paths of two characters, alone, in pairs and three at once.
PathChars == {"a", "*", "\\", "$", "\n", " "}
IncludePaths == {<<"/">> \o p : p \in SeqOf(PathChars, 2) \ {<<>>}}
IncludeInputs == [algorithm : {"includes"}, includes : {<<p>> : p \in IncludePaths} \cup (IncludePaths \X IncludePaths)
                     \cup {<<>>} \cup {<<p, q, <<"/", "a">>>> : p, q \in {<<"/", "*">>, <<"/", " ">>}}, maxBytes : {20, 100}]

\* Three entries of the cache root and two repositories, which may share a cache.
CacheDirs == {[i \in 1..3 |-> [name |-> <<"a", "b", "c">>[i], isDir |-> d[i], size |-> 2 ^ i]] : d \in [1..3 -> BOOLEAN]}
PruneInputs == [algorithm : {"prune"}, entries : {<<>>} \cup CacheDirs,
               repos : SUBSET {"r", "s"}, all : BOOLEAN, cacheName : [{"r", "s"} -> {"a", "b"}],
               trouble : [at : 1..3, what : {"canceled", "unreadable", "not removed"}]]

Inherited == {"PATH", "HOME", "AWS_PROFILE", "RESTIC_PASSWORD", "RESTICSCOPE_SNAPSHOT_ID"}
Configured == {"PATH", "HOME", "AWS_ACCESS_KEY_ID", "RESTIC_PASSWORD_COMMAND", "RESTICSCOPE_REPO"}
EnvInputs ==
    [algorithm : {"environment"}, base : SUBSET Inherited, configured : SUBSET Configured,
     mode : {"file", "env"}, snap : BOOLEAN]

-----------------------------------------------------------------------------
\* Three repositories, two with the site label, and queries that find one or two.
Repo(name, site, found) == [name |-> name, labels |-> [site |-> site], found |-> found]
MCRepos == <<Repo(2, 1, {<<"a">>}), Repo(1, 0, {<<"a">>, <<"b">>, <<"a", "b">>}), Repo(2, 1, {<<"b">>})>>
MCGroupBy == <<"site">>

\* Three backups of one source with equal contents, and between them one of
\* another that has them too; a refresh may miss the newest and the oldest.
Snap(id, from, tags) == [id |-> id, time |-> (id + 1) \div 2, tree |-> 1, host |-> from, tags |-> tags, paths |-> 1]
MCSnaps == {Snap(1, 1, 1), Snap(2, 1, 1), Snap(3, 0, 2), Snap(4, 1, 1)}
MCRefreshed == {MCSnaps, {Snap(2, 1, 1), Snap(3, 0, 2)}, {}}

MCSnapDirs == {<<>>, <<"a">>}
MCDiffDirs == (FALSE :> {<<"a">>}) @@ (TRUE :> {<<"a">>, <<"a", "b">>})

Keys(forBrowse, forFind, forDiff, forDetail, forHelp) ==
    [browse |-> forBrowse, find |-> forFind, diff |-> forDiff, detail |-> forDetail, help |-> forHelp]
NoKeys == Keys(0, 0, 0, 0, 0)
MCBudgets == {Keys(6, 0, 0, 0, 0), Keys(4, 2, 0, 0, 0), Keys(2, 1, 0, 0, 1), Keys(0, 0, 4, 2, 0),
              Keys(0, 0, 2, 2, 1), Keys(0, 0, 1, 7, 0), Keys(1, 0, 1, 3, 0), NoKeys}

\* Elsewhere than in detail one list of snapshots is enough.
ViewsStart == ViewsInit /\ (budget.detail > 3 \/ detail.snaps = MCSnaps)

Init ==
    /\ part \in {"views", "list", "sessions", "index", "restic", "shells", "algorithms"}
    /\ ViewsStart /\ (part = "views" \/ budget = NoKeys)
    /\ input = NoInput /\ IndexInit /\ ListInit
    /\ SessionInit /\ (part = "sessions" \/ ~supported)
    /\ ResticInit /\ <<toErr, toFd4>> \in {<<0, 0>>, <<2, 0>>, <<0, 2>>}
    /\ part = "restic" \/ (op = "ls" /\ ~stuck /\ toErr = 0 /\ toFd4 = 0)
    /\ ShellsInit
    /\ part = "shells" \/ (host.program = "tui" /\ \A s \in Shells : session[s] = CHOOSE c \in SessionConfig : TRUE)

Screens == part = "views" /\ ViewsNext /\ UNCHANGED <<part, input, list, behindVars>>
TheList == part = "list" /\ ListNext /\ UNCHANGED <<part, input, viewsVars, behindVars>>
Sessions == part = "sessions" /\ SessionNext /\ UNCHANGED <<part, input, viewsVars, list, indexVars, resticVars, shellVars>>
Index == part = "index" /\ IndexNext /\ UNCHANGED <<part, input, viewsVars, list, sessionVars, resticVars, shellVars>>
ResticCall == part = "restic" /\ ResticNext /\ UNCHANGED <<part, input, viewsVars, list, sessionVars, indexVars, shellVars>>
ShellSessions == part = "shells" /\ ShellsNext /\ UNCHANGED <<part, input, viewsVars, list, sessionVars, indexVars, resticVars>>

\* An algorithm gets one of its inputs.
Ask ==
    /\ part = "algorithms" /\ input = NoInput
    /\ \/ input' \in DiffInputs \/ input' \in VersionInputs \/ input' \in SearchInputs
       \/ input' \in StatusInputs \/ input' \in ScreenInputs \/ input' \in EnvInputs
       \/ input' \in InspectInputs \/ input' \in OrderInputs \/ input' \in IncludeInputs \/ input' \in PruneInputs
    /\ UNCHANGED <<part, viewsVars, list, behindVars>>

Next == Screens \/ TheList \/ Sessions \/ Index \/ ResticCall \/ ShellSessions \/ Ask

Spec == Init /\ [][Next]_vars /\ ViewsFairness /\ (part = "restic" => ResticFairness)

-----------------------------------------------------------------------------
TypeOK == NavTypeOK /\ DetailTypeOK /\ SessionTypeOK /\ IndexTypeOK /\ ResticTypeOK /\ ShellsTypeOK
          /\ (part = "list" => ListTypeOK)

\* The algorithms agree with their definitions by sets on every bounded input
\* (internal/model: diff.go, find.go, fuzzy.go, status.go; browsedb/queries.go;
\* tui/arrange.go),
\* windows show what they must (tui: layout.go, group.go, detail.go), a shell's
\* environment is one repository's (app/shell.go), records are compared as restic
\* does (snapshotdiffinfoview.go), restic is told the selected paths
\* (extract_tree.go), pruning spares what is in use (prune.go), and the list has
\* its matches (list.go).
AlgorithmsAgree ==
    /\ input.algorithm = "diff" =>
         TreeIsExact(input.entries) /\ IncludesAreExact(input.entries, input.root, input.filter)
    /\ input.algorithm = "versions" => VersionsAreExact(input.results, "f", input.snapTime)
    /\ input.algorithm = "search" => SearchIsExact(Entries(input.names), input.query, input.limit)
    /\ input.algorithm = "status" =>
         WaitingNeverHelps(input.now, input.later, input.thresholds, input.staleAfter, input.state)
    /\ input.algorithm = "window" =>
         /\ input.at < input.total => CursorShown(input.at, input.total, input.visible)
         /\ input.visible > 0 => PageShown(input.at, input.total, input.visible)
    /\ (input.algorithm = "groups" /\ input.cursor < RowsBefore(input.lens, Len(input.lens) + 1)) =>
         GroupsShown(input.lens, input.cursor, input.rows)
    /\ input.algorithm = "screen" => ScreenFits(input.screen, input)
    /\ input.algorithm = "environment" => EnvIsScoped(input.base, input.configured, input.mode, input.snap)
    /\ input.algorithm = "inspect" => InspectIsTrue(input.row, input.answer)
    /\ input.algorithm = "order" => BrowseOrderIsTotal(input.rows, input.mode)
    /\ input.algorithm = "includes" => IncludesArrive(input.includes, input.maxBytes)
    /\ input.algorithm = "prune" => PruneIsExact(input.entries, input.repos, input.cacheName, input.all, input.trouble)
    /\ part = "list" => ListShowsMatches

\* A streamed call of restic comes to its end (exec.go, runStreamFDs).
CallReturns == part = "restic" => CallEnds
===============================================================================
