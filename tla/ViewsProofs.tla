------------------------------ MODULE ViewsProofs ------------------------------
(***************************************************************************)
(* Proofs about Views, for any snapshots, directories, queries and number  *)
(* of keys pressed: every screen shows the answer to the question its      *)
(* labels ask, and no command works for a screen that was left.            *)
(***************************************************************************)
EXTENDS Views, TLAPS, WellFoundedInduction

ViewsSpec == ViewsInit /\ [][ViewsNext]_viewsVars

\* The view under the help overlay and the extract modal.
Base == IF InFront = "extract" THEN extractReturn ELSE InFront

NavInv ==
    /\ view \in Views /\ prevView \in Views \ {"help"} /\ extractReturn \in Views \ {"help", "extract"}
    /\ quitting \in BOOLEAN
    /\ InFront = "extract" => extractReturn \in {"detail", "browse", "find", "diff"}

-----------------------------------------------------------------------------
(* Commands.  A controller's commands are told apart by their generation,  *)
(* and only the one it holds the cancel function of may have an open       *)
(* context.                                                                *)

IsCommand(f) ==
    f \in [what : BrowseKinds \cup {"find", "diff", "info"}, gen : Nat \ {0}, ask : {f.ask}, live : BOOLEAN]

Of(C, kinds) == {f \in C : f.what \in kinds}

Group(C, kinds, gen, handle) ==
    /\ gen \in Nat /\ handle \in {0, gen}
    /\ \A f \in Of(C, kinds) : f.gen <= gen /\ (f.live => f.gen = handle)
    /\ \A f, g \in Of(C, kinds) : f.gen = g.gen => f = g

FlightInv ==
    /\ \A f \in flight : IsCommand(f) /\ (f.live => ~quitting)
    /\ Group(flight, BrowseKinds, browse.gen, browse.cancel)
    /\ Group(flight, {"find"}, find.gen, find.cancel)
    /\ Group(flight, {"diff"}, diff.gen, diff.cancel)
    /\ Group(flight, {"info"}, diff.infoGen, diff.infoCancel)

\* The answer a controller has not heard yet and will not drop.
Current(f, kinds, gen) == f.what \in kinds /\ f.gen = gen

-----------------------------------------------------------------------------
BrowseFields == {"snap", "dir", "rows", "cache", "indexed", "loading", "gen", "cancel",
                 "searching", "suspended", "query", "shown", "found"}

BrowseAwaits(f) ==
    /\ InFront = "browse" /\ f.ask.snap = browse.snap
    /\ f.what = "search" => browse.searching /\ browse.indexed /\ f.ask = [snap |-> browse.snap, query |-> browse.query]
    /\ f.what # "search" => browse.loading /\ ~browse.searching
    /\ f.what = "index" => ~browse.suspended
    /\ f.what = "dir" => browse.indexed

BrowseInv ==
    /\ browse = [x \in BrowseFields |-> browse[x]]
    /\ browse.searching \in BOOLEAN /\ browse.suspended \in BOOLEAN /\ browse.loading \in BOOLEAN /\ browse.indexed \in BOOLEAN
    /\ BrowseAnswersQuestion
    /\ browse.dir # <<>> \/ DOMAIN browse.cache # {} => browse.indexed
    /\ Base \notin {"browse", "find"} =>
         browse.rows = NoRows /\ browse.found = NoRows /\ DOMAIN browse.cache = {} /\ ~browse.searching /\ ~browse.suspended
    /\ \A f \in flight : Current(f, BrowseKinds, browse.gen) => BrowseAwaits(f)

FindFields == {"path", "host", "all", "resultHost", "resultAll", "rows", "err", "gen", "cancel"}

FindInv ==
    /\ find = [x \in FindFields |-> find[x]]
    /\ find.all \in BOOLEAN /\ find.resultAll \in BOOLEAN
    /\ FindAnswersQuestion
    /\ Base = "find" /\ ~FindLoading => find.rows # NoRows \/ find.err # ""
    /\ Base # "find" => find.rows = NoRows /\ find.path = <<>> /\ ~FindLoading
    /\ \A f \in flight : Current(f, {"find"}, find.gen) =>
         /\ FindLoading /\ InFront = "find"
         /\ f.ask = [path |-> find.path, host |-> find.host, all |-> find.all]

DiffFields == {"older", "newer", "meta", "tree", "dir", "err", "gen", "cancel", "infoGen", "infoCancel",
               "searching", "jumped", "origin", "infoRow", "first", "second"}

IsTree(tree) ==
    /\ tree.dirs \subseteq Seq(STRING) \ {<<>>}
    /\ \A d \in tree.dirs : Front(d) \in tree.dirs \cup {Root}

NoInfo == diff.infoRow = NoRow /\ diff.first = NoSide /\ diff.second = NoSide

Sides ==
    /\ diff.first = [want |-> diff.first.want, of |-> diff.first.of]
    /\ diff.second = [want |-> diff.second.want, of |-> diff.second.of]
    /\ diff.first.want \in BOOLEAN /\ diff.second.want \in BOOLEAN

DiffInv ==
    /\ diff = [x \in DiffFields |-> diff[x]] /\ Sides
    /\ diff.meta \in BOOLEAN /\ diff.searching \in BOOLEAN /\ diff.jumped \in BOOLEAN
    /\ IsTree(diff.tree) /\ diff.dir \in Seq(STRING) /\ diff.origin \in Seq(STRING)
    /\ DiffAnswersQuestion
    /\ ~diff.searching /\ ~diff.jumped => diff.origin = Root
    /\ DiffLoading => ~diff.searching /\ ~diff.jumped
    /\ Base \in {"diff", "diffInfo"} => diff.older # 0 /\ diff.newer # 0 /\ (DiffLoading \/ diff.tree # NoTree)
    /\ Base \notin {"diff", "diffInfo"} =>
         diff.tree = NoTree /\ diff.older = 0 /\ ~diff.searching /\ ~diff.jumped /\ ~DiffLoading
    /\ InFront # "diffInfo" => NoInfo /\ ~InfoLoading
    /\ \A f \in flight : Current(f, {"diff"}, diff.gen) =>
         /\ DiffLoading /\ InFront = "diff"
         /\ f.ask.older # 0 /\ f.ask.newer # 0 /\ f.ask.meta \in BOOLEAN
    /\ \A f \in flight : Current(f, {"info"}, diff.infoGen) =>
         /\ InfoLoading /\ InFront = "diffInfo"
         /\ f.ask.first \in {0, IF diff.first.want THEN diff.older ELSE 0}
         /\ f.ask.second \in {0, IF diff.second.want THEN diff.newer ELSE 0}

IInv == NavInv /\ FlightInv /\ BrowseInv /\ FindInv /\ DiffInv

-----------------------------------------------------------------------------
(* Sets of commands. *)

\* What a call of the cancel function held as h makes of command g.
Closed(g, K, h) == IF g.what \in K /\ g.gen = h THEN [g EXCEPT !.live = FALSE] ELSE g

\* Nothing happened to the commands of other kinds.
Kept(C, D, K) == \A L : L \cap K = {} => Of(D, L) = Of(C, L)

LEMMA ClosedIs ==
  ASSUME NEW g, IsCommand(g), NEW K, NEW h
  PROVE  /\ IsCommand(Closed(g, K, h))
         /\ Closed(g, K, h).what = g.what /\ Closed(g, K, h).gen = g.gen /\ Closed(g, K, h).ask = g.ask
         /\ Closed(g, K, h).live => g.live
         /\ Closed(g, K, h).live => ~(g.what \in K /\ g.gen = h)
         /\ g.what \notin K => Closed(g, K, h) = g
  <1>1. g \in [what : BrowseKinds \cup {"find", "diff", "info"}, gen : Nat \ {0}, ask : {g.ask}, live : BOOLEAN]
    BY DEF IsCommand
  <1>2. CASE g.what \in K /\ g.gen = h
    <2>1. /\ [g EXCEPT !.live = FALSE]
                \in [what : BrowseKinds \cup {"find", "diff", "info"}, gen : Nat \ {0}, ask : {g.ask}, live : BOOLEAN]
          /\ [g EXCEPT !.live = FALSE].what = g.what /\ [g EXCEPT !.live = FALSE].gen = g.gen
          /\ [g EXCEPT !.live = FALSE].ask = g.ask /\ [g EXCEPT !.live = FALSE].live = FALSE
      BY <1>1
    <2> QED BY <1>2, <2>1 DEF IsCommand, Closed
  <1>3. CASE ~(g.what \in K /\ g.gen = h)
    BY <1>3 DEF Closed
  <1> QED BY <1>2, <1>3

LEMMA CancelledIs ==
  ASSUME NEW C, NEW K, NEW h
  PROVE  Cancelled(C, K, h) = {Closed(g, K, h) : g \in C}
  BY DEF Cancelled, Closed

LEMMA CancelKeeps ==
  ASSUME NEW C, \A f \in C : IsCommand(f), NEW K, NEW h
  PROVE  /\ \A f \in Cancelled(C, K, h) : IsCommand(f)
         /\ \A f \in Cancelled(C, K, h) : \E g \in C :
              /\ f = Closed(g, K, h) /\ f.what = g.what /\ f.gen = g.gen
              /\ f.live => g.live
              /\ f.live => ~(g.what \in K /\ g.gen = h)
         /\ Kept(C, Cancelled(C, K, h), K)
  <1>1. \A g \in C : /\ IsCommand(Closed(g, K, h)) /\ Closed(g, K, h).what = g.what /\ Closed(g, K, h).gen = g.gen
                     /\ Closed(g, K, h).live => g.live
                     /\ Closed(g, K, h).live => ~(g.what \in K /\ g.gen = h)
                     /\ g.what \notin K => Closed(g, K, h) = g
    BY ClosedIs
  <1>3. \A f \in Cancelled(C, K, h) : \E g \in C : f = Closed(g, K, h)
    BY CancelledIs
  <1>4. \A g \in C : Closed(g, K, h) \in Cancelled(C, K, h)
    BY CancelledIs
  <1>5. ASSUME NEW L, L \cap K = {} PROVE Of(Cancelled(C, K, h), L) = Of(C, L)
    <2>1. \A f : f \in Of(Cancelled(C, K, h), L) => f \in Of(C, L)
      BY <1>1, <1>3, <1>5 DEF Of
    <2>2. \A f : f \in Of(C, L) => f \in Of(Cancelled(C, K, h), L)
      BY <1>1, <1>4, <1>5 DEF Of
    <2> QED BY <2>1, <2>2
  <1> QED BY <1>1, <1>3, <1>5 DEF Kept

\* A controller that calls the cancel function it holds, and may go on to the next
\* generation, has no open context left.
LEMMA GroupCancelled ==
  ASSUME NEW C, \A f \in C : IsCommand(f), NEW K, NEW gen, NEW h, Group(C, K, gen, h)
  PROVE  /\ Group(Cancelled(C, K, h), K, gen, 0)
         /\ Group(Cancelled(C, K, h), K, gen + 1, 0)
         /\ gen + 1 \in Nat \ {0}
         /\ \A f \in Cancelled(C, K, h) : ~Current(f, K, gen + 1)
         /\ \A f \in Cancelled(C, K, h) : f.what \in K => ~f.live
  <1>1. /\ \A f \in Cancelled(C, K, h) : IsCommand(f)
        /\ \A f \in Cancelled(C, K, h) : \E g \in C :
              /\ f = Closed(g, K, h) /\ f.what = g.what /\ f.gen = g.gen
              /\ f.live => g.live
              /\ f.live => ~(g.what \in K /\ g.gen = h)
    BY CancelKeeps
  <1>2. \A f \in Of(Cancelled(C, K, h), K) : f.gen \in Nat /\ f.gen <= gen /\ ~f.live
    BY <1>1 DEF Of, Group, IsCommand
  <1>3. \A f, g \in Of(Cancelled(C, K, h), K) : f.gen = g.gen => f = g
    BY <1>1 DEF Of, Group
  <1>4. gen \in Nat
    BY DEF Group
  <1> HIDE DEF Cancelled
  <1>5. /\ Group(Cancelled(C, K, h), K, gen, 0)
        /\ Group(Cancelled(C, K, h), K, gen + 1, 0)
    BY <1>2, <1>3, <1>4 DEF Group
  <1>6. \A f \in Cancelled(C, K, h) : f.what \in K => f \in Of(Cancelled(C, K, h), K)
    BY DEF Of
  <1> QED BY <1>2, <1>4, <1>5, <1>6 DEF Current

\* A command sent for a generation that has none is the one it waits for.
LEMMA GroupSent ==
  ASSUME NEW C, \A f \in C : IsCommand(f), NEW K, K \subseteq BrowseKinds \cup {"find", "diff", "info"}, NEW what \in K,
         NEW gen \in Nat \ {0}, NEW ask, Group(C, K, gen, 0), \A f \in C : ~Current(f, K, gen)
  PROVE  /\ \A f \in C \cup {Command(what, gen, ask)} : IsCommand(f)
         /\ Group(C \cup {Command(what, gen, ask)}, K, gen, gen)
         /\ \A f \in C \cup {Command(what, gen, ask)} : Current(f, K, gen) => f.what = what /\ f.ask = ask
         /\ Kept(C, C \cup {Command(what, gen, ask)}, K)
  <1> DEFINE new == Command(what, gen, ask)
  <1>1. IsCommand(new) /\ new.what = what /\ new.gen = gen /\ new.ask = ask
    BY DEF Command, IsCommand
  <1> HIDE DEF new
  <1>2. \A f \in Of(C, K) : f.gen <= gen /\ f.gen # gen /\ ~f.live
    BY DEF Of, Group, Current, IsCommand
  <1>3. Kept(C, C \cup {new}, K)
    BY <1>1 DEF Of, Kept
  <1>4. Group(C \cup {new}, K, gen, gen)
    BY <1>1, <1>2 DEF Group, Of
  <1>5. \A f \in C \cup {new} : Current(f, K, gen) => f.what = what /\ f.ask = ask
    BY <1>1 DEF Current
  <1> QED BY <1>1, <1>3, <1>4, <1>5 DEF new

LEMMA GroupTaken ==
  ASSUME NEW C, NEW K, NEW gen, NEW h, Group(C, K, gen, h), NEW f
  PROVE  /\ Group(C \ {f}, K, gen, h)
         /\ f \in C /\ Current(f, K, gen) => \A g \in C \ {f} : ~Current(g, K, gen)
         /\ f.what \in K => Kept(C, C \ {f}, K)
  BY DEF Group, Of, Current, Kept

\* What a group is told about depends on its own commands only.
LEMMA GroupOf ==
  ASSUME NEW C, NEW D, NEW K, NEW gen, NEW h, Group(C, K, gen, h), Of(D, K) = Of(C, K)
  PROVE  Group(D, K, gen, h)
  BY DEF Group

LEMMA KeptTwice ==
  ASSUME NEW C, NEW D, NEW E, NEW K, Kept(C, D, K), Kept(D, E, K)
  PROVE  Kept(C, E, K)
  BY DEF Kept

LEMMA KeptAll == ASSUME NEW C, NEW K PROVE Kept(C, C, K)
  BY DEF Kept
-----------------------------------------------------------------------------
(* What a controller that is not involved needs of a step. *)

LEMMA BrowseFrame ==
  ASSUME BrowseInv, browse' = browse, Of(flight', BrowseKinds) = Of(flight, BrowseKinds),
         InFront = "browse" /\ (browse.loading \/ browse.searching) => InFront' = "browse",
         browse.searching => view' = "browse",
         Base' \notin {"browse", "find"} => Base \notin {"browse", "find"}
  PROVE  BrowseInv'
  <1>1. \A f \in flight' : Current(f, BrowseKinds, browse.gen) => f \in flight
    BY DEF Of, Current
  <1>2. BrowseAnswersQuestion'
    BY DEF BrowseInv, BrowseAnswersQuestion
  <1>3. \A f \in flight' : Current(f, BrowseKinds, browse.gen) => BrowseAwaits(f)'
    BY <1>1 DEF BrowseInv, BrowseAwaits, Current, BrowseKinds
  <1> QED BY <1>2, <1>3 DEF BrowseInv, Current, BrowseFields

LEMMA FindFrame ==
  ASSUME NavInv, FindInv, find' = find, Of(flight', {"find"}) = Of(flight, {"find"}),
         InFront = "find" /\ FindLoading => InFront' = "find",
         Base' = "find" <=> Base = "find"
  PROVE  FindInv'
  <1>1. \A f \in flight' : Current(f, {"find"}, find.gen) => f \in flight
    BY DEF Of, Current
  <1>2. FindLoading' = FindLoading
    BY DEF FindLoading
  <1>3. FindAnswersQuestion'
    <2>1. InFront' = "find" => Base' = "find"
      BY DEF Base
    <2>2. view' \in {"list", "detail", "browse"} => Base' # "find"
      BY DEF Base, InFront
    <2> QED BY <1>2, <2>1, <2>2 DEF FindInv, FindAnswersQuestion
  <1>4. \A f \in flight' : Current(f, {"find"}, find.gen) =>
         /\ FindLoading /\ InFront = "find"
         /\ f.ask = [path |-> find.path, host |-> find.host, all |-> find.all]
    BY <1>1 DEF FindInv
  <1> QED BY <1>2, <1>3, <1>4 DEF FindInv, Current, FindFields

LEMMA DiffFrame ==
  ASSUME DiffInv, diff' = diff,
         Of(flight', {"diff"}) = Of(flight, {"diff"}), Of(flight', {"info"}) = Of(flight, {"info"}),
         InFront = "diff" /\ DiffLoading => InFront' = "diff",
         (InFront' = "diffInfo") <=> (InFront = "diffInfo"),
         Base' \in {"diff", "diffInfo"} <=> Base \in {"diff", "diffInfo"}
  PROVE  DiffInv'
  <1>1. /\ \A f \in flight' : Current(f, {"diff"}, diff.gen) => f \in flight
        /\ \A f \in flight' : Current(f, {"info"}, diff.infoGen) => f \in flight
    BY DEF Of, Current
  <1>2. DiffLoading' = DiffLoading /\ InfoLoading' = InfoLoading
    BY DEF DiffLoading, InfoLoading
  <1>3. (InFront' = "diff" => Base' \in {"diff", "diffInfo"}) /\ (InFront' \in {"list", "detail"} => Base' \notin {"diff", "diffInfo"})
    BY DEF Base
  <1>4. diff.searching \/ diff.jumped => InFront' \in {"diff", "diffInfo", "extract"} /\ diff.tree # NoTree
    BY DEF DiffInv, Base, DiffAnswersQuestion
  <1>5. DiffAnswersQuestion'
    BY <1>2, <1>3, <1>4 DEF DiffInv, DiffAnswersQuestion
  <1>6. \A f \in flight' : Current(f, {"diff"}, diff.gen) =>
         /\ DiffLoading /\ InFront' = "diff"
         /\ f.ask.older # 0 /\ f.ask.newer # 0 /\ f.ask.meta \in BOOLEAN
    BY <1>1 DEF DiffInv
  <1>7. \A f \in flight' : Current(f, {"info"}, diff.infoGen) =>
         /\ InfoLoading /\ InFront' = "diffInfo"
         /\ f.ask.first \in {0, IF diff.first.want THEN diff.older ELSE 0}
         /\ f.ask.second \in {0, IF diff.second.want THEN diff.newer ELSE 0}
    BY <1>1 DEF DiffInv
  <1>8. NoInfo' = NoInfo /\ (Sides => Sides') /\ (IsTree(diff.tree) => IsTree(diff.tree)')
    BY DEF NoInfo, Sides, IsTree
  <1>9. InFront' # "diffInfo" => NoInfo' /\ ~InfoLoading'
    BY <1>2, <1>8 DEF DiffInv
  <1>10. /\ Base' \in {"diff", "diffInfo"} => diff.older # 0 /\ diff.newer # 0 /\ (DiffLoading \/ diff.tree # NoTree)
         /\ Base' \notin {"diff", "diffInfo"} =>
              diff.tree = NoTree /\ diff.older = 0 /\ ~diff.searching /\ ~diff.jumped /\ ~DiffLoading
    BY DEF DiffInv
  <1> QED BY <1>2, <1>5, <1>6, <1>7, <1>8, <1>9, <1>10 DEF DiffInv, Current, DiffFields

-----------------------------------------------------------------------------
(* Browse: its helpers. *)

BrowseState(s) ==
    /\ s = [b |-> s.b, commands |-> s.commands]
    /\ s.b = [x \in BrowseFields |-> s.b[x]]
    /\ \A f \in s.commands : IsCommand(f)
    /\ Group(s.commands, BrowseKinds, s.b.gen, s.b.cancel)

\* c is about the same snapshot and search as b.
Alike(b, c) ==
    /\ c.snap = b.snap /\ c.cache = b.cache /\ c.indexed = b.indexed
    /\ c.searching = b.searching /\ c.suspended = b.suspended
    /\ c.query = b.query /\ c.shown = b.shown /\ c.found = b.found

\* The next generation, with the cancel function h.
Renewed(b, h) == [b EXCEPT !.gen = b.gen + 1, !.cancel = h]

LEMMA RenewedIs ==
  ASSUME NEW b, b = [x \in BrowseFields |-> b[x]], NEW h
  PROVE  /\ Renewed(b, h) = [x \in BrowseFields |-> Renewed(b, h)[x]]
         /\ Renewed(b, h).gen = b.gen + 1 /\ Renewed(b, h).cancel = h
         /\ Renewed(b, h).dir = b.dir /\ Renewed(b, h).rows = b.rows /\ Renewed(b, h).loading = b.loading
         /\ Alike(b, Renewed(b, h))
  BY DEF Renewed, BrowseFields, Alike

LEMMA Superseded ==
  ASSUME NEW s, BrowseState(s)
  PROVE  /\ BrowseState(Supersede(s))
         /\ Supersede(s).b = Renewed(s.b, 0)
         /\ \A f \in Supersede(s).commands : ~Current(f, BrowseKinds, s.b.gen + 1)
         /\ Kept(s.commands, Supersede(s).commands, BrowseKinds)
         /\ s.b.gen + 1 \in Nat \ {0}
  <1> DEFINE C == Cancelled(s.commands, BrowseKinds, s.b.cancel)
             c == Renewed(s.b, 0)
  <1>1. /\ Group(C, BrowseKinds, s.b.gen + 1, 0) /\ s.b.gen + 1 \in Nat \ {0}
        /\ \A f \in C : ~Current(f, BrowseKinds, s.b.gen + 1)
    BY GroupCancelled DEF BrowseState
  <1>2. (\A f \in C : IsCommand(f)) /\ Kept(s.commands, C, BrowseKinds)
    BY CancelKeeps DEF BrowseState
  <1>3. Supersede(s) = [b |-> c, commands |-> C]
    BY DEF Supersede, Renewed
  <1>4. c = [x \in BrowseFields |-> c[x]] /\ c.gen = s.b.gen + 1 /\ c.cancel = 0
    BY RenewedIs DEF BrowseState
  <1> HIDE DEF C, c
  <1>5. Supersede(s).b = c /\ Supersede(s).commands = C
    BY <1>3
  <1>6. BrowseState(Supersede(s))
    BY <1>1, <1>2, <1>3, <1>4, <1>5 DEF BrowseState
  <1> QED BY <1>1, <1>2, <1>5, <1>6 DEF c

LEMMA Begun ==
  ASSUME NEW s, BrowseState(s), NEW what \in BrowseKinds, NEW ask
  PROVE  /\ BrowseState(BeginOp(s, what, ask))
         /\ BeginOp(s, what, ask).b = Renewed(s.b, s.b.gen + 1)
         /\ \A f \in BeginOp(s, what, ask).commands : Current(f, BrowseKinds, s.b.gen + 1) => f.what = what /\ f.ask = ask
         /\ Kept(s.commands, BeginOp(s, what, ask).commands, BrowseKinds)
         /\ s.b.gen + 1 \in Nat \ {0}
  <1> DEFINE t == Supersede(s)
             n == s.b.gen + 1
             D == t.commands \cup {Command(what, n, ask)}
             c == [t.b EXCEPT !.cancel = n]
  <1>1. /\ BrowseState(t) /\ t.b = Renewed(s.b, 0)
        /\ \A f \in t.commands : ~Current(f, BrowseKinds, n)
        /\ Kept(s.commands, t.commands, BrowseKinds)
        /\ n \in Nat \ {0}
    BY Superseded
  <1>2. t.b.gen = n /\ t.b.cancel = 0 /\ s.b = [x \in BrowseFields |-> s.b[x]]
    BY <1>1, RenewedIs DEF BrowseState
  <1>3. BeginOp(s, what, ask) = [b |-> c, commands |-> D]
    BY <1>2 DEF BeginOp
  <1>4. /\ c = Renewed(s.b, n)
        /\ c = [x \in BrowseFields |-> c[x]] /\ c.gen = n /\ c.cancel = n
    <2>1. c = Renewed(s.b, n)
      BY <1>1, <1>2 DEF BrowseFields, Renewed
    <2> QED BY <1>2, <2>1, RenewedIs
  <1> HIDE DEF t, n
  <1>5. /\ \A f \in D : IsCommand(f)
        /\ Group(D, BrowseKinds, n, n)
        /\ \A f \in D : Current(f, BrowseKinds, n) => f.what = what /\ f.ask = ask
        /\ Kept(t.commands, D, BrowseKinds)
    <2>1. Group(t.commands, BrowseKinds, n, 0) /\ \A f \in t.commands : IsCommand(f)
      BY <1>1, <1>2 DEF BrowseState
    <2>2. BrowseKinds \subseteq BrowseKinds \cup {"find", "diff", "info"}
      OBVIOUS
    <2> QED BY <1>1, <2>1, <2>2, GroupSent
  <1>6. Kept(s.commands, D, BrowseKinds)
    BY <1>1, <1>5, KeptTwice
  <1> HIDE DEF c, D
  <1>7. BeginOp(s, what, ask).b = c /\ BeginOp(s, what, ask).commands = D
    BY <1>3
  <1>8. BrowseState(BeginOp(s, what, ask))
    BY <1>3, <1>4, <1>5, <1>7 DEF BrowseState
  <1> QED BY <1>1, <1>4, <1>5, <1>6, <1>7, <1>8 DEF n

\* The loading flag is nothing but a flag.
LEMMA LoadingIs ==
  ASSUME NEW s, BrowseState(s), NEW l
  PROVE  /\ BrowseState(Loading(s, l)) /\ Loading(s, l).commands = s.commands
         /\ Loading(s, l).b = [s.b EXCEPT !.loading = l]
  <1> DEFINE c == [s.b EXCEPT !.loading = l]
  <1>1. Loading(s, l) = [b |-> c, commands |-> s.commands]
    <2>1. s = [b |-> s.b, commands |-> s.commands]
      BY DEF BrowseState
    <2> QED BY <2>1 DEF Loading
  <1>2. c = [x \in BrowseFields |-> c[x]] /\ c.gen = s.b.gen /\ c.cancel = s.b.cancel
    BY DEF BrowseState, BrowseFields
  <1> HIDE DEF c
  <1>3. Loading(s, l).b = c /\ Loading(s, l).commands = s.commands
    BY <1>1
  <1>4. BrowseState(Loading(s, l))
    BY <1>1, <1>2, <1>3 DEF BrowseState
  <1> QED BY <1>3, <1>4 DEF c

\* t is what s becomes when a listing of dir is begun: it is there, or waited for.
ListingBegun(s, dir, t) ==
    /\ BrowseState(t) /\ Kept(s.commands, t.commands, BrowseKinds) /\ Alike(s.b, t.b)
    /\ \/ /\ dir \in DOMAIN s.b.cache
          /\ t.b.dir = dir /\ t.b.rows = s.b.cache[dir] /\ t.b.loading = FALSE
          /\ \A f \in t.commands : ~Current(f, BrowseKinds, t.b.gen)
       \/ /\ t.b.dir = s.b.dir /\ t.b.rows = s.b.rows /\ t.b.loading = TRUE
          /\ \A f \in t.commands : Current(f, BrowseKinds, t.b.gen) =>
               f.what = "dir" /\ f.ask = [snap |-> s.b.snap, dir |-> dir]

LEMMA ListDirBegun ==
  ASSUME NEW s, BrowseState(s), NEW dir
  PROVE  ListingBegun(s, dir, BeginListDir(s, dir))
  <1> DEFINE t == BeginListDir(s, dir)
  <1>0. s.b = [x \in BrowseFields |-> s.b[x]]
    BY DEF BrowseState
  <1>1. CASE dir \in DOMAIN s.b.cache
    <2> DEFINE u == Supersede(s)
               c == [u.b EXCEPT !.dir = dir, !.rows = s.b.cache[dir]]
               w == [b |-> c, commands |-> u.commands]
    <2>1. /\ BrowseState(u) /\ u.b = Renewed(s.b, 0)
          /\ \A f \in u.commands : ~Current(f, BrowseKinds, s.b.gen + 1)
          /\ Kept(s.commands, u.commands, BrowseKinds)
      BY Superseded
    <2>2. u = [b |-> u.b, commands |-> u.commands]
      BY <2>1 DEF BrowseState
    <2> HIDE DEF u
    <2>3. u.b = [x \in BrowseFields |-> u.b[x]] /\ u.b.gen = s.b.gen + 1 /\ u.b.cancel = 0 /\ Alike(s.b, u.b)
      BY <1>0, <2>1, RenewedIs
    <2>4. [u EXCEPT !.b = [@ EXCEPT !.dir = dir, !.rows = s.b.cache[dir]]] = w
      BY <2>2
    <2>5. /\ c = [x \in BrowseFields |-> c[x]] /\ c.gen = u.b.gen /\ c.cancel = u.b.cancel
          /\ c.dir = dir /\ c.rows = s.b.cache[dir] /\ Alike(u.b, c)
      BY <2>3 DEF BrowseFields, Alike
    <2>6. t = Loading(w, FALSE)
      BY <1>1, <2>4 DEF BeginListDir, u
    <2> HIDE DEF c, t
    <2>7. w.b = c /\ w.commands = u.commands
      OBVIOUS
    <2>8. BrowseState(w)
      BY <2>1, <2>5, <2>7 DEF BrowseState
    <2>9. BrowseState(t) /\ t.commands = u.commands /\ t.b = [c EXCEPT !.loading = FALSE]
      BY <2>6, <2>7, <2>8, LoadingIs
    <2>10. t.b.gen = s.b.gen + 1 /\ t.b.dir = dir /\ t.b.rows = s.b.cache[dir] /\ t.b.loading = FALSE /\ Alike(s.b, t.b)
      BY <2>3, <2>5, <2>9 DEF BrowseFields, Alike
    <2> QED BY <1>1, <2>1, <2>9, <2>10 DEF t, ListingBegun
  <1>2. CASE dir \notin DOMAIN s.b.cache
    <2> DEFINE ask == [snap |-> s.b.snap, dir |-> dir]
               u == BeginOp(s, "dir", ask)
    <2> HIDE DEF ask
    <2>1. /\ BrowseState(u)
          /\ u.b = Renewed(s.b, s.b.gen + 1)
          /\ \A f \in u.commands : Current(f, BrowseKinds, s.b.gen + 1) => f.what = "dir" /\ f.ask = ask
          /\ Kept(s.commands, u.commands, BrowseKinds)
      <3>1. "dir" \in BrowseKinds
        BY DEF BrowseKinds
      <3> QED BY <3>1, Begun
    <2>2. t = Loading(u, TRUE)
      BY <1>2 DEF BeginListDir, ask
    <2> HIDE DEF u, t
    <2>3. /\ u.b = [x \in BrowseFields |-> u.b[x]] /\ u.b.gen = s.b.gen + 1 /\ Alike(s.b, u.b)
          /\ u.b.dir = s.b.dir /\ u.b.rows = s.b.rows
      BY <1>0, <2>1, RenewedIs
    <2>4. BrowseState(t) /\ t.commands = u.commands /\ t.b = [u.b EXCEPT !.loading = TRUE]
      BY <2>1, <2>2, LoadingIs
    <2>5. t.b.gen = s.b.gen + 1 /\ t.b.dir = s.b.dir /\ t.b.rows = s.b.rows /\ t.b.loading = TRUE /\ Alike(s.b, t.b)
      BY <2>3, <2>4 DEF BrowseFields, Alike
    <2> QED BY <2>1, <2>4, <2>5 DEF t, ask, ListingBegun
  <1> QED BY <1>1, <1>2

LEMMA SearchExited ==
  ASSUME NEW s, BrowseState(s)
  PROVE  /\ BrowseState(ExitSearch(s)) /\ ExitSearch(s).commands = s.commands
         /\ ExitSearch(s).b = [s.b EXCEPT !.searching = FALSE, !.suspended = FALSE, !.query = 0, !.shown = 0, !.found = NoRows]
  <1> DEFINE c == [s.b EXCEPT !.searching = FALSE, !.suspended = FALSE, !.query = 0, !.shown = 0, !.found = NoRows]
  <1>1. ExitSearch(s) = [b |-> c, commands |-> s.commands]
    <2>1. s = [b |-> s.b, commands |-> s.commands]
      BY DEF BrowseState
    <2> QED BY <2>1 DEF ExitSearch
  <1>2. c = [x \in BrowseFields |-> c[x]] /\ c.gen = s.b.gen /\ c.cancel = s.b.cancel
    BY DEF BrowseState, BrowseFields
  <1> HIDE DEF c
  <1>3. ExitSearch(s).b = c /\ ExitSearch(s).commands = s.commands
    BY <1>1
  <1>4. BrowseState(ExitSearch(s))
    BY <1>1, <1>2, <1>3 DEF BrowseState
  <1> QED BY <1>3, <1>4 DEF c

LEMMA BrowseCleared ==
  ASSUME NEW s, BrowseState(s)
  PROVE  LET t == ClearBrowse(Supersede(s))
         IN  /\ BrowseState(t) /\ Kept(s.commands, t.commands, BrowseKinds)
             /\ \A f \in t.commands : ~Current(f, BrowseKinds, t.b.gen)
             /\ t.b.rows = NoRows /\ t.b.found = NoRows /\ t.b.cache = NoCache /\ t.b.dir = <<>>
             /\ t.b.searching = FALSE /\ t.b.suspended = FALSE /\ t.b.indexed = FALSE /\ t.b.loading = FALSE
  <1> DEFINE u == Supersede(s)
             c == [u.b EXCEPT !.snap = 0, !.dir = <<>>, !.rows = NoRows, !.cache = NoCache,
                              !.indexed = FALSE, !.loading = FALSE, !.cancel = 0]
             w == [b |-> c, commands |-> u.commands]
             t == ClearBrowse(u)
  <1>1. /\ BrowseState(u) /\ u.b = Renewed(s.b, 0)
        /\ \A f \in u.commands : ~Current(f, BrowseKinds, s.b.gen + 1)
        /\ Kept(s.commands, u.commands, BrowseKinds)
    BY Superseded
  <1>2. u = [b |-> u.b, commands |-> u.commands] /\ s.b = [x \in BrowseFields |-> s.b[x]]
    BY <1>1 DEF BrowseState
  <1> HIDE DEF u
  <1>3. t = ExitSearch(w)
    BY <1>2 DEF ClearBrowse
  <1>4. /\ c = [x \in BrowseFields |-> c[x]] /\ c.gen = s.b.gen + 1 /\ c.cancel = 0 /\ u.b.cancel = 0 /\ u.b.gen = s.b.gen + 1
        /\ c.rows = NoRows /\ c.cache = NoCache /\ c.dir = <<>> /\ c.indexed = FALSE /\ c.loading = FALSE
    <2>1. u.b = [x \in BrowseFields |-> u.b[x]] /\ u.b.cancel = 0 /\ u.b.gen = s.b.gen + 1
      BY <1>1, <1>2, RenewedIs
    <2> QED BY <2>1 DEF BrowseFields
  <1> HIDE DEF c, t
  <1>5. w.b = c /\ w.commands = u.commands
    OBVIOUS
  <1>6. BrowseState(w)
    BY <1>1, <1>4, <1>5 DEF BrowseState
  <1>7. /\ BrowseState(t) /\ t.commands = u.commands
        /\ t.b = [c EXCEPT !.searching = FALSE, !.suspended = FALSE, !.query = 0, !.shown = 0, !.found = NoRows]
    BY <1>3, <1>5, <1>6, SearchExited
  <1>8. /\ t.b.gen = s.b.gen + 1 /\ t.b.rows = NoRows /\ t.b.found = NoRows /\ t.b.cache = NoCache /\ t.b.dir = <<>>
        /\ t.b.searching = FALSE /\ t.b.suspended = FALSE /\ t.b.indexed = FALSE /\ t.b.loading = FALSE
    BY <1>4, <1>7 DEF BrowseFields
  <1> QED BY <1>1, <1>7, <1>8 DEF t, u

-----------------------------------------------------------------------------
(* Browse: its steps.  What is true of the controller b itself, and of the *)
(* command it waits for.                                                   *)

BrowseSound(b) ==
    /\ b.searching \in BOOLEAN /\ b.suspended \in BOOLEAN /\ b.loading \in BOOLEAN /\ b.indexed \in BOOLEAN
    /\ b.rows # NoRows => b.rows = [snap |-> b.snap, dir |-> b.dir]
    /\ \A dir \in DOMAIN b.cache : b.cache[dir] = [snap |-> b.snap, dir |-> dir]
    /\ b.found # NoRows => b.found = [snap |-> b.snap, query |-> b.shown]
    /\ b.rows # NoRows \/ b.searching \/ b.suspended \/ b.dir # <<>> \/ DOMAIN b.cache # {} => b.indexed
    /\ b.searching => ~b.suspended /\ ~b.loading
    /\ b.suspended => b.shown = b.query /\ b.found # NoRows

Awaited(f, b) ==
    /\ f.ask.snap = b.snap
    /\ f.what = "search" => b.searching /\ b.indexed /\ f.ask = [snap |-> b.snap, query |-> b.query]
    /\ f.what # "search" => b.loading /\ ~b.searching
    /\ f.what = "index" => ~b.suspended
    /\ f.what = "dir" => b.indexed

LEMMA BrowseIs ==
  ASSUME IInv
  PROVE  /\ BrowseState(Here) /\ BrowseSound(browse) /\ Here.b = browse /\ Here.commands = flight
         /\ browse = [x \in BrowseFields |-> browse[x]]
         /\ browse.searching => view = "browse"
         /\ \A f \in flight : Current(f, BrowseKinds, browse.gen) => InFront = "browse" /\ Awaited(f, browse)
  <1>1. Here = [b |-> browse, commands |-> flight] /\ Here.b = browse /\ Here.commands = flight
    BY DEF Here
  <1>2. browse = [x \in BrowseFields |-> browse[x]]
    BY DEF IInv, BrowseInv
  <1>3. BrowseState(Here)
    BY <1>1, <1>2 DEF BrowseState, IInv, FlightInv
  <1>4. BrowseSound(browse) /\ (browse.searching => view = "browse")
    BY DEF IInv, BrowseInv, BrowseAnswersQuestion, BrowseSound
  <1>5. \A f \in flight : Current(f, BrowseKinds, browse.gen) => InFront = "browse" /\ Awaited(f, browse)
    BY DEF IInv, BrowseInv, BrowseAwaits, Awaited
  <1> QED BY <1>1, <1>2, <1>3, <1>4, <1>5

LEMMA BrowseStep ==
  ASSUME IInv, ~quitting, UNCHANGED <<prevView, extractReturn, quitting, find, diff>>,
         view' = view \/ (InFront \in {"browse", "detail"} /\ view' \in {"browse", "detail"}),
         NEW t, BrowseState(t), Become(t), Kept(flight, t.commands, BrowseKinds),
         BrowseSound(t.b), t.b.searching => view' = "browse",
         Base' \notin {"browse", "find"} =>
           /\ t.b.rows = NoRows /\ t.b.found = NoRows /\ DOMAIN t.b.cache = {} /\ ~t.b.searching /\ ~t.b.suspended,
         \A f \in t.commands : Current(f, BrowseKinds, t.b.gen) => InFront' = "browse" /\ Awaited(f, t.b)
  PROVE  IInv'
  <1>1. browse' = t.b /\ flight' = t.commands
    BY DEF Become
  <1>2. InFront' = InFront \/ (InFront \in {"browse", "detail"} /\ InFront' \in {"browse", "detail"})
    BY DEF InFront
  <1>3. Base' = Base \/ (Base \in {"browse", "detail"} /\ Base' \in {"browse", "detail"})
    BY <1>2 DEF Base
  <1>4. NavInv'
    <2>1. InFront' = "extract" => InFront = "extract"
      BY <1>2
    <2> QED BY <2>1 DEF IInv, NavInv, Views
  <1>5. /\ Of(flight', {"find"}) = Of(flight, {"find"}) /\ Of(flight', {"diff"}) = Of(flight, {"diff"})
        /\ Of(flight', {"info"}) = Of(flight, {"info"})
    <2>1. {"find"} \cap BrowseKinds = {} /\ {"diff"} \cap BrowseKinds = {} /\ {"info"} \cap BrowseKinds = {}
      BY DEF BrowseKinds
    <2> QED BY <1>1, <2>1 DEF Kept
  <1>6. FindInv'
    BY <1>2, <1>3, <1>5, FindFrame DEF IInv
  <1>7. DiffInv'
    BY <1>2, <1>3, <1>5, DiffFrame DEF IInv
  <1>8. FlightInv'
    <2>1. Group(flight', BrowseKinds, browse'.gen, browse'.cancel) /\ \A f \in flight' : IsCommand(f)
      BY <1>1 DEF BrowseState
    <2>2. /\ Group(flight', {"find"}, find.gen, find.cancel)
          /\ Group(flight', {"diff"}, diff.gen, diff.cancel)
          /\ Group(flight', {"info"}, diff.infoGen, diff.infoCancel)
      BY <1>5, GroupOf DEF IInv, FlightInv
    <2> QED BY <2>1, <2>2 DEF FlightInv
  <1>9. BrowseInv'
    <2>1. browse' = [x \in BrowseFields |-> browse'[x]]
      BY <1>1 DEF BrowseState
    <2>2. BrowseAnswersQuestion'
      BY <1>1 DEF BrowseAnswersQuestion, BrowseSound
    <2>3. \A f \in flight' : Current(f, BrowseKinds, browse'.gen) => BrowseAwaits(f)'
      BY <1>1 DEF BrowseAwaits, Awaited
    <2> QED BY <1>1, <2>1, <2>2, <2>3 DEF BrowseInv, BrowseSound, Current, BrowseFields
  <1> QED BY <1>4, <1>6, <1>7, <1>8, <1>9 DEF IInv

\* A view that is idle or no longer there waits for nothing.
LEMMA BrowseIdle ==
  ASSUME IInv, ~browse.loading, ~browse.searching
  PROVE  \A f \in flight : ~Current(f, BrowseKinds, browse.gen)
  BY BrowseIs DEF Awaited

\* A listing of dir is begun in a state s the controller has come to.
LEMMA ListDirStep ==
  ASSUME IInv, ~quitting, UNCHANGED <<view, prevView, extractReturn, quitting, find, diff>>, InFront = "browse",
         NEW s, BrowseState(s), Kept(flight, s.commands, BrowseKinds),
         BrowseSound(s.b), s.b.indexed, ~s.b.searching,
         NEW dir, Become(BeginListDir(s, dir))
  PROVE  IInv'
  <1> DEFINE t == BeginListDir(s, dir)
  <1>1. ListingBegun(s, dir, t)
    BY ListDirBegun
  <1> HIDE DEF t
  <1>2. BrowseSound(t.b) /\ ~t.b.searching
    BY <1>1 DEF BrowseSound, Alike, ListingBegun
  <1>3. \A f \in t.commands : Current(f, BrowseKinds, t.b.gen) => Awaited(f, t.b)
    BY <1>1 DEF Awaited, Alike, ListingBegun
  <1>4. Kept(flight, t.commands, BrowseKinds)
    BY <1>1, KeptTwice DEF ListingBegun
  <1>5. InFront' = "browse" /\ Base' = "browse" /\ Become(t)
    BY DEF InFront, Base, t
  <1>6. BrowseState(t)
    BY <1>1 DEF ListingBegun
  <1> QED BY <1>2, <1>3, <1>4, <1>5, <1>6, BrowseStep

\* The view is left.
LEMMA BrowseLeft ==
  ASSUME IInv, ~quitting, UNCHANGED <<prevView, extractReturn, quitting, find, diff>>,
         InFront \in {"browse", "detail"}, view' = "detail",
         NEW s, BrowseState(s), Kept(flight, s.commands, BrowseKinds), Become(ClearBrowse(Supersede(s)))
  PROVE  IInv'
  <1> DEFINE t == ClearBrowse(Supersede(s))
  <1>1. /\ BrowseState(t) /\ Kept(s.commands, t.commands, BrowseKinds)
        /\ \A f \in t.commands : ~Current(f, BrowseKinds, t.b.gen)
        /\ t.b.rows = NoRows /\ t.b.found = NoRows /\ t.b.cache = NoCache /\ t.b.dir = <<>>
        /\ t.b.searching = FALSE /\ t.b.suspended = FALSE /\ t.b.indexed = FALSE /\ t.b.loading = FALSE
    BY BrowseCleared
  <1> HIDE DEF t
  <1>2. DOMAIN t.b.cache = {}
    BY <1>1 DEF NoCache
  <1>3. BrowseSound(t.b)
    BY <1>1, <1>2 DEF BrowseSound
  <1>4. Kept(flight, t.commands, BrowseKinds) /\ Become(t)
    BY <1>1, KeptTwice DEF t
  <1> QED BY <1>1, <1>2, <1>3, <1>4, BrowseStep

LEMMA StartBrowseKeeps == ASSUME IInv, StartBrowse, UNCHANGED <<find, diff>> PROVE IInv'
  <1>1. PICK id : /\ view = "detail" /\ view' = "browse" /\ ~quitting
                  /\ UNCHANGED <<prevView, extractReturn, quitting>>
                  /\ LET fresh == [Here EXCEPT !.b = [@ EXCEPT !.snap = id, !.dir = <<>>, !.rows = NoRows, !.cache = NoCache,
                                                             !.indexed = FALSE]]
                     IN  Become(Loading(BeginOp(fresh, "index", [snap |-> id]), TRUE))
    BY DEF StartBrowse, InDetail, AtDetail, Press
  <1>2. /\ BrowseState(Here) /\ BrowseSound(browse) /\ browse = [x \in BrowseFields |-> browse[x]]
        /\ Here.b = browse /\ Here.commands = flight
    BY BrowseIs
  <1>3. Base = "detail" /\ InFront = "detail"
    BY <1>1 DEF Base, InFront
  <1>4. browse.found = NoRows /\ ~browse.searching /\ ~browse.suspended
    BY <1>3 DEF IInv, BrowseInv
  <1> DEFINE c == [browse EXCEPT !.snap = id, !.dir = <<>>, !.rows = NoRows, !.cache = NoCache, !.indexed = FALSE]
             w == [b |-> c, commands |-> flight]
             u == BeginOp(w, "index", [snap |-> id])
             t == Loading(u, TRUE)
  <1>5. Become(t)
    <2>1. [Here EXCEPT !.b = [@ EXCEPT !.snap = id, !.dir = <<>>, !.rows = NoRows, !.cache = NoCache, !.indexed = FALSE]] = w
      BY DEF Here
    <2> QED BY <1>1, <2>1
  <1>6. /\ c = [x \in BrowseFields |-> c[x]] /\ c.gen = browse.gen /\ c.cancel = browse.cancel
        /\ c.snap = id /\ c.dir = <<>> /\ c.rows = NoRows /\ c.cache = NoCache /\ c.indexed = FALSE
        /\ c.found = NoRows /\ c.searching = FALSE /\ c.suspended = FALSE
        /\ w.b = c /\ w.commands = flight
    BY <1>2, <1>4 DEF BrowseFields, BrowseSound
  <1> HIDE DEF c
  <1>7. BrowseState(w)
    BY <1>2, <1>6 DEF BrowseState
  <1> HIDE DEF w
  <1>8. /\ BrowseState(u) /\ u.b = Renewed(c, c.gen + 1) /\ Kept(flight, u.commands, BrowseKinds)
        /\ \A f \in u.commands : Current(f, BrowseKinds, c.gen + 1) => f.what = "index" /\ f.ask = [snap |-> id]
    <2>1. "index" \in BrowseKinds
      BY DEF BrowseKinds
    <2> QED BY <1>6, <1>7, <2>1, Begun
  <1>9. /\ u.b = [x \in BrowseFields |-> u.b[x]] /\ u.b.gen = c.gen + 1
        /\ u.b.snap = id /\ u.b.dir = <<>> /\ u.b.rows = NoRows /\ u.b.cache = NoCache /\ u.b.indexed = FALSE
        /\ u.b.found = NoRows /\ u.b.searching = FALSE /\ u.b.suspended = FALSE
    BY <1>6, <1>8, RenewedIs DEF Alike
  <1> HIDE DEF u
  <1>10. BrowseState(t) /\ t.commands = u.commands /\ t.b = [u.b EXCEPT !.loading = TRUE]
    BY <1>8, LoadingIs
  <1> HIDE DEF t
  <1>11. /\ t.b.gen = c.gen + 1 /\ t.b.loading = TRUE
         /\ t.b.snap = id /\ t.b.dir = <<>> /\ t.b.rows = NoRows /\ t.b.cache = NoCache /\ t.b.indexed = FALSE
         /\ t.b.found = NoRows /\ t.b.searching = FALSE /\ t.b.suspended = FALSE
    BY <1>9, <1>10 DEF BrowseFields
  <1>12. DOMAIN t.b.cache = {}
    BY <1>11 DEF NoCache
  <1>13. BrowseSound(t.b)
    BY <1>11, <1>12 DEF BrowseSound
  <1>14. \A f \in t.commands : Current(f, BrowseKinds, t.b.gen) => InFront' = "browse" /\ Awaited(f, t.b)
    BY <1>1, <1>8, <1>10, <1>11 DEF Awaited, InFront
  <1> QED BY <1>1, <1>3, <1>5, <1>8, <1>10, <1>11, <1>12, <1>13, <1>14, BrowseStep

LEMMA BrowseBackKeeps == ASSUME IInv, BrowseBack, UNCHANGED <<find, diff>> PROVE IInv'
  <1>1. BrowseState(Here) /\ Here.commands = flight
    BY BrowseIs
  <1>2. /\ ~quitting /\ view = "browse" /\ view' = "detail" /\ Become(ClearBrowse(Supersede(Here)))
        /\ UNCHANGED <<prevView, extractReturn, quitting>>
    BY DEF BrowseBack, InBrowse
  <1>3. InFront = "browse"
    BY <1>2 DEF InFront
  <1>4. Kept(flight, Here.commands, BrowseKinds)
    BY <1>1, KeptAll
  <1> QED BY <1>1, <1>2, <1>3, <1>4, BrowseLeft

LEMMA RestoreSearchKeeps == ASSUME IInv, RestoreSearch, UNCHANGED <<find, diff>> PROVE IInv'
  <1>1. /\ view = "browse" /\ ~browse.searching /\ browse.suspended /\ ~quitting
        /\ UNCHANGED <<view, prevView, extractReturn, quitting>>
    BY DEF RestoreSearch, InBrowse, Press, Stay
  <1>2. /\ BrowseState(Here) /\ BrowseSound(browse) /\ browse = [x \in BrowseFields |-> browse[x]]
        /\ Here.b = browse /\ Here.commands = flight
    BY BrowseIs
  <1> DEFINE s == IF browse.loading THEN Loading(Supersede(Here), FALSE) ELSE Here
             c == [s.b EXCEPT !.searching = TRUE, !.suspended = FALSE]
             t == [s EXCEPT !.b = [@ EXCEPT !.searching = TRUE, !.suspended = FALSE]]
  <1>3. /\ BrowseState(s) /\ Kept(flight, s.commands, BrowseKinds) /\ Alike(browse, s.b)
        /\ s.b.rows = browse.rows /\ s.b.dir = browse.dir /\ s.b.loading = FALSE
        /\ \A f \in s.commands : ~Current(f, BrowseKinds, s.b.gen)
    <2>1. CASE browse.loading
      <3> DEFINE u == Supersede(Here)
      <3>1. /\ BrowseState(u) /\ u.b = Renewed(browse, 0) /\ Kept(flight, u.commands, BrowseKinds)
            /\ \A f \in u.commands : ~Current(f, BrowseKinds, browse.gen + 1)
        BY <1>2, Superseded
      <3>2. s = Loading(u, FALSE)
        BY <2>1
      <3> HIDE DEF s, u
      <3>3. /\ u.b = [x \in BrowseFields |-> u.b[x]] /\ u.b.gen = browse.gen + 1 /\ Alike(browse, u.b)
            /\ u.b.rows = browse.rows /\ u.b.dir = browse.dir
        BY <1>2, <3>1, RenewedIs
      <3>4. BrowseState(s) /\ s.commands = u.commands /\ s.b = [u.b EXCEPT !.loading = FALSE]
        BY <3>1, <3>2, LoadingIs
      <3>5. /\ s.b.gen = browse.gen + 1 /\ s.b.loading = FALSE /\ Alike(browse, s.b)
            /\ s.b.rows = browse.rows /\ s.b.dir = browse.dir
        BY <3>3, <3>4 DEF BrowseFields, Alike
      <3> QED BY <3>1, <3>4, <3>5
    <2>2. CASE ~browse.loading
      <3>1. s = Here
        BY <2>2
      <3>2. \A f \in flight : ~Current(f, BrowseKinds, browse.gen)
        BY <1>1, <2>2, BrowseIdle
      <3>3. Kept(flight, flight, BrowseKinds) /\ browse.loading = FALSE
        BY <1>2, <2>2, KeptAll DEF BrowseSound
      <3> HIDE DEF s
      <3> QED BY <1>2, <3>1, <3>2, <3>3 DEF Alike
    <2> QED BY <1>2, <2>1, <2>2 DEF BrowseSound
  <1>4. Become(t)
    BY DEF RestoreSearch
  <1> HIDE DEF s
  <1>5. s = [b |-> s.b, commands |-> s.commands] /\ s.b = [x \in BrowseFields |-> s.b[x]]
    BY <1>3 DEF BrowseState
  <1>6. t = [b |-> c, commands |-> s.commands]
    BY <1>5
  <1>7. /\ c = [x \in BrowseFields |-> c[x]] /\ c.gen = s.b.gen /\ c.cancel = s.b.cancel
        /\ c.searching = TRUE /\ c.suspended = FALSE /\ c.loading = FALSE /\ c.rows = browse.rows /\ c.dir = browse.dir
        /\ c.snap = browse.snap /\ c.cache = browse.cache /\ c.indexed = browse.indexed
        /\ c.query = browse.query /\ c.shown = browse.shown /\ c.found = browse.found
    BY <1>3, <1>5 DEF BrowseFields, Alike
  <1> HIDE DEF c, t
  <1>8. t.b = c /\ t.commands = s.commands
    BY <1>6
  <1>9. BrowseState(t)
    BY <1>3, <1>6, <1>7, <1>8 DEF BrowseState
  <1>10. BrowseSound(t.b)
    <2>1. browse.indexed /\ BrowseSound(browse)
      BY <1>1, <1>2 DEF BrowseSound
    <2>2. BrowseSound(c)
      BY ONLY <2>1, <1>7 DEF BrowseSound
    <2> QED BY <1>8, <2>2
  <1>11. Base' = "browse" /\ view' = "browse"
    BY <1>1 DEF Base, InFront
  <1>12. /\ \A f \in t.commands : ~Current(f, BrowseKinds, t.b.gen)
         /\ Kept(flight, t.commands, BrowseKinds)
    BY <1>3, <1>7, <1>8
  <1> QED BY <1>1, <1>4, <1>9, <1>10, <1>11, <1>12, BrowseStep

LEMMA OpenDirKeeps == ASSUME IInv, OpenDir, UNCHANGED <<find, diff>> PROVE IInv'
  <1>1. PICK dir \in SnapDirs : /\ Become(BeginListDir(Here, dir))
                                /\ view = "browse" /\ ~browse.searching /\ browse.rows # NoRows /\ ~quitting
                                /\ UNCHANGED <<view, prevView, extractReturn, quitting>>
    BY DEF OpenDir, Idle, InBrowse, Press, Stay
  <1>2. BrowseState(Here) /\ BrowseSound(browse) /\ Here.b = browse /\ Here.commands = flight
    BY BrowseIs
  <1>3. InFront = "browse" /\ browse.indexed /\ Kept(flight, Here.commands, BrowseKinds)
    BY <1>1, <1>2, KeptAll DEF InFront, BrowseSound
  <1> QED BY <1>1, <1>2, <1>3, ListDirStep

LEMMA ParentDirKeeps == ASSUME IInv, ParentDir, UNCHANGED <<find, diff>> PROVE IInv'
  <1>1. /\ Become(BeginListDir(Here, Front(browse.dir)))
        /\ view = "browse" /\ ~browse.searching /\ browse.dir # <<>> /\ ~quitting
        /\ UNCHANGED <<view, prevView, extractReturn, quitting>>
    BY DEF ParentDir, Idle, InBrowse, Press, Stay
  <1>2. BrowseState(Here) /\ BrowseSound(browse) /\ Here.b = browse /\ Here.commands = flight
    BY BrowseIs
  <1>3. InFront = "browse" /\ browse.indexed /\ Kept(flight, Here.commands, BrowseKinds)
    BY <1>1, <1>2, KeptAll DEF InFront, BrowseSound
  <1> QED BY <1>1, <1>2, <1>3, ListDirStep

LEMMA OpenSearchKeeps == ASSUME IInv, OpenSearch, UNCHANGED <<find, diff>> PROVE IInv'
  <1>1. /\ view = "browse" /\ ~browse.searching /\ ~browse.loading /\ browse.indexed /\ ~quitting
        /\ UNCHANGED <<view, prevView, extractReturn, quitting>>
        /\ Become([ExitSearch(Here) EXCEPT !.b.searching = TRUE])
    BY DEF OpenSearch, Idle, InBrowse, Press, Stay
  <1>2. /\ BrowseState(Here) /\ BrowseSound(browse) /\ browse = [x \in BrowseFields |-> browse[x]]
        /\ Here.b = browse /\ Here.commands = flight
    BY BrowseIs
  <1> DEFINE u == ExitSearch(Here)
             c == [u.b EXCEPT !.searching = TRUE]
             t == [u EXCEPT !.b.searching = TRUE]
  <1>3. /\ BrowseState(u) /\ u.commands = flight
        /\ u.b = [browse EXCEPT !.searching = FALSE, !.suspended = FALSE, !.query = 0, !.shown = 0, !.found = NoRows]
    BY <1>2, SearchExited
  <1>4. u = [b |-> u.b, commands |-> u.commands]
    BY <1>3 DEF BrowseState
  <1>5. Become(t)
    BY <1>1
  <1> HIDE DEF u
  <1>6. t = [b |-> c, commands |-> flight]
    BY <1>3, <1>4
  <1>7. /\ c = [x \in BrowseFields |-> c[x]] /\ c.gen = u.b.gen /\ c.cancel = u.b.cancel /\ c.gen = browse.gen
        /\ c.searching = TRUE /\ c.suspended = FALSE /\ c.loading = browse.loading
        /\ c.rows = browse.rows /\ c.dir = browse.dir
        /\ c.snap = browse.snap /\ c.cache = browse.cache /\ c.indexed = browse.indexed
        /\ c.query = 0 /\ c.shown = 0 /\ c.found = NoRows
    BY <1>2, <1>3 DEF BrowseFields
  <1> HIDE DEF c, t
  <1>8. t.b = c /\ t.commands = flight
    BY <1>6
  <1>9. BrowseState(t)
    BY <1>3, <1>6, <1>7, <1>8 DEF BrowseState
  <1>10. BrowseSound(t.b)
    <2>1. browse.indexed /\ ~browse.loading /\ BrowseSound(browse)
      BY <1>1, <1>2 DEF BrowseSound
    <2>2. BrowseSound(c)
      BY ONLY <2>1, <1>7 DEF BrowseSound
    <2> QED BY <1>8, <2>2
  <1>11. Base' = "browse" /\ view' = "browse"
    BY <1>1 DEF Base, InFront
  <1>12. \A f \in t.commands : ~Current(f, BrowseKinds, t.b.gen)
    BY <1>1, <1>7, <1>8, BrowseIdle
  <1>13. Kept(flight, t.commands, BrowseKinds)
    BY <1>8, KeptAll
  <1> QED BY <1>1, <1>5, <1>9, <1>10, <1>11, <1>12, <1>13, BrowseStep

\* The search is left for the rows it was opened on.
LEMMA CancelSearchStep ==
  ASSUME IInv, ~quitting, UNCHANGED <<view, prevView, extractReturn, quitting, find, diff>>, InSearch,
         Become(CancelSearch(Here))
  PROVE  IInv'
  <1>2. /\ BrowseState(Here) /\ BrowseSound(browse) /\ browse = [x \in BrowseFields |-> browse[x]]
        /\ Here.b = browse /\ Here.commands = flight
    BY BrowseIs
  <1> DEFINE u == Supersede(Here)
             t == ExitSearch(u)
  <1>3. /\ BrowseState(u) /\ u.b = Renewed(browse, 0) /\ Kept(flight, u.commands, BrowseKinds)
        /\ \A f \in u.commands : ~Current(f, BrowseKinds, browse.gen + 1)
    BY <1>2, Superseded
  <1>4. Become(t)
    BY DEF CancelSearch
  <1> HIDE DEF u
  <1>5. /\ BrowseState(t) /\ t.commands = u.commands
        /\ t.b = [u.b EXCEPT !.searching = FALSE, !.suspended = FALSE, !.query = 0, !.shown = 0, !.found = NoRows]
    BY <1>3, SearchExited
  <1>6. /\ u.b = [x \in BrowseFields |-> u.b[x]] /\ u.b.gen = browse.gen + 1 /\ Alike(browse, u.b)
        /\ u.b.rows = browse.rows /\ u.b.dir = browse.dir /\ u.b.loading = browse.loading
    BY <1>2, <1>3, RenewedIs
  <1> HIDE DEF t
  <1>7. /\ t.b.gen = browse.gen + 1 /\ t.b.searching = FALSE /\ t.b.suspended = FALSE /\ t.b.loading = browse.loading
        /\ t.b.rows = browse.rows /\ t.b.dir = browse.dir
        /\ t.b.snap = browse.snap /\ t.b.cache = browse.cache /\ t.b.indexed = browse.indexed
        /\ t.b.query = 0 /\ t.b.shown = 0 /\ t.b.found = NoRows
    BY <1>5, <1>6 DEF BrowseFields, Alike
  <1>8. BrowseSound(t.b)
    <2>1. /\ browse.loading \in BOOLEAN /\ browse.indexed \in BOOLEAN
          /\ browse.rows # NoRows => browse.rows = [snap |-> browse.snap, dir |-> browse.dir]
          /\ \A dir \in DOMAIN browse.cache : browse.cache[dir] = [snap |-> browse.snap, dir |-> dir]
          /\ browse.rows # NoRows \/ browse.dir # <<>> \/ DOMAIN browse.cache # {} => browse.indexed
      BY ONLY <1>2 DEF BrowseSound
    <2> QED BY ONLY <1>7, <2>1 DEF BrowseSound
  <1>9. Base' = "browse"
    BY DEF Base, InFront, InSearch
  <1>10. \A f \in t.commands : ~Current(f, BrowseKinds, t.b.gen)
    BY <1>3, <1>5, <1>7
  <1> QED BY <1>3, <1>4, <1>5, <1>7, <1>8, <1>9, <1>10, BrowseStep

LEMMA EditQueryKeeps == ASSUME IInv, EditQuery, UNCHANGED <<find, diff>> PROVE IInv'
  <1>1. PICK query \in {browse.query - 1, browse.query + 1} \cap 0..Queries :
           /\ Become(FireSearch(query)) /\ view = "browse" /\ browse.searching /\ ~quitting
           /\ UNCHANGED <<view, prevView, extractReturn, quitting>>
    BY DEF EditQuery, InSearch, Press, Stay
  <1>2. /\ BrowseState(Here) /\ BrowseSound(browse) /\ browse = [x \in BrowseFields |-> browse[x]]
        /\ Here.b = browse /\ Here.commands = flight
    BY BrowseIs
  <1>3. browse.searching = TRUE /\ browse.suspended = FALSE /\ browse.loading = FALSE /\ browse.indexed = TRUE
    BY <1>1, <1>2 DEF BrowseSound
  <1> DEFINE c == [browse EXCEPT !.query = query]
             s == [Here EXCEPT !.b.query = query]
             ask == [snap |-> browse.snap, query |-> query]
             u == BeginOp(s, "search", ask)
             v == Supersede(s)
             t == FireSearch(query)
  <1>4. s = [b |-> c, commands |-> flight]
    BY DEF Here
  <1>5. /\ c = [x \in BrowseFields |-> c[x]] /\ c.gen = browse.gen /\ c.cancel = browse.cancel
        /\ c.searching = TRUE /\ c.suspended = FALSE /\ c.loading = FALSE /\ c.indexed = TRUE
        /\ c.rows = browse.rows /\ c.dir = browse.dir /\ c.snap = browse.snap /\ c.cache = browse.cache
        /\ c.query = query /\ c.shown = browse.shown /\ c.found = browse.found
    BY <1>2, <1>3 DEF BrowseFields
  <1>6. t = IF query = 0 THEN [v EXCEPT !.b = [@ EXCEPT !.found = NoRows, !.shown = 0]] ELSE u
    <2>1. s.b.snap = browse.snap
      BY <1>4, <1>5
    <2> QED BY <2>1 DEF FireSearch
  <1> HIDE DEF c, s
  <1>7. s.b = c /\ s.commands = flight
    BY <1>4
  <1>8. BrowseState(s)
    BY <1>2, <1>4, <1>5, <1>7 DEF BrowseState
  <1>9. InFront' = "browse" /\ Base' = "browse" /\ view' = "browse" /\ Become(t)
    BY <1>1 DEF Base, InFront
  <1>10. CASE query = 0
    <2> DEFINE d == [v.b EXCEPT !.found = NoRows, !.shown = 0]
    <2>1. /\ BrowseState(v) /\ v.b = Renewed(c, 0) /\ Kept(flight, v.commands, BrowseKinds)
          /\ \A f \in v.commands : ~Current(f, BrowseKinds, c.gen + 1)
      BY <1>7, <1>8, Superseded
    <2>2. t = [v EXCEPT !.b = [@ EXCEPT !.found = NoRows, !.shown = 0]]
      BY <1>6, <1>10
    <2> HIDE DEF v, t
    <2>3. /\ v.b = [x \in BrowseFields |-> v.b[x]] /\ v.b.gen = c.gen + 1 /\ v.b.cancel = 0 /\ Alike(c, v.b)
          /\ v.b.rows = c.rows /\ v.b.dir = c.dir /\ v.b.loading = c.loading
      BY <1>5, <2>1, RenewedIs
    <2>4. v = [b |-> v.b, commands |-> v.commands]
      BY <2>1 DEF BrowseState
    <2>5. t = [b |-> d, commands |-> v.commands]
      BY <2>2, <2>4
    <2>6. /\ d = [x \in BrowseFields |-> d[x]] /\ d.gen = v.b.gen /\ d.cancel = v.b.cancel
          /\ d.found = NoRows /\ d.shown = 0
          /\ d.searching = TRUE /\ d.suspended = FALSE /\ d.loading = FALSE /\ d.indexed = TRUE
          /\ d.rows = browse.rows /\ d.dir = browse.dir /\ d.snap = browse.snap /\ d.cache = browse.cache
      BY <1>5, <2>3 DEF BrowseFields, Alike
    <2> HIDE DEF d
    <2>7. t.b = d /\ t.commands = v.commands
      BY <2>5
    <2>8. BrowseState(t)
      BY <2>1, <2>5, <2>6, <2>7 DEF BrowseState
    <2>9. BrowseSound(d)
      <3>1. BrowseSound(browse)
        BY <1>2
      <3> QED BY ONLY <3>1, <2>6 DEF BrowseSound
    <2>10. \A f \in t.commands : ~Current(f, BrowseKinds, t.b.gen)
      BY <2>1, <2>3, <2>6, <2>7
    <2> QED BY <1>1, <1>9, <2>1, <2>7, <2>8, <2>9, <2>10, BrowseStep
  <1>11. CASE query # 0
    <2>1. t = u
      BY <1>6, <1>11
    <2> HIDE DEF ask, t
    <2>2. /\ BrowseState(u) /\ u.b = Renewed(c, c.gen + 1) /\ Kept(flight, u.commands, BrowseKinds)
          /\ \A f \in u.commands : Current(f, BrowseKinds, c.gen + 1) => f.what = "search" /\ f.ask = ask
      <3>1. "search" \in BrowseKinds
        BY DEF BrowseKinds
      <3> QED BY <1>7, <1>8, <3>1, Begun
    <2> HIDE DEF u
    <2>3. /\ u.b.gen = c.gen + 1 /\ Alike(c, u.b)
          /\ u.b.rows = c.rows /\ u.b.dir = c.dir /\ u.b.loading = c.loading
      BY <1>5, <2>2, RenewedIs
    <2>4. BrowseSound(u.b) /\ u.b.searching /\ u.b.indexed
      <3>1. BrowseSound(browse)
        BY <1>2
      <3>2. BrowseSound(c)
        BY ONLY <3>1, <1>5 DEF BrowseSound
      <3>3. BrowseSound(u.b)
        BY ONLY <3>2, <2>3 DEF BrowseSound, Alike
      <3> QED BY <1>5, <2>3, <3>3 DEF Alike
    <2>5. \A f \in u.commands : Current(f, BrowseKinds, u.b.gen) => Awaited(f, u.b)
      BY <1>5, <2>2, <2>3 DEF Awaited, Alike, ask
    <2> QED BY <1>1, <1>9, <2>1, <2>2, <2>4, <2>5, BrowseStep
  <1> QED BY <1>10, <1>11

LEMMA AcceptSearchKeeps == ASSUME IInv, AcceptSearch, UNCHANGED <<find, diff>> PROVE IInv'
  <1>1. /\ InSearch /\ browse.shown = browse.query /\ ~quitting
        /\ UNCHANGED <<view, prevView, extractReturn, quitting>>
    BY DEF AcceptSearch, Press, Stay
  <1>2. CASE Become(CancelSearch(Here))
    BY <1>1, <1>2, CancelSearchStep
  <1> DEFINE c == [browse EXCEPT !.searching = FALSE, !.suspended = TRUE]
             parked == [Here EXCEPT !.b = [@ EXCEPT !.searching = FALSE, !.suspended = TRUE]]
  <1>3. ASSUME NEW dir \in SnapDirs, browse.found # NoRows, Become(BeginListDir(parked, dir)) PROVE IInv'
    <2>1. /\ BrowseState(Here) /\ BrowseSound(browse) /\ browse = [x \in BrowseFields |-> browse[x]]
          /\ Here.b = browse /\ Here.commands = flight
      BY BrowseIs
    <2>2. parked = [b |-> c, commands |-> flight]
      BY DEF Here
    <2>3. /\ c = [x \in BrowseFields |-> c[x]] /\ c.gen = browse.gen /\ c.cancel = browse.cancel
          /\ c.searching = FALSE /\ c.suspended = TRUE /\ c.loading = browse.loading /\ c.indexed = browse.indexed
          /\ c.rows = browse.rows /\ c.dir = browse.dir /\ c.snap = browse.snap /\ c.cache = browse.cache
          /\ c.query = browse.query /\ c.shown = browse.shown /\ c.found = browse.found
      BY <2>1 DEF BrowseFields
    <2>4. Become(BeginListDir(parked, dir))
      BY <1>3
    <2> HIDE DEF c, parked
    <2>5. parked.b = c /\ parked.commands = flight
      BY <2>2
    <2>6. BrowseState(parked)
      BY <2>1, <2>2, <2>3, <2>5 DEF BrowseState
    <2>7. browse.searching /\ browse.shown = browse.query /\ browse.found # NoRows /\ InFront = "browse"
      BY <1>1, <1>3 DEF InSearch, InFront
    <2>8. BrowseSound(c) /\ c.indexed /\ ~c.searching
      <3>1. BrowseSound(browse)
        BY <2>1
      <3> QED BY ONLY <3>1, <2>3, <2>7 DEF BrowseSound
    <2>9. Kept(flight, parked.commands, BrowseKinds)
      BY <2>5, KeptAll
    <2> QED BY <1>1, <2>4, <2>5, <2>6, <2>7, <2>8, <2>9, ListDirStep
  <1> HIDE DEF parked
  <1>4. Become(CancelSearch(Here)) \/ \E dir \in SnapDirs : browse.found # NoRows /\ Become(BeginListDir(parked, dir))
    BY DEF AcceptSearch, parked
  <1> QED BY <1>2, <1>3, <1>4

LEMMA LeaveSearchKeeps == ASSUME IInv, LeaveSearch, UNCHANGED <<find, diff>> PROVE IInv'
  BY CancelSearchStep DEF LeaveSearch, Stay

LEMMA AnsweredIs ==
  ASSUME IInv, NEW f \in flight, f.what \in BrowseKinds
  PROVE  /\ BrowseState(Answered(f)) /\ Kept(flight, flight \ {f}, BrowseKinds)
         /\ Answered(f) = [b |-> browse, commands |-> flight \ {f}]
         /\ Answered(f).b = browse /\ Answered(f).commands = flight \ {f}
         /\ f.gen = browse.gen =>
              /\ InFront = "browse" /\ Awaited(f, browse)
              /\ \A g \in flight \ {f} : ~Current(g, BrowseKinds, browse.gen)
  <1>1. /\ BrowseState(Here) /\ Here.b = browse /\ Here.commands = flight /\ browse = [x \in BrowseFields |-> browse[x]]
        /\ \A g \in flight : Current(g, BrowseKinds, browse.gen) => InFront = "browse" /\ Awaited(g, browse)
    BY BrowseIs
  <1>2. Answered(f) = [b |-> browse, commands |-> flight \ {f}]
    BY DEF Answered, Here
  <1>3. Answered(f).b = browse /\ Answered(f).commands = flight \ {f}
    BY <1>2
  <1>4. Group(flight, BrowseKinds, browse.gen, browse.cancel) /\ \A g \in flight : IsCommand(g)
    BY <1>1 DEF BrowseState
  <1>5. /\ Group(flight \ {f}, BrowseKinds, browse.gen, browse.cancel)
        /\ Current(f, BrowseKinds, browse.gen) => \A g \in flight \ {f} : ~Current(g, BrowseKinds, browse.gen)
        /\ Kept(flight, flight \ {f}, BrowseKinds)
    BY <1>4, GroupTaken
  <1>6. BrowseState(Answered(f))
    BY <1>1, <1>2, <1>3, <1>4, <1>5 DEF BrowseState
  <1>7. f.gen = browse.gen => Current(f, BrowseKinds, browse.gen)
    BY DEF Current
  <1> QED BY <1>1, <1>2, <1>3, <1>5, <1>6, <1>7

\* An answer that only takes the command away.
LEMMA AnsweredStep ==
  ASSUME IInv, ~quitting, UNCHANGED <<view, prevView, extractReturn, quitting, find, diff>>,
         NEW f \in flight, f.what \in BrowseKinds, Become(Answered(f))
  PROVE  IInv'
  <1>1. /\ BrowseState(Answered(f)) /\ Kept(flight, flight \ {f}, BrowseKinds)
        /\ Answered(f).b = browse /\ Answered(f).commands = flight \ {f}
    BY AnsweredIs
  <1>2. /\ BrowseSound(browse) /\ (browse.searching => view = "browse")
        /\ \A g \in flight : Current(g, BrowseKinds, browse.gen) => InFront = "browse" /\ Awaited(g, browse)
    BY BrowseIs
  <1>3. InFront' = InFront /\ Base' = Base
    BY DEF InFront, Base
  <1>4. Base' \notin {"browse", "find"} =>
           browse.rows = NoRows /\ browse.found = NoRows /\ DOMAIN browse.cache = {} /\ ~browse.searching /\ ~browse.suspended
    BY <1>3 DEF IInv, BrowseInv
  <1> QED BY <1>1, <1>2, <1>3, <1>4, BrowseStep

LEMMA DropBrowseKeeps ==
  ASSUME IInv, NEW f \in flight, DropBrowse(f), UNCHANGED <<find, diff>>
  PROVE  IInv'
  BY AnsweredStep DEF DropBrowse, Message

LEMMA ApplyIndexedKeeps ==
  ASSUME IInv, NEW f \in flight, ApplyIndexed(f), UNCHANGED <<find, diff>>
  PROVE  IInv'
  <1> DEFINE c == [browse EXCEPT !.indexed = TRUE]
             s == [Answered(f) EXCEPT !.b = [@ EXCEPT !.indexed = TRUE]]
  <1>1. /\ ~quitting /\ f.what = "index" /\ f.gen = browse.gen /\ UNCHANGED <<prevView, extractReturn, quitting>>
        /\ \/ Become(BeginListDir(s, <<>>)) /\ UNCHANGED view
           \/ Become(ClearBrowse(Supersede(Answered(f)))) /\ view' = "detail"
    BY DEF ApplyIndexed, Message
  <1>2. f.what \in BrowseKinds
    BY <1>1 DEF BrowseKinds
  <1>3. /\ BrowseState(Answered(f)) /\ Kept(flight, flight \ {f}, BrowseKinds)
        /\ Answered(f) = [b |-> browse, commands |-> flight \ {f}]
        /\ Answered(f).b = browse /\ Answered(f).commands = flight \ {f}
        /\ InFront = "browse" /\ Awaited(f, browse)
    BY <1>1, <1>2, AnsweredIs
  <1>4. BrowseSound(browse) /\ browse = [x \in BrowseFields |-> browse[x]]
    BY BrowseIs
  <1>5. CASE Become(BeginListDir(s, <<>>)) /\ UNCHANGED view
    <2>1. s = [b |-> c, commands |-> flight \ {f}]
      <3> DEFINE a == Answered(f)
                 d == [a.b EXCEPT !.indexed = TRUE]
      <3>1. a = [b |-> browse, commands |-> flight \ {f}]
        BY <1>3
      <3>2. d = c
        BY <1>3
      <3> HIDE DEF a, c, d
      <3>3. [a EXCEPT !.b = d] = [b |-> c, commands |-> flight \ {f}]
        BY ONLY <3>1, <3>2
      <3> QED BY ONLY <3>3 DEF a, d
    <2>2. /\ c = [x \in BrowseFields |-> c[x]] /\ c.gen = browse.gen /\ c.cancel = browse.cancel
          /\ c.searching = browse.searching /\ c.suspended = browse.suspended /\ c.loading = browse.loading /\ c.indexed = TRUE
          /\ c.rows = browse.rows /\ c.dir = browse.dir /\ c.snap = browse.snap /\ c.cache = browse.cache
          /\ c.query = browse.query /\ c.shown = browse.shown /\ c.found = browse.found
      BY <1>4 DEF BrowseFields
    <2>3. ~browse.searching
      BY <1>1, <1>3 DEF Awaited
    <2>4. Become(BeginListDir(s, <<>>)) /\ UNCHANGED view
      BY <1>5
    <2> HIDE DEF c, s
    <2>5. s.b = c /\ s.commands = flight \ {f}
      BY <2>1
    <2>6. BrowseState(s)
      BY <1>3, <2>1, <2>2, <2>5 DEF BrowseState
    <2>7. BrowseSound(c)
      <3>1. BrowseSound(browse)
        BY <1>4
      <3>2. /\ browse.searching \in BOOLEAN /\ browse.suspended \in BOOLEAN /\ browse.loading \in BOOLEAN
            /\ browse.rows # NoRows => browse.rows = [snap |-> browse.snap, dir |-> browse.dir]
            /\ \A dir \in DOMAIN browse.cache : browse.cache[dir] = [snap |-> browse.snap, dir |-> dir]
            /\ browse.found # NoRows => browse.found = [snap |-> browse.snap, query |-> browse.shown]
            /\ browse.searching => ~browse.suspended /\ ~browse.loading
            /\ browse.suspended => browse.shown = browse.query /\ browse.found # NoRows
        BY ONLY <3>1 DEF BrowseSound
      <3> QED BY ONLY <2>2, <3>2 DEF BrowseSound
    <2>8. c.indexed /\ ~c.searching /\ Kept(flight, s.commands, BrowseKinds)
      BY <1>3, <2>2, <2>3, <2>5
    <2> QED BY <1>1, <1>3, <2>4, <2>5, <2>6, <2>7, <2>8, ListDirStep
  <1>6. CASE Become(ClearBrowse(Supersede(Answered(f)))) /\ view' = "detail"
    <2>1. Kept(flight, Answered(f).commands, BrowseKinds)
      BY <1>3
    <2> HIDE DEF s
    <2>2. UNCHANGED <<prevView, extractReturn, quitting, find, diff>> /\ ~quitting
      BY <1>1
    <2> QED BY <1>3, <1>6, <2>1, <2>2, BrowseLeft
  <1> QED BY <1>1, <1>5, <1>6

LEMMA ApplyDirKeeps ==
  ASSUME IInv, NEW f \in flight, ApplyDir(f), UNCHANGED <<find, diff>>
  PROVE  IInv'
  <1>1. /\ ~quitting /\ f.what = "dir" /\ f.gen = browse.gen /\ UNCHANGED <<view, prevView, extractReturn, quitting>>
        /\ Become(Listed(f)) \/ Become(Loading(Answered(f), FALSE))
    BY DEF ApplyDir, Message
  <1>2. f.what \in BrowseKinds
    BY <1>1 DEF BrowseKinds
  <1>3. /\ BrowseState(Answered(f)) /\ Kept(flight, flight \ {f}, BrowseKinds)
        /\ Answered(f) = [b |-> browse, commands |-> flight \ {f}]
        /\ Answered(f).b = browse /\ Answered(f).commands = flight \ {f}
        /\ InFront = "browse" /\ Awaited(f, browse)
        /\ \A g \in flight \ {f} : ~Current(g, BrowseKinds, browse.gen)
    BY <1>1, <1>2, AnsweredIs
  <1>4. BrowseSound(browse) /\ browse = [x \in BrowseFields |-> browse[x]]
    BY BrowseIs
  <1>5. browse.loading /\ ~browse.searching /\ browse.indexed /\ f.ask.snap = browse.snap
    BY <1>1, <1>3 DEF Awaited
  <1>6. Base' = "browse" /\ InFront' = "browse"
    BY <1>1, <1>3 DEF Base, InFront
  <1>7. CASE Become(Listed(f))
    <2> DEFINE rows == [snap |-> f.ask.snap, dir |-> f.ask.dir]
               cache == [d \in {f.ask.dir} \cup DOMAIN browse.cache |-> IF d = f.ask.dir THEN rows ELSE browse.cache[d]]
               c == [browse EXCEPT !.loading = FALSE, !.dir = f.ask.dir, !.rows = rows, !.cache = cache]
    <2>1. Listed(f) = [b |-> c, commands |-> flight \ {f}]
      BY <1>3 DEF Listed
    <2>2. \A d \in DOMAIN cache : cache[d] = [snap |-> browse.snap, dir |-> d]
      BY <1>4, <1>5 DEF BrowseSound
    <2>3. rows = [snap |-> browse.snap, dir |-> f.ask.dir]
      BY <1>5
    <2> HIDE DEF rows, cache
    <2>4. /\ c = [x \in BrowseFields |-> c[x]] /\ c.gen = browse.gen /\ c.cancel = browse.cancel
          /\ c.searching = browse.searching /\ c.suspended = browse.suspended /\ c.loading = FALSE /\ c.indexed = browse.indexed
          /\ c.rows = rows /\ c.dir = f.ask.dir /\ c.snap = browse.snap /\ c.cache = cache
          /\ c.query = browse.query /\ c.shown = browse.shown /\ c.found = browse.found
      BY <1>4 DEF BrowseFields
    <2> HIDE DEF c
    <2> DEFINE t == Listed(f)
    <2>5. t = [b |-> c, commands |-> flight \ {f}] /\ Become(t)
      BY <1>7, <2>1
    <2> HIDE DEF t
    <2>6. t.b = c /\ t.commands = flight \ {f}
      BY <2>5
    <2>7. BrowseState(t)
      BY <1>3, <2>4, <2>5, <2>6 DEF BrowseState
    <2>8. BrowseSound(c) /\ ~c.searching
      <3>1. BrowseSound(browse) /\ browse.indexed /\ ~browse.searching
        BY <1>4, <1>5
      <3> QED BY ONLY <3>1, <2>2, <2>3, <2>4 DEF BrowseSound
    <2> QED BY <1>1, <1>3, <1>6, <2>4, <2>5, <2>6, <2>7, <2>8, BrowseStep
  <1>8. CASE Become(Loading(Answered(f), FALSE))
    <2> DEFINE t == Loading(Answered(f), FALSE)
    <2>1. BrowseState(t) /\ t.commands = flight \ {f} /\ t.b = [browse EXCEPT !.loading = FALSE]
      BY <1>3, LoadingIs
    <2>2. Become(t)
      BY <1>8
    <2> HIDE DEF t
    <2>3. /\ t.b.gen = browse.gen
          /\ t.b.searching = browse.searching /\ t.b.suspended = browse.suspended /\ t.b.loading = FALSE
          /\ t.b.indexed = browse.indexed
          /\ t.b.rows = browse.rows /\ t.b.dir = browse.dir /\ t.b.snap = browse.snap /\ t.b.cache = browse.cache
          /\ t.b.query = browse.query /\ t.b.shown = browse.shown /\ t.b.found = browse.found
      BY <1>4, <2>1 DEF BrowseFields
    <2>4. BrowseSound(t.b) /\ ~t.b.searching
      <3>1. BrowseSound(browse) /\ ~browse.searching
        BY <1>4, <1>5
      <3> QED BY ONLY <3>1, <2>3 DEF BrowseSound
    <2> QED BY <1>1, <1>3, <1>6, <2>1, <2>2, <2>3, <2>4, BrowseStep
  <1> QED BY <1>1, <1>7, <1>8

LEMMA ApplySearchKeeps ==
  ASSUME IInv, NEW f \in flight, ApplySearch(f), UNCHANGED <<find, diff>>
  PROVE  IInv'
  <1>1. /\ ~quitting /\ f.what = "search" /\ f.gen = browse.gen /\ UNCHANGED <<view, prevView, extractReturn, quitting>>
        /\ \/ \E rows \in {NoRows, f.ask} :
                 Become([Answered(f) EXCEPT !.b = [@ EXCEPT !.shown = f.ask.query, !.found = rows]])
           \/ Become(Answered(f))
    BY DEF ApplySearch, Message
  <1>2. f.what \in BrowseKinds
    BY <1>1 DEF BrowseKinds
  <1>3. /\ BrowseState(Answered(f)) /\ Kept(flight, flight \ {f}, BrowseKinds)
        /\ Answered(f) = [b |-> browse, commands |-> flight \ {f}]
        /\ InFront = "browse" /\ Awaited(f, browse)
        /\ \A g \in flight \ {f} : ~Current(g, BrowseKinds, browse.gen)
    BY <1>1, <1>2, AnsweredIs
  <1>4. BrowseSound(browse) /\ browse = [x \in BrowseFields |-> browse[x]] /\ (browse.searching => view = "browse")
    BY BrowseIs
  <1>5. browse.searching /\ browse.indexed /\ f.ask = [snap |-> browse.snap, query |-> browse.query]
    BY <1>1, <1>3 DEF Awaited
  <1>6. Base' = "browse" /\ view' = "browse"
    BY <1>1, <1>4, <1>5 DEF Base, InFront
  <1>7. CASE Become(Answered(f))
    BY <1>1, <1>2, <1>7, AnsweredStep
  <1>8. ASSUME NEW rows \in {NoRows, f.ask},
               Become([Answered(f) EXCEPT !.b = [@ EXCEPT !.shown = f.ask.query, !.found = rows]])
        PROVE  IInv'
    <2> DEFINE c == [browse EXCEPT !.shown = f.ask.query, !.found = rows]
               t == [Answered(f) EXCEPT !.b = [@ EXCEPT !.shown = f.ask.query, !.found = rows]]
    <2>1. t = [b |-> c, commands |-> flight \ {f}]
      BY <1>3
    <2>2. f.ask.query = browse.query /\ (rows # NoRows => rows = [snap |-> browse.snap, query |-> browse.query])
      BY <1>5
    <2>3. /\ c = [x \in BrowseFields |-> c[x]] /\ c.gen = browse.gen /\ c.cancel = browse.cancel
          /\ c.searching = browse.searching /\ c.suspended = browse.suspended /\ c.loading = browse.loading
          /\ c.indexed = browse.indexed
          /\ c.rows = browse.rows /\ c.dir = browse.dir /\ c.snap = browse.snap /\ c.cache = browse.cache
          /\ c.query = browse.query /\ c.shown = browse.query /\ c.found = rows
      BY <1>4, <2>2 DEF BrowseFields
    <2>4. Become(t)
      BY <1>8
    <2> HIDE DEF c, t
    <2>5. t.b = c /\ t.commands = flight \ {f}
      BY <2>1
    <2>6. BrowseState(t)
      <3>1. /\ \A g \in flight \ {f} : IsCommand(g)
            /\ Group(flight \ {f}, BrowseKinds, browse.gen, browse.cancel)
        BY <1>3 DEF BrowseState
      <3> QED BY <2>1, <2>3, <2>5, <3>1 DEF BrowseState
    <2>7. BrowseSound(c) /\ c.searching
      <3>1. BrowseSound(browse) /\ browse.searching
        BY <1>4, <1>5
      <3> QED BY ONLY <3>1, <2>2, <2>3 DEF BrowseSound
    <2> QED BY <1>1, <1>3, <1>6, <2>3, <2>4, <2>5, <2>6, <2>7, BrowseStep
  <1> QED BY <1>1, <1>7, <1>8

LEMMA BrowseAnswerKeeps ==
  ASSUME IInv, NEW f \in flight, BrowseAnswer(f), UNCHANGED <<find, diff>>
  PROVE  IInv'
  BY DropBrowseKeeps, ApplyIndexedKeeps, ApplyDirKeeps, ApplySearchKeeps DEF BrowseAnswer

LEMMA BrowseKeysKeep == ASSUME IInv, BrowseKeys, UNCHANGED <<find, diff>> PROVE IInv'
  BY StartBrowseKeeps, BrowseBackKeeps, RestoreSearchKeeps, OpenDirKeeps, ParentDirKeeps, OpenSearchKeeps,
     EditQueryKeeps, AcceptSearchKeeps, LeaveSearchKeeps DEF BrowseKeys

-----------------------------------------------------------------------------
(* Screens. *)

\* Only the screen in front changes.
LEMMA ScreenStep ==
  ASSUME IInv, NavInv', UNCHANGED <<browse, find, diff, flight, quitting>>,
         InFront = "browse" /\ (browse.loading \/ browse.searching) => InFront' = "browse",
         browse.searching => view' = "browse",
         InFront = "find" /\ FindLoading => InFront' = "find",
         InFront = "diff" /\ DiffLoading => InFront' = "diff",
         (InFront' = "diffInfo") <=> (InFront = "diffInfo"),
         Base' = Base \/ (Base \in {"list", "detail", "info"} /\ Base' \in {"list", "detail", "info"})
  PROVE  IInv'
  <1>1. \A K : Of(flight', K) = Of(flight, K)
    OBVIOUS
  <1>2. BrowseInv'
    BY <1>1, BrowseFrame DEF IInv
  <1>3. FindInv'
    BY <1>1, FindFrame DEF IInv
  <1>4. DiffInv'
    BY <1>1, DiffFrame DEF IInv
  <1>5. FlightInv'
    BY DEF IInv, FlightInv, Group
  <1> QED BY <1>2, <1>3, <1>4, <1>5 DEF IInv

LEMMA HelpKeeps == ASSUME IInv, ToggleHelp(Typing), UNCHANGED <<browse, find, diff>> PROVE IInv'
  <1>1. NavInv
    BY DEF IInv
  <1>2. /\ ~browse.searching /\ UNCHANGED <<extractReturn, quitting, flight>>
        /\ \/ view = "help" /\ view' = prevView /\ prevView' = prevView
           \/ view # "help" /\ view' = "help" /\ prevView' = view
    BY DEF ToggleHelp, Typing
  <1>3. InFront' = InFront
    BY <1>1, <1>2 DEF InFront, NavInv, Views
  <1>4. Base' = Base /\ NavInv'
    BY <1>1, <1>2, <1>3 DEF Base, NavInv, Views
  <1> QED BY <1>2, <1>3, <1>4, ScreenStep

LEMMA GoBackKeeps == ASSUME IInv, GoBack, UNCHANGED <<browse, find, diff>> PROVE IInv'
  <1>1. NavInv
    BY DEF IInv
  <1>2. /\ UNCHANGED <<prevView, extractReturn, quitting, flight>>
        /\ (view = "help" /\ view' = prevView) \/ (view = "info" /\ view' = "detail")
    BY DEF GoBack
  <1>3. InFront' = InFront \/ (InFront = "info" /\ InFront' = "detail")
    BY <1>1, <1>2 DEF InFront, NavInv, Views
  <1>4. NavInv' /\ (Base' = Base \/ (Base = "info" /\ Base' = "detail"))
    BY <1>1, <1>2, <1>3 DEF Base, NavInv, Views
  <1>5. ~browse.searching
    BY <1>2, BrowseIs
  <1> QED BY <1>2, <1>3, <1>4, <1>5, ScreenStep

LEMMA OpenExtractKeeps ==
  ASSUME IInv, NEW v \in {"detail", "browse", "find", "diff"}, OpenExtract(v), UNCHANGED <<browse, find, diff>>,
         v = "browse" => ~browse.loading /\ ~browse.searching,
         v = "find" => ~FindLoading,
         v = "diff" => ~DiffLoading
  PROVE  IInv'
  <1>1. NavInv
    BY DEF IInv
  <1>2. /\ view = v /\ view' = "extract" /\ extractReturn' = v
        /\ UNCHANGED <<prevView, quitting, flight>>
    BY DEF OpenExtract
  <1>3. InFront = v /\ InFront' = "extract"
    BY <1>2 DEF InFront
  <1>4. NavInv' /\ Base' = Base
    BY <1>1, <1>2, <1>3 DEF Base, NavInv, Views
  <1>5. ~browse.searching
    BY <1>2, BrowseIs
  <1> QED BY <1>2, <1>3, <1>4, <1>5, ScreenStep

LEMMA ExtractClosesKeeps == ASSUME IInv, ExtractCloses, UNCHANGED <<browse, find, diff>> PROVE IInv'
  <1>1. NavInv
    BY DEF IInv
  <1>2. /\ InFront = "extract" /\ extractReturn' = "list" /\ UNCHANGED <<prevView, quitting, flight>>
        /\ view' = extractReturn
    BY <1>1 DEF ExtractCloses, NavInv
  <1>3. InFront' = extractReturn /\ extractReturn \in {"detail", "browse", "find", "diff"}
    BY <1>1, <1>2 DEF InFront, NavInv
  <1>4. NavInv' /\ Base' = Base
    BY <1>1, <1>2, <1>3 DEF Base, NavInv, Views
  <1>5. ~browse.searching
    BY <1>2, BrowseIs DEF InFront
  <1> QED BY <1>2, <1>3, <1>4, <1>5, ScreenStep

LEMMA DetailKeeps == ASSUME IInv, DetailNext, UNCHANGED <<browse, find, diff>> PROVE IInv'
  <1>1. NavInv
    BY DEF IInv
  <1>2. /\ UNCHANGED <<prevView, extractReturn, quitting, flight>>
        /\ view' = view \/ (view \in {"list", "detail"} /\ view' \in {"list", "detail", "info"})
    BY DEF DetailNext, EnterDetail, LeaveDetail, MoveCursor, ToggleDetailMark, CycleSnapGroup, CycleSnapCollapse, OpenInfo,
           ApplyRefreshed, ScreenKept, InDetail, AtDetail
  <1>3. InFront' = InFront \/ (InFront \in {"list", "detail"} /\ InFront' \in {"list", "detail", "info"})
    BY <1>2 DEF InFront
  <1>4. NavInv' /\ (Base' = Base \/ (Base \in {"list", "detail"} /\ Base' \in {"list", "detail", "info"}))
    <2>1. InFront' = "extract" => InFront = "extract"
      BY <1>3
    <2> QED BY <1>1, <1>2, <1>3, <2>1 DEF Base, NavInv, Views
  <1>5. browse.searching => view' = "browse"
    BY <1>2, BrowseIs
  <1> QED BY <1>2, <1>3, <1>4, <1>5, ScreenStep

\* Quitting closes every context and changes nothing else.
LEMMA QuitKeeps == ASSUME IInv, Quit, UNCHANGED <<browse, find, diff>> PROVE IInv'
  <1> DEFINE off(g) == [g EXCEPT !.live = FALSE]
  <1>1. /\ quitting' = TRUE /\ UNCHANGED <<view, prevView, extractReturn>>
        /\ flight' = {off(g) : g \in flight}
    BY DEF Quit
  <1>2. \A g \in flight : /\ IsCommand(off(g)) /\ off(g).live = FALSE
                          /\ off(g).what = g.what /\ off(g).gen = g.gen /\ off(g).ask = g.ask
    <2> TAKE g \in flight
    <2>1. g \in [what : BrowseKinds \cup {"find", "diff", "info"}, gen : Nat \ {0}, ask : {g.ask}, live : BOOLEAN]
      BY DEF IInv, FlightInv, IsCommand
    <2>2. /\ off(g) \in [what : BrowseKinds \cup {"find", "diff", "info"}, gen : Nat \ {0}, ask : {g.ask}, live : BOOLEAN]
          /\ off(g).live = FALSE /\ off(g).what = g.what /\ off(g).gen = g.gen /\ off(g).ask = g.ask
      BY <2>1
    <2> HIDE DEF off
    <2> QED BY <2>2 DEF IsCommand
  <1> HIDE DEF off
  <1>3. \A f \in flight' : /\ IsCommand(f) /\ f.live = FALSE
                           /\ \E g \in flight : f = off(g) /\ f.what = g.what /\ f.gen = g.gen /\ f.ask = g.ask
    BY <1>1, <1>2
  <1>4. ASSUME NEW K, NEW gen, NEW h, Group(flight, K, gen, h) PROVE Group(flight', K, gen, h)
    BY <1>3, <1>4 DEF Group, Of
  <1>5. FlightInv'
    BY <1>3, <1>4 DEF IInv, FlightInv
  <1>6. InFront' = InFront /\ Base' = Base /\ NavInv'
    BY <1>1 DEF IInv, NavInv, InFront, Base
  <1>7. BrowseInv'
    <2>1. BrowseAnswersQuestion'
      BY <1>1 DEF IInv, BrowseInv, BrowseAnswersQuestion
    <2>2. ASSUME NEW f \in flight', Current(f, BrowseKinds, browse.gen) PROVE BrowseAwaits(f)'
      <3>1. PICK g \in flight : f.what = g.what /\ f.gen = g.gen /\ f.ask = g.ask
        BY <1>3
      <3>2. BrowseAwaits(g)
        BY <2>2, <3>1 DEF IInv, BrowseInv, Current
      <3> QED BY <1>6, <3>1, <3>2 DEF BrowseAwaits
    <2> QED BY <1>6, <2>1, <2>2 DEF IInv, BrowseInv, Current, BrowseFields
  <1>8. FindInv'
    <2>1. FindAnswersQuestion' /\ FindLoading' = FindLoading
      BY <1>1, <1>6 DEF IInv, FindInv, FindAnswersQuestion, FindLoading
    <2>2. ASSUME NEW f \in flight', Current(f, {"find"}, find.gen)
          PROVE  FindLoading /\ InFront = "find" /\ f.ask = [path |-> find.path, host |-> find.host, all |-> find.all]
      <3>1. PICK g \in flight : f.what = g.what /\ f.gen = g.gen /\ f.ask = g.ask
        BY <1>3
      <3> QED BY <2>2, <3>1 DEF IInv, FindInv, Current
    <2> QED BY <1>6, <2>1, <2>2 DEF IInv, FindInv, Current, FindFields
  <1>9. DiffInv'
    <2>1. DiffLoading' = DiffLoading /\ InfoLoading' = InfoLoading
      BY DEF DiffLoading, InfoLoading
    <2>2. DiffAnswersQuestion' /\ NoInfo' = NoInfo /\ (Sides => Sides') /\ (IsTree(diff.tree) => IsTree(diff.tree)')
      BY <1>6, <2>1 DEF IInv, DiffInv, DiffAnswersQuestion, NoInfo, Sides, IsTree
    <2>3. ASSUME NEW f \in flight', Current(f, {"diff"}, diff.gen)
          PROVE  DiffLoading /\ InFront = "diff" /\ f.ask.older # 0 /\ f.ask.newer # 0 /\ f.ask.meta \in BOOLEAN
      <3>1. PICK g \in flight : f.what = g.what /\ f.gen = g.gen /\ f.ask = g.ask
        BY <1>3
      <3> QED BY <2>3, <3>1 DEF IInv, DiffInv, Current
    <2>4. ASSUME NEW f \in flight', Current(f, {"info"}, diff.infoGen)
          PROVE  /\ InfoLoading /\ InFront = "diffInfo"
                 /\ f.ask.first \in {0, IF diff.first.want THEN diff.older ELSE 0}
                 /\ f.ask.second \in {0, IF diff.second.want THEN diff.newer ELSE 0}
      <3>1. PICK g \in flight : f.what = g.what /\ f.gen = g.gen /\ f.ask = g.ask
        BY <1>3
      <3> QED BY <2>4, <3>1 DEF IInv, DiffInv, Current
    <2> QED BY <1>6, <2>1, <2>2, <2>3, <2>4 DEF IInv, DiffInv, Current, DiffFields
  <1> QED BY <1>5, <1>6, <1>7, <1>8, <1>9 DEF IInv

LEMMA NavigateKeeps == ASSUME IInv, Navigate PROVE IInv'
  <1>1. UNCHANGED <<browse, find, diff>>
    BY DEF Navigate
  <1>2. CASE InDetail /\ OpenExtract("detail")
    BY <1>1, <1>2, OpenExtractKeeps
  <1>3. CASE Idle /\ browse.rows # NoRows /\ OpenExtract("browse")
    BY <1>1, <1>3, OpenExtractKeeps DEF Idle, InBrowse
  <1>4. CASE ~FindLoading /\ find.rows # NoRows /\ OpenExtract("find")
    BY <1>1, <1>4, OpenExtractKeeps
  <1>5. CASE DiffIdle /\ OpenExtract("diff")
    BY <1>1, <1>5, OpenExtractKeeps DEF DiffIdle
  <1> QED BY <1>1, <1>2, <1>3, <1>4, <1>5, HelpKeeps, QuitKeeps, GoBackKeeps, ExtractClosesKeeps DEF Navigate

-----------------------------------------------------------------------------
(* Find: its helpers and its steps. *)

FindState(s) ==
    /\ s = [find |-> s.find, commands |-> s.commands]
    /\ s.find = [x \in FindFields |-> s.find[x]]
    /\ \A f \in s.commands : IsCommand(f)
    /\ Group(s.commands, {"find"}, s.find.gen, s.find.cancel)

FindSound(x) ==
    /\ x.all \in BOOLEAN /\ x.resultAll \in BOOLEAN
    /\ x.rows # NoRows =>
         /\ x.rows.path = x.path /\ x.rows.all = x.resultAll
         /\ x.resultHost = (IF x.rows.all THEN 0 ELSE x.rows.host)
         /\ x.rows.all \/ (x.rows.host = x.host /\ x.host # 0)
         /\ x.cancel = 0 => x.rows.all = x.all

LEMMA FindIs ==
  ASSUME IInv
  PROVE  /\ FindState(FindNow) /\ FindSound(find) /\ FindNow.find = find /\ FindNow.commands = flight
         /\ FindNow = [find |-> find, commands |-> flight]
         /\ find = [x \in FindFields |-> find[x]]
  <1>1. FindNow = [find |-> find, commands |-> flight] /\ FindNow.find = find /\ FindNow.commands = flight
    BY DEF FindNow
  <1>2. find = [x \in FindFields |-> find[x]]
    BY DEF IInv, FindInv
  <1>3. FindState(FindNow)
    BY <1>1, <1>2 DEF FindState, IInv, FlightInv
  <1>4. FindSound(find)
    BY DEF IInv, FindInv, FindAnswersQuestion, FindSound, FindLoading
  <1> QED BY <1>1, <1>2, <1>3, <1>4

LEMMA FindStep ==
  ASSUME IInv, ~quitting, UNCHANGED <<prevView, extractReturn, quitting, browse, diff>>,
         view' = view \/ (view \in {"browse", "find"} /\ view' \in {"browse", "find"}),
         view = "browse" => view' = "browse" \/ (~browse.loading /\ ~browse.searching),
         NEW t, FindState(t), Have(t), Kept(flight, t.commands, {"find"}), FindSound(t.find),
         Base' = "find" /\ t.find.cancel = 0 => t.find.rows # NoRows \/ t.find.err # "",
         Base' # "find" => t.find.rows = NoRows /\ t.find.path = <<>> /\ t.find.cancel = 0,
         \A f \in t.commands : Current(f, {"find"}, t.find.gen) =>
           /\ t.find.cancel # 0 /\ InFront' = "find"
           /\ f.ask = [path |-> t.find.path, host |-> t.find.host, all |-> t.find.all]
  PROVE  IInv'
  <1>1. find' = t.find /\ flight' = t.commands
    BY DEF Have
  <1>2. InFront' = InFront \/ (InFront \in {"browse", "find"} /\ InFront' \in {"browse", "find"})
    BY DEF InFront
  <1>3. Base' = Base \/ (Base \in {"browse", "find"} /\ Base' \in {"browse", "find"})
    BY <1>2 DEF Base
  <1>4. NavInv'
    <2>1. InFront' = "extract" => InFront = "extract"
      BY <1>2
    <2> QED BY <2>1 DEF IInv, NavInv, Views
  <1>5. /\ Of(flight', BrowseKinds) = Of(flight, BrowseKinds) /\ Of(flight', {"diff"}) = Of(flight, {"diff"})
        /\ Of(flight', {"info"}) = Of(flight, {"info"})
    <2>1. BrowseKinds \cap {"find"} = {} /\ {"diff"} \cap {"find"} = {} /\ {"info"} \cap {"find"} = {}
      BY DEF BrowseKinds
    <2> QED BY <1>1, <2>1 DEF Kept
  <1>6. BrowseInv'
    <2>1. browse.searching => view' = "browse"
      BY BrowseIs
    <2>2. InFront = "browse" /\ (browse.loading \/ browse.searching) => InFront' = "browse"
      BY DEF InFront
    <2>3. Base' \notin {"browse", "find"} => Base \notin {"browse", "find"}
      BY <1>3
    <2> QED BY <1>5, <2>1, <2>2, <2>3, BrowseFrame DEF IInv
  <1>7. DiffInv'
    BY <1>2, <1>3, <1>5, DiffFrame DEF IInv
  <1>8. FlightInv'
    <2>1. Group(flight', {"find"}, find'.gen, find'.cancel) /\ \A f \in flight' : IsCommand(f)
      BY <1>1 DEF FindState
    <2>2. /\ Group(flight', BrowseKinds, browse.gen, browse.cancel)
          /\ Group(flight', {"diff"}, diff.gen, diff.cancel)
          /\ Group(flight', {"info"}, diff.infoGen, diff.infoCancel)
      BY <1>5, GroupOf DEF IInv, FlightInv
    <2> QED BY <2>1, <2>2 DEF FlightInv
  <1>9. FindInv'
    <2>1. find' = [x \in FindFields |-> find'[x]]
      BY <1>1 DEF FindState
    <2>2. FindLoading' <=> t.find.cancel # 0
      BY <1>1 DEF FindLoading
    <2>3. InFront' = "find" => Base' = "find"
      BY DEF Base
    <2>4. view' \in {"list", "detail", "browse"} => Base' # "find"
      BY DEF Base, InFront
    <2>5. FindAnswersQuestion'
      BY <1>1, <2>2, <2>3, <2>4 DEF FindAnswersQuestion, FindSound
    <2> QED BY <1>1, <2>1, <2>2, <2>5 DEF FindInv, FindSound, Current, FindFields
  <1> QED BY <1>4, <1>6, <1>7, <1>8, <1>9 DEF IInv

LEMMA FindSuperseded ==
  ASSUME NEW s, FindState(s)
  PROVE  /\ FindState(SupersedeFind(s)) /\ Kept(s.commands, SupersedeFind(s).commands, {"find"})
         /\ SupersedeFind(s).find = [s.find EXCEPT !.gen = s.find.gen + 1, !.cancel = 0]
         /\ \A f \in SupersedeFind(s).commands : ~Current(f, {"find"}, s.find.gen + 1)
         /\ s.find.gen + 1 \in Nat \ {0}
  <1> DEFINE C == Cancelled(s.commands, {"find"}, s.find.cancel)
             c == [s.find EXCEPT !.gen = s.find.gen + 1, !.cancel = 0]
  <1>1. /\ Group(C, {"find"}, s.find.gen + 1, 0) /\ s.find.gen + 1 \in Nat \ {0}
        /\ \A f \in C : ~Current(f, {"find"}, s.find.gen + 1)
    BY GroupCancelled DEF FindState
  <1>2. (\A f \in C : IsCommand(f)) /\ Kept(s.commands, C, {"find"})
    BY CancelKeeps DEF FindState
  <1>3. SupersedeFind(s) = [find |-> c, commands |-> C]
    BY DEF SupersedeFind
  <1>4. c = [x \in FindFields |-> c[x]] /\ c.gen = s.find.gen + 1 /\ c.cancel = 0
    BY DEF FindState, FindFields
  <1> HIDE DEF C, c
  <1>5. SupersedeFind(s).find = c /\ SupersedeFind(s).commands = C
    BY <1>3
  <1>6. FindState(SupersedeFind(s))
    BY <1>1, <1>2, <1>3, <1>4, <1>5 DEF FindState
  <1> QED BY <1>1, <1>2, <1>5, <1>6 DEF c

\* t is what s becomes when its command is sent.
FindSent(s, t) ==
    /\ FindState(t) /\ Kept(s.commands, t.commands, {"find"})
    /\ t.find.gen = s.find.gen /\ t.find.cancel = s.find.gen
    /\ t.find.path = s.find.path /\ t.find.host = s.find.host /\ t.find.all = s.find.all /\ t.find.rows = s.find.rows
    /\ t.find.resultHost = s.find.resultHost /\ t.find.resultAll = s.find.resultAll
    /\ \A f \in t.commands : Current(f, {"find"}, t.find.gen) =>
         f.ask = [path |-> t.find.path, host |-> t.find.host, all |-> t.find.all]

LEMMA FindDispatched ==
  ASSUME NEW s, FindState(s), s.find.cancel = 0, s.find.gen \in Nat \ {0},
         \A f \in s.commands : ~Current(f, {"find"}, s.find.gen)
  PROVE  FindSent(s, DispatchFind(s))
  <1> DEFINE n == s.find.gen
             ask == [path |-> s.find.path, host |-> s.find.host, all |-> s.find.all]
             D == s.commands \cup {Command("find", n, ask)}
             c == [s.find EXCEPT !.cancel = n, !.err = ""]
  <1>1. DispatchFind(s) = [find |-> c, commands |-> D]
    BY DEF DispatchFind
  <1>2. /\ c = [x \in FindFields |-> c[x]] /\ c.gen = n /\ c.cancel = n
        /\ c.path = s.find.path /\ c.host = s.find.host /\ c.all = s.find.all /\ c.rows = s.find.rows
        /\ c.resultHost = s.find.resultHost /\ c.resultAll = s.find.resultAll
    BY DEF FindState, FindFields
  <1> HIDE DEF n, ask
  <1>3. /\ \A f \in D : IsCommand(f)
        /\ Group(D, {"find"}, n, n)
        /\ \A f \in D : Current(f, {"find"}, n) => f.what = "find" /\ f.ask = ask
        /\ Kept(s.commands, D, {"find"})
    <2>1. Group(s.commands, {"find"}, n, 0) /\ n \in Nat \ {0} /\ \A f \in s.commands : IsCommand(f)
      BY DEF FindState, n
    <2>2. \A f \in s.commands : ~Current(f, {"find"}, n)
      BY DEF n
    <2>3. {"find"} \subseteq BrowseKinds \cup {"find", "diff", "info"} /\ "find" \in {"find"}
      OBVIOUS
    <2> QED BY ONLY <2>1, <2>2, <2>3, GroupSent
  <1> HIDE DEF c, D
  <1>4. DispatchFind(s).find = c /\ DispatchFind(s).commands = D
    BY <1>1
  <1>5. FindState(DispatchFind(s))
    BY <1>1, <1>2, <1>3, <1>4 DEF FindState
  <1> QED BY <1>2, <1>3, <1>4, <1>5 DEF FindSent, n, ask

LEMMA FindCleared ==
  ASSUME NEW s, FindState(s), s.find.cancel = 0
  PROVE  LET t == ClearFind(s)
         IN  /\ FindState(t) /\ t.commands = s.commands
             /\ t.find = [s.find EXCEPT !.path = <<>>, !.host = 0, !.all = FALSE, !.resultHost = 0, !.resultAll = FALSE,
                                        !.rows = NoRows, !.err = "", !.cancel = 0]
  <1> DEFINE c == [s.find EXCEPT !.path = <<>>, !.host = 0, !.all = FALSE, !.resultHost = 0, !.resultAll = FALSE,
                                 !.rows = NoRows, !.err = "", !.cancel = 0]
  <1>1. ClearFind(s) = [find |-> c, commands |-> s.commands]
    <2>1. s = [find |-> s.find, commands |-> s.commands]
      BY DEF FindState
    <2> QED BY <2>1 DEF ClearFind
  <1>2. c = [x \in FindFields |-> c[x]] /\ c.gen = s.find.gen /\ c.cancel = 0
    BY DEF FindState, FindFields
  <1> HIDE DEF c
  <1>3. ClearFind(s).find = c /\ ClearFind(s).commands = s.commands
    BY <1>1
  <1>4. FindState(ClearFind(s))
    BY <1>1, <1>2, <1>3 DEF FindState
  <1> QED BY <1>3, <1>4 DEF c

LEMMA StartFindKeeps == ASSUME IInv, StartFind, UNCHANGED diff PROVE IInv'
  <1> DEFINE u == SupersedeFind(FindNow)
             fresh == ClearFind(u)
  <1>1. PICK host : /\ view = "browse" /\ ~browse.searching /\ ~browse.loading /\ ~quitting /\ view' = "find"
                    /\ UNCHANGED <<prevView, extractReturn, quitting, browse>>
                    /\ Have(DispatchFind([fresh EXCEPT !.find = [@ EXCEPT !.host = host, !.path = browse.rows.dir]]))
    BY DEF StartFind, Idle, InBrowse, Press
  <1>2. FindState(FindNow) /\ FindNow.find = find /\ FindNow.commands = flight /\ find = [x \in FindFields |-> find[x]]
    BY FindIs
  <1>3. /\ FindState(u) /\ Kept(flight, u.commands, {"find"})
        /\ u.find = [find EXCEPT !.gen = find.gen + 1, !.cancel = 0]
        /\ \A f \in u.commands : ~Current(f, {"find"}, find.gen + 1)
        /\ find.gen + 1 \in Nat \ {0}
    BY <1>2, FindSuperseded
  <1>4. u.find.gen = find.gen + 1 /\ u.find.cancel = 0 /\ u.find = [x \in FindFields |-> u.find[x]]
    BY <1>2, <1>3 DEF FindFields
  <1> HIDE DEF u
  <1>5. /\ FindState(fresh) /\ fresh.commands = u.commands
        /\ fresh.find = [u.find EXCEPT !.path = <<>>, !.host = 0, !.all = FALSE, !.resultHost = 0, !.resultAll = FALSE,
                                       !.rows = NoRows, !.err = "", !.cancel = 0]
    BY <1>3, <1>4, FindCleared
  <1> DEFINE c == [fresh.find EXCEPT !.host = host, !.path = browse.rows.dir]
             s == [fresh EXCEPT !.find = [@ EXCEPT !.host = host, !.path = browse.rows.dir]]
             t == DispatchFind(s)
  <1>6. Have(t)
    BY <1>1
  <1> HIDE DEF fresh
  <1>7. fresh = [find |-> fresh.find, commands |-> fresh.commands]
    BY <1>5 DEF FindState
  <1>8. s = [find |-> c, commands |-> fresh.commands]
    BY <1>7
  <1>9. /\ fresh.find = [x \in FindFields |-> fresh.find[x]] /\ fresh.find.gen = find.gen + 1 /\ fresh.find.cancel = 0
        /\ fresh.find.all = FALSE /\ fresh.find.resultAll = FALSE /\ fresh.find.rows = NoRows
    BY <1>4, <1>5 DEF FindFields
  <1>10. /\ c = [x \in FindFields |-> c[x]] /\ c.gen = find.gen + 1 /\ c.cancel = 0
         /\ c.all = FALSE /\ c.resultAll = FALSE /\ c.rows = NoRows
    BY <1>9 DEF FindFields
  <1> HIDE DEF c, s
  <1>11. s.find = c /\ s.commands = u.commands
    BY <1>5, <1>8
  <1>12. FindState(s)
    BY <1>5, <1>8, <1>9, <1>10, <1>11 DEF FindState
  <1>13. FindSent(s, t)
    BY <1>3, <1>10, <1>11, <1>12, FindDispatched
  <1> HIDE DEF t
  <1>14. /\ FindState(t) /\ Kept(u.commands, t.commands, {"find"})
         /\ t.find.cancel # 0 /\ t.find.all = FALSE /\ t.find.resultAll = FALSE /\ t.find.rows = NoRows
         /\ \A f \in t.commands : Current(f, {"find"}, t.find.gen) =>
              f.ask = [path |-> t.find.path, host |-> t.find.host, all |-> t.find.all]
    BY <1>3, <1>10, <1>11, <1>13 DEF FindSent
  <1>15. FindSound(t.find)
    BY <1>14 DEF FindSound
  <1>16. Kept(flight, t.commands, {"find"})
    BY <1>3, <1>14, KeptTwice
  <1>17. InFront' = "find" /\ Base' = "find"
    BY <1>1 DEF InFront, Base
  <1> QED BY <1>1, <1>6, <1>14, <1>15, <1>16, <1>17, FindStep

LEMMA HostToggleKeeps == ASSUME IInv, HostToggle, UNCHANGED diff PROVE IInv'
  <1> DEFINE c == [find EXCEPT !.all = ~find.all]
             s == [FindNow EXCEPT !.find.all = ~@]
             u == SupersedeFind(s)
             t == DispatchFind(u)
  <1>1. view = "find" /\ ~quitting /\ UNCHANGED <<view, prevView, extractReturn, quitting, browse>> /\ Have(t)
    BY DEF HostToggle, Press, Stay
  <1>2. /\ FindState(FindNow) /\ FindNow = [find |-> find, commands |-> flight] /\ FindSound(find)
        /\ find = [x \in FindFields |-> find[x]]
    BY FindIs
  <1>3. s = [find |-> c, commands |-> flight]
    BY <1>2 DEF FindNow
  <1>4. /\ c = [x \in FindFields |-> c[x]] /\ c.gen = find.gen /\ c.cancel = find.cancel
        /\ c.path = find.path /\ c.host = find.host /\ c.all = ~find.all
        /\ c.resultHost = find.resultHost /\ c.resultAll = find.resultAll /\ c.rows = find.rows
    BY <1>2 DEF FindFields
  <1> HIDE DEF c, s, t
  <1>5. s.find = c /\ s.commands = flight
    BY <1>3
  <1>6. FindState(s)
    <2>1. (\A f \in flight : IsCommand(f)) /\ Group(flight, {"find"}, find.gen, find.cancel)
      BY DEF IInv, FlightInv
    <2> QED BY <1>3, <1>4, <1>5, <2>1 DEF FindState
  <1>7. /\ FindState(u) /\ Kept(flight, u.commands, {"find"})
        /\ u.find = [c EXCEPT !.gen = c.gen + 1, !.cancel = 0]
        /\ \A f \in u.commands : ~Current(f, {"find"}, c.gen + 1)
        /\ c.gen + 1 \in Nat \ {0}
    BY <1>5, <1>6, FindSuperseded
  <1> HIDE DEF u
  <1>8. /\ u.find = [x \in FindFields |-> u.find[x]] /\ u.find.gen = c.gen + 1 /\ u.find.cancel = 0
        /\ u.find.path = find.path /\ u.find.host = find.host /\ u.find.all = ~find.all
        /\ u.find.resultHost = find.resultHost /\ u.find.resultAll = find.resultAll /\ u.find.rows = find.rows
    BY <1>4, <1>7, ZenonT(40) DEF FindFields
  <1>9. FindSent(u, t)
    <2>1. u.find.cancel = 0 /\ u.find.gen \in Nat \ {0} /\ \A f \in u.commands : ~Current(f, {"find"}, u.find.gen)
      BY ONLY <1>7, <1>8
    <2>2. FindSent(u, DispatchFind(u))
      BY ONLY <1>7, <2>1, FindDispatched
    <2> QED BY ONLY <2>2 DEF t
  <1>10. /\ FindState(t) /\ Kept(u.commands, t.commands, {"find"}) /\ t.find.cancel # 0
         /\ t.find.path = find.path /\ t.find.host = find.host /\ t.find.all = ~find.all
         /\ t.find.resultHost = find.resultHost /\ t.find.resultAll = find.resultAll /\ t.find.rows = find.rows
         /\ \A f \in t.commands : Current(f, {"find"}, t.find.gen) =>
              f.ask = [path |-> t.find.path, host |-> t.find.host, all |-> t.find.all]
    BY <1>7, <1>8, <1>9 DEF FindSent
  <1>11. FindSound(t.find)
    <2>1. FindSound(find)
      BY <1>2
    <2> QED BY ONLY <2>1, <1>10 DEF FindSound
  <1>12. Kept(flight, t.commands, {"find"})
    BY <1>7, <1>10, KeptTwice
  <1>13. InFront' = "find" /\ Base' = "find"
    BY <1>1 DEF InFront, Base
  <1> QED BY <1>1, <1>10, <1>11, <1>12, <1>13, FindStep

LEMMA FindBackKeeps == ASSUME IInv, FindBack, UNCHANGED diff PROVE IInv'
  <1> DEFINE u == SupersedeFind(FindNow)
             t == ClearFind(u)
  <1>1. /\ view = "find" /\ ~quitting /\ view' = "browse" /\ Have(t)
        /\ UNCHANGED <<prevView, extractReturn, quitting, browse>>
    BY DEF FindBack
  <1>2. FindState(FindNow) /\ FindNow.find = find /\ FindNow.commands = flight /\ find = [x \in FindFields |-> find[x]]
    BY FindIs
  <1>3. /\ FindState(u) /\ Kept(flight, u.commands, {"find"})
        /\ u.find = [find EXCEPT !.gen = find.gen + 1, !.cancel = 0]
        /\ \A f \in u.commands : ~Current(f, {"find"}, find.gen + 1)
    BY <1>2, FindSuperseded
  <1>4. u.find.gen = find.gen + 1 /\ u.find.cancel = 0 /\ u.find = [x \in FindFields |-> u.find[x]]
    BY <1>2, <1>3 DEF FindFields
  <1> HIDE DEF u
  <1>5. /\ FindState(t) /\ t.commands = u.commands
        /\ t.find = [u.find EXCEPT !.path = <<>>, !.host = 0, !.all = FALSE, !.resultHost = 0, !.resultAll = FALSE,
                                   !.rows = NoRows, !.err = "", !.cancel = 0]
    BY <1>3, <1>4, FindCleared
  <1> HIDE DEF t
  <1>6. /\ t.find.gen = find.gen + 1 /\ t.find.cancel = 0 /\ t.find.path = <<>>
        /\ t.find.all = FALSE /\ t.find.resultAll = FALSE /\ t.find.rows = NoRows
    BY <1>4, <1>5 DEF FindFields
  <1>7. FindSound(t.find)
    BY <1>6 DEF FindSound
  <1>8. InFront' = "browse" /\ Base' = "browse"
    BY <1>1 DEF InFront, Base
  <1>9. Kept(flight, t.commands, {"find"}) /\ \A f \in t.commands : ~Current(f, {"find"}, t.find.gen)
    BY <1>3, <1>5, <1>6
  <1>10. view = "find" /\ view' = "browse" /\ ~quitting
    BY <1>1
  <1>11. FindState(t) /\ Have(t) /\ UNCHANGED <<prevView, extractReturn, quitting, browse, diff>>
    BY <1>1, <1>5
  <1> QED BY <1>6, <1>7, <1>8, <1>9, <1>10, <1>11, FindStep

LEMMA FindAnswerKeeps == ASSUME IInv, NEW f \in flight, FindAnswer(f), UNCHANGED diff PROVE IInv'
  <1>1. /\ ~quitting /\ f.what = "find" /\ UNCHANGED <<view, prevView, extractReturn, quitting, browse>>
    BY DEF FindAnswer, Message
  <1>2. /\ FindSound(find) /\ find = [x \in FindFields |-> find[x]]
        /\ Group(flight, {"find"}, find.gen, find.cancel) /\ \A g \in flight : IsCommand(g)
    BY FindIs DEF IInv, FlightInv
  <1> DEFINE C == flight \ {f}
  <1>3. /\ Group(C, {"find"}, find.gen, find.cancel) /\ Kept(flight, C, {"find"})
        /\ Current(f, {"find"}, find.gen) => \A g \in C : ~Current(g, {"find"}, find.gen)
        /\ \A g \in C : IsCommand(g)
    BY <1>1, <1>2, GroupTaken
  <1>4. InFront' = InFront /\ Base' = Base
    BY <1>1 DEF InFront, Base
  <1>5. CASE f.gen # find.gen /\ flight' = C /\ UNCHANGED find
    <2> DEFINE t == [find |-> find, commands |-> C]
    <2>1. t.find = find /\ t.commands = C /\ Have(t)
      BY <1>5 DEF Have
    <2>2. FindState(t)
      BY <1>2, <1>3, <2>1 DEF FindState
    <2>3. /\ Base' = "find" /\ find.cancel = 0 => find.rows # NoRows \/ find.err # ""
          /\ Base' # "find" => find.rows = NoRows /\ find.path = <<>> /\ find.cancel = 0
          /\ \A g \in C : Current(g, {"find"}, find.gen) =>
                /\ find.cancel # 0 /\ InFront' = "find"
                /\ g.ask = [path |-> find.path, host |-> find.host, all |-> find.all]
      BY <1>4 DEF IInv, FindInv, FindLoading
    <2> HIDE DEF C, t
    <2> QED BY <1>1, <1>2, <1>3, <2>1, <2>2, <2>3, FindStep
  <1>6. ASSUME f.gen = find.gen, NEW rows \in Outcomes(f.ask), flight' = Cancelled(C, {"find"}, find.cancel),
               find' = [find EXCEPT !.cancel = 0, !.rows = rows, !.err = IF rows # NoRows THEN "" ELSE "failed",
                                    !.resultHost = IF rows # NoRows /\ ~rows.all THEN rows.host ELSE 0,
                                    !.resultAll = rows # NoRows /\ rows.all]
        PROVE  IInv'
    <2> DEFINE t == [find |-> find', commands |-> flight']
    <2>1. t.find = find' /\ t.commands = flight' /\ Have(t)
      BY DEF Have
    <2>2. f.ask = [path |-> find.path, host |-> find.host, all |-> find.all] /\ InFront = "find" /\ FindLoading
      BY <1>1, <1>6 DEF IInv, FindInv, Current
    <2>3. /\ find' = [x \in FindFields |-> find'[x]] /\ find'.gen = find.gen /\ find'.cancel = 0
          /\ find'.path = find.path /\ find'.host = find.host /\ find'.all = find.all /\ find'.rows = rows
          /\ find'.err = (IF rows # NoRows THEN "" ELSE "failed")
          /\ find'.resultHost = (IF rows # NoRows /\ ~rows.all THEN rows.host ELSE 0)
          /\ find'.resultAll = (rows # NoRows /\ rows.all)
      BY <1>2, <1>6 DEF FindFields
    <2>4. /\ Group(flight', {"find"}, find.gen, 0) /\ \A g \in flight' : IsCommand(g)
          /\ \A g \in flight' : ~Current(g, {"find"}, find.gen)
          /\ Kept(flight, flight', {"find"})
      <3>1. Group(flight', {"find"}, find.gen, 0)
        BY <1>3, <1>6, GroupCancelled
      <3>2. /\ \A g \in flight' : IsCommand(g)
            /\ \A g \in flight' : \E h \in C : g.what = h.what /\ g.gen = h.gen
            /\ Kept(C, flight', {"find"})
        BY <1>3, <1>6, CancelKeeps
      <3>3. \A h \in C : ~Current(h, {"find"}, find.gen)
        BY <1>1, <1>3, <1>6 DEF Current
      <3> HIDE DEF C
      <3>4. \A g \in flight' : ~Current(g, {"find"}, find.gen)
        BY <3>2, <3>3 DEF Current
      <3>5. Kept(flight, flight', {"find"})
        BY <1>3, <3>2, KeptTwice
      <3> QED BY <3>1, <3>2, <3>4, <3>5
    <2>5. FindState(t)
      BY <2>1, <2>3, <2>4 DEF FindState
    <2>6. rows # NoRows => rows = f.ask /\ (f.ask.all \/ f.ask.host # 0)
      BY DEF Outcomes
    <2>7. rows # NoRows => /\ rows.path = find.path /\ rows.host = find.host /\ rows.all = find.all
                           /\ (find.all \/ find.host # 0)
      BY <2>2, <2>6
    <2>8. FindSound(find')
      <3>1. find.all \in BOOLEAN
        BY <1>2 DEF FindSound
      <3>2. find'.resultAll \in BOOLEAN
        BY <2>3, <2>7, <3>1
      <3>3. rows # NoRows => find'.resultAll = find.all /\ find'.resultHost = (IF find.all THEN 0 ELSE find.host)
        BY <2>3, <2>7, <3>1
      <3> QED BY <2>3, <2>7, <3>1, <3>2, <3>3 DEF FindSound
    <2>9. Base = "find"
      BY <2>2 DEF Base
    <2>10. Base' = "find" /\ (find'.rows # NoRows \/ find'.err # "")
      BY <1>4, <2>3, <2>9
    <2> HIDE DEF t
    <2> QED BY <1>1, <2>1, <2>3, <2>4, <2>5, <2>8, <2>10, FindStep
  <1>7. \/ f.gen # find.gen /\ flight' = C /\ UNCHANGED find
        \/ /\ f.gen = find.gen
           /\ \E rows \in Outcomes(f.ask) :
                /\ flight' = Cancelled(C, {"find"}, find.cancel)
                /\ find' = [find EXCEPT !.cancel = 0, !.rows = rows, !.err = IF rows # NoRows THEN "" ELSE "failed",
                                        !.resultHost = IF rows # NoRows /\ ~rows.all THEN rows.host ELSE 0,
                                        !.resultAll = rows # NoRows /\ rows.all]
    BY DEF FindAnswer
  <1> HIDE DEF C
  <1> QED BY <1>5, <1>6, <1>7

LEMMA FindKeysKeep == ASSUME IInv, FindKeys, UNCHANGED diff PROVE IInv'
  BY StartFindKeeps, HostToggleKeeps, FindBackKeeps DEF FindKeys

-----------------------------------------------------------------------------
(* Diff: its helpers. *)

DiffRecord(d) == d = [x \in DiffFields |-> d[x]]

DiffState(s) ==
    /\ s = [diff |-> s.diff, commands |-> s.commands] /\ DiffRecord(s.diff)
    /\ \A f \in s.commands : IsCommand(f)
    /\ Group(s.commands, {"diff"}, s.diff.gen, s.diff.cancel)
    /\ Group(s.commands, {"info"}, s.diff.infoGen, s.diff.infoCancel)

\* e differs from d in the fields changed at most.
SameBut(d, e, changed) == \A x \in DiffFields \ changed : e[x] = d[x]

LEMMA SameTwice ==
  ASSUME NEW d, NEW e, NEW g, NEW X, NEW Y, SameBut(d, e, X), SameBut(e, g, Y)
  PROVE  SameBut(d, g, X \cup Y)
  BY DEF SameBut

LEMMA KeptWider ==
  ASSUME NEW C, NEW D, NEW K, NEW L, Kept(C, D, K), K \subseteq L
  PROVE  Kept(C, D, L)
  BY DEF Kept

LEMMA DiffStateIs ==
  ASSUME NEW d, DiffRecord(d), NEW C, \A f \in C : IsCommand(f),
         Group(C, {"diff"}, d.gen, d.cancel), Group(C, {"info"}, d.infoGen, d.infoCancel)
  PROVE  LET s == [diff |-> d, commands |-> C]
         IN  DiffState(s) /\ s.diff = d /\ s.commands = C
  <1> DEFINE s == [diff |-> d, commands |-> C]
  <1>1. s.diff = d /\ s.commands = C /\ s = [diff |-> s.diff, commands |-> s.commands]
    OBVIOUS
  <1> HIDE DEF s
  <1>2. DiffState(s)
    BY <1>1 DEF DiffState
  <1> QED BY <1>1, <1>2 DEF s

\* A helper that writes fields other than the generations and the cancel functions.
LEMMA DiffWritten ==
  ASSUME NEW s, DiffState(s), NEW e, DiffRecord(e), SameBut(s.diff, e, DiffFields \ {"gen", "cancel", "infoGen", "infoCancel"})
  PROVE  LET t == [s EXCEPT !.diff = e]
         IN  DiffState(t) /\ t.diff = e /\ t.commands = s.commands
  <1>1. s = [diff |-> s.diff, commands |-> s.commands]
    BY DEF DiffState
  <1>2. [s EXCEPT !.diff = e] = [diff |-> e, commands |-> s.commands]
    BY <1>1
  <1>3. /\ e.gen = s.diff.gen /\ e.cancel = s.diff.cancel
        /\ e.infoGen = s.diff.infoGen /\ e.infoCancel = s.diff.infoCancel
    BY DEF SameBut, DiffFields
  <1>4. /\ \A f \in s.commands : IsCommand(f)
        /\ Group(s.commands, {"diff"}, e.gen, e.cancel) /\ Group(s.commands, {"info"}, e.infoGen, e.infoCancel)
    BY <1>3 DEF DiffState
  <1>5. LET t == [diff |-> e, commands |-> s.commands]
        IN  DiffState(t) /\ t.diff = e /\ t.commands = s.commands
    BY <1>4, DiffStateIs
  <1> QED BY <1>2, <1>5

\* The diff under way is cancelled.
LEMMA DiffCancelled ==
  ASSUME NEW s, DiffState(s)
  PROVE  /\ DiffState(CancelDiff(s)) /\ Kept(s.commands, CancelDiff(s).commands, {"diff"})
         /\ SameBut(s.diff, CancelDiff(s).diff, {"cancel"}) /\ CancelDiff(s).diff.cancel = 0
         /\ \A f \in CancelDiff(s).commands : \E g \in s.commands : f.what = g.what /\ f.gen = g.gen
  <1> DEFINE C == Cancelled(s.commands, {"diff"}, s.diff.cancel)
             c == [s.diff EXCEPT !.cancel = 0]
  <1>1. Group(C, {"diff"}, s.diff.gen, 0)
    BY GroupCancelled DEF DiffState
  <1>2. /\ \A f \in C : IsCommand(f)
        /\ Kept(s.commands, C, {"diff"})
        /\ \A f \in C : \E g \in s.commands : f.what = g.what /\ f.gen = g.gen
    BY CancelKeeps DEF DiffState
  <1>3. CancelDiff(s) = [diff |-> c, commands |-> C]
    BY DEF CancelDiff
  <1>4. DiffRecord(c) /\ SameBut(s.diff, c, {"cancel"}) /\ c.cancel = 0
    BY DEF DiffState, DiffRecord, SameBut, DiffFields
  <1> HIDE DEF C, c
  <1>5. c.gen = s.diff.gen /\ c.infoGen = s.diff.infoGen /\ c.infoCancel = s.diff.infoCancel
    BY <1>4 DEF SameBut, DiffFields
  <1>6. Group(C, {"info"}, s.diff.infoGen, s.diff.infoCancel)
    <2>1. {"info"} \cap {"diff"} = {}
      OBVIOUS
    <2> QED BY <1>2, <2>1, GroupOf DEF DiffState, Kept
  <1>7. LET t == [diff |-> c, commands |-> C] IN DiffState(t) /\ t.diff = c /\ t.commands = C
    BY <1>1, <1>2, <1>4, <1>5, <1>6, DiffStateIs
  <1> QED BY <1>2, <1>3, <1>4, <1>7

LEMMA DiffSuperseded ==
  ASSUME NEW s, DiffState(s)
  PROVE  /\ DiffState(SupersedeDiff(s)) /\ Kept(s.commands, SupersedeDiff(s).commands, {"diff"})
         /\ SameBut(s.diff, SupersedeDiff(s).diff, {"gen", "cancel"})
         /\ SupersedeDiff(s).diff.gen = s.diff.gen + 1 /\ SupersedeDiff(s).diff.cancel = 0
         /\ \A f \in SupersedeDiff(s).commands : ~Current(f, {"diff"}, s.diff.gen + 1)
         /\ s.diff.gen + 1 \in Nat \ {0}
  <1> DEFINE C == Cancelled(s.commands, {"diff"}, s.diff.cancel)
             c == [s.diff EXCEPT !.gen = s.diff.gen + 1, !.cancel = 0]
  <1>5. SupersedeDiff(s) = [diff |-> c, commands |-> C]
    BY DEF SupersedeDiff
  <1>6. DiffRecord(c) /\ c.gen = s.diff.gen + 1 /\ c.cancel = 0 /\ SameBut(s.diff, c, {"gen", "cancel"})
    BY DEF DiffState, DiffRecord, SameBut, DiffFields
  <1>7. /\ Group(C, {"diff"}, s.diff.gen + 1, 0) /\ s.diff.gen + 1 \in Nat \ {0}
        /\ \A f \in C : ~Current(f, {"diff"}, s.diff.gen + 1)
    BY GroupCancelled DEF DiffState
  <1>8. (\A f \in C : IsCommand(f)) /\ Kept(s.commands, C, {"diff"})
    BY CancelKeeps DEF DiffState
  <1> HIDE DEF C, c
  <1>9. c.gen = s.diff.gen + 1 /\ c.infoGen = s.diff.infoGen /\ c.infoCancel = s.diff.infoCancel
    BY <1>6 DEF SameBut, DiffFields
  <1>11. Group(C, {"info"}, s.diff.infoGen, s.diff.infoCancel)
    <2>1. {"info"} \cap {"diff"} = {}
      OBVIOUS
    <2> QED BY <1>8, <2>1, GroupOf DEF DiffState, Kept
  <1>12. LET t == [diff |-> c, commands |-> C] IN DiffState(t) /\ t.diff = c /\ t.commands = C
    BY <1>6, <1>7, <1>8, <1>9, <1>11, DiffStateIs
  <1> QED BY <1>5, <1>6, <1>7, <1>8, <1>9, <1>12

LEMMA InfoDropped ==
  ASSUME NEW s, DiffState(s)
  PROVE  /\ DiffState(DropInfo(s)) /\ Kept(s.commands, DropInfo(s).commands, {"info"})
         /\ SameBut(s.diff, DropInfo(s).diff, {"infoGen", "infoCancel", "infoRow", "first", "second"})
         /\ DropInfo(s).diff.infoGen = s.diff.infoGen + 1 /\ DropInfo(s).diff.infoCancel = 0
         /\ DropInfo(s).diff.infoRow = NoRow /\ DropInfo(s).diff.first = NoSide /\ DropInfo(s).diff.second = NoSide
         /\ \A f \in DropInfo(s).commands : ~Current(f, {"info"}, s.diff.infoGen + 1)
         /\ \A f \in DropInfo(s).commands : \E g \in s.commands : f.what = g.what /\ f.gen = g.gen
         /\ s.diff.infoGen + 1 \in Nat \ {0}
  <1> DEFINE C == Cancelled(s.commands, {"info"}, s.diff.infoCancel)
             c == [s.diff EXCEPT !.infoGen = s.diff.infoGen + 1, !.infoCancel = 0, !.infoRow = NoRow,
                                 !.first = NoSide, !.second = NoSide]
  <1>1. /\ Group(C, {"info"}, s.diff.infoGen + 1, 0) /\ s.diff.infoGen + 1 \in Nat \ {0}
        /\ \A f \in C : ~Current(f, {"info"}, s.diff.infoGen + 1)
    BY GroupCancelled DEF DiffState
  <1>2. /\ \A f \in C : IsCommand(f)
        /\ Kept(s.commands, C, {"info"})
        /\ \A f \in C : \E g \in s.commands : f.what = g.what /\ f.gen = g.gen
    BY CancelKeeps DEF DiffState
  <1>3. DropInfo(s) = [diff |-> c, commands |-> C]
    BY DEF DropInfo
  <1>4. /\ DiffRecord(c) /\ SameBut(s.diff, c, {"infoGen", "infoCancel", "infoRow", "first", "second"})
        /\ c.infoGen = s.diff.infoGen + 1 /\ c.infoCancel = 0 /\ c.infoRow = NoRow /\ c.first = NoSide /\ c.second = NoSide
    BY DEF DiffState, DiffRecord, SameBut, DiffFields
  <1> HIDE DEF C, c
  <1>5. c.gen = s.diff.gen /\ c.cancel = s.diff.cancel
    BY <1>4 DEF SameBut, DiffFields
  <1>6. Group(C, {"diff"}, s.diff.gen, s.diff.cancel)
    <2>1. {"diff"} \cap {"info"} = {}
      OBVIOUS
    <2> QED BY <1>2, <2>1, GroupOf DEF DiffState, Kept
  <1>7. LET t == [diff |-> c, commands |-> C] IN DiffState(t) /\ t.diff = c /\ t.commands = C
    BY <1>1, <1>2, <1>4, <1>5, <1>6, DiffStateIs
  <1> QED BY <1>1, <1>2, <1>3, <1>4, <1>7

LEMMA DiffSearchExited ==
  ASSUME NEW s, DiffState(s)
  PROVE  LET t == ExitDiffSearch(s)
         IN  /\ DiffState(t) /\ t.commands = s.commands
             /\ SameBut(s.diff, t.diff, {"searching", "jumped", "origin"})
             /\ t.diff.searching = FALSE /\ t.diff.jumped = FALSE /\ t.diff.origin = Root
  <1> DEFINE c == [s.diff EXCEPT !.searching = FALSE, !.jumped = FALSE, !.origin = Root]
  <1>1. /\ DiffRecord(c) /\ SameBut(s.diff, c, {"searching", "jumped", "origin"})
        /\ c.searching = FALSE /\ c.jumped = FALSE /\ c.origin = Root
    BY DEF DiffState, DiffRecord, SameBut, DiffFields
  <1>2. ExitDiffSearch(s) = [s EXCEPT !.diff = c]
    BY DEF ExitDiffSearch
  <1> HIDE DEF c
  <1>3. LET t == [s EXCEPT !.diff = c] IN DiffState(t) /\ t.diff = c /\ t.commands = s.commands
    <2>1. SameBut(s.diff, c, DiffFields \ {"gen", "cancel", "infoGen", "infoCancel"})
      BY <1>1 DEF SameBut, DiffFields
    <2> QED BY <1>1, <2>1, DiffWritten
  <1> QED BY <1>1, <1>2, <1>3

LEMMA DirShown ==
  ASSUME NEW s, DiffState(s), NEW dir
  PROVE  LET t == ShowDir(s, dir)
         IN  /\ DiffState(t) /\ t.commands = s.commands
             /\ SameBut(s.diff, t.diff, {"dir"}) /\ t.diff.dir = dir
  <1> DEFINE c == [s.diff EXCEPT !.dir = dir]
  <1>1. DiffRecord(c) /\ SameBut(s.diff, c, {"dir"}) /\ c.dir = dir
    BY DEF DiffState, DiffRecord, SameBut, DiffFields
  <1>2. ShowDir(s, dir) = [s EXCEPT !.diff = c]
    BY DEF ShowDir
  <1> HIDE DEF c
  <1>3. LET t == [s EXCEPT !.diff = c] IN DiffState(t) /\ t.diff = c /\ t.commands = s.commands
    <2>1. SameBut(s.diff, c, DiffFields \ {"gen", "cancel", "infoGen", "infoCancel"})
      BY <1>1 DEF SameBut, DiffFields
    <2> QED BY <1>1, <2>1, DiffWritten
  <1> QED BY <1>1, <1>2, <1>3

\* A set of numbers up to n has a greatest.
LEMMA Greatest ==
  ASSUME NEW n \in Nat, NEW S, S \subseteq 0..n, S # {}
  PROVE  \E k \in S : \A j \in S : j <= k
  <1> DEFINE T == {i \in Nat : \E k \in S : i = n - k}
             R == OpToRel(<, Nat)
  <1>1. T \subseteq Nat
    OBVIOUS
  <1>2. \A k \in S : k \in 0..n /\ n - k \in Nat /\ n - k \in T
    OBVIOUS
  <1>3. PICK m \in T : \A y \in T : <<y, m>> \notin R
    <2>1. IsWellFoundedOn(R, Nat) /\ T # {}
      BY <1>2, NatLessThanWellFounded
    <2> HIDE DEF R, T
    <2> QED BY ONLY <1>1, <2>1, WFMin
  <1>4. \A y \in T : ~(y < m)
    <2>1. R = {ss \in Nat \X Nat : ss[1] < ss[2]}
      BY DEF OpToRel
    <2> HIDE DEF R, T
    <2> QED BY ONLY <1>1, <1>3, <2>1
  <1>5. PICK k \in S : m = n - k
    OBVIOUS
  <1>6. ASSUME NEW j \in S PROVE j <= k
    <2>1. ~(n - j < m) /\ j \in 0..n /\ k \in 0..n
      BY <1>2, <1>4
    <2> QED BY ONLY <1>5, <2>1, n \in Nat
  <1> QED BY <1>6

LEMMA ExistingIsThere ==
  ASSUME NEW tree, tree.dirs \subseteq Seq(STRING), NEW dir \in Seq(STRING)
  PROVE  ExistingDiffDir(tree, dir) \in tree.dirs \cup {Root} /\ ExistingDiffDir(tree, dir) \in Seq(STRING)
  <1> DEFINE here == {k \in 0..Len(dir) : k = 0 \/ SubSeq(dir, 1, k) \in tree.dirs}
             k == CHOOSE k \in here : \A j \in here : j <= k
  <1>1. here \subseteq 0..Len(dir) /\ 0 \in here /\ Len(dir) \in Nat
    OBVIOUS
  <1>2. \E i \in here : \A j \in here : j <= i
    <2> HIDE DEF here
    <2> QED BY <1>1, Greatest
  <1>3. k \in here
    <2> HIDE DEF here
    <2> QED BY <1>2
  <1>4. ExistingDiffDir(tree, dir) = SubSeq(dir, 1, k)
    BY DEF ExistingDiffDir
  <1> HIDE DEF k
  <1>5. k \in 0..Len(dir) /\ (k = 0 \/ SubSeq(dir, 1, k) \in tree.dirs)
    BY <1>3
  <1>6. CASE k = 0
    <2>1. SubSeq(dir, 1, 0) = <<>>
      OBVIOUS
    <2> QED BY <1>4, <1>6, <2>1 DEF Root
  <1>7. CASE SubSeq(dir, 1, k) \in tree.dirs
    BY <1>4, <1>7
  <1> QED BY <1>5, <1>6, <1>7

-----------------------------------------------------------------------------
(* Diff: helpers made of helpers. *)

\* t is what s becomes when its search ends where it began.
LEMMA DiffSearchCancelled ==
  ASSUME NEW s, DiffState(s)
  PROVE  LET t == CancelDiffSearch(s)
         IN  /\ DiffState(t) /\ t.commands = s.commands
             /\ SameBut(s.diff, t.diff, {"searching", "jumped", "origin", "dir"})
             /\ t.diff.searching = FALSE /\ t.diff.jumped = FALSE /\ t.diff.origin = Root
             /\ t.diff.dir = ExistingDiffDir(s.diff.tree, s.diff.origin)
  <1> DEFINE u == ExitDiffSearch(s)
             dir == ExistingDiffDir(s.diff.tree, s.diff.origin)
  <1>1. /\ DiffState(u) /\ u.commands = s.commands
        /\ SameBut(s.diff, u.diff, {"searching", "jumped", "origin"})
        /\ u.diff.searching = FALSE /\ u.diff.jumped = FALSE /\ u.diff.origin = Root
    BY DiffSearchExited
  <1>2. CancelDiffSearch(s) = ShowDir(u, dir)
    BY DEF CancelDiffSearch
  <1> HIDE DEF u, dir
  <1>3. LET t == ShowDir(u, dir)
        IN  /\ DiffState(t) /\ t.commands = u.commands
            /\ SameBut(u.diff, t.diff, {"dir"}) /\ t.diff.dir = dir
    BY <1>1, DirShown
  <1> DEFINE t == ShowDir(u, dir)
  <1>4. SameBut(s.diff, t.diff, {"searching", "jumped", "origin", "dir"})
    BY <1>1, <1>3 DEF SameBut
  <1>5. t.diff.searching = FALSE /\ t.diff.jumped = FALSE /\ t.diff.origin = Root
    BY <1>1, <1>3 DEF SameBut, DiffFields
  <1> QED BY <1>1, <1>2, <1>3, <1>4, <1>5 DEF dir

DiffCleared(s, t) ==
    /\ DiffState(t) /\ Kept(s.commands, t.commands, {"diff", "info"})
    /\ t.diff.gen = s.diff.gen + 1 /\ t.diff.infoGen = s.diff.infoGen + 1
    /\ t.diff.cancel = 0 /\ t.diff.infoCancel = 0 /\ t.diff.meta = s.diff.meta
    /\ t.diff.older = 0 /\ t.diff.newer = 0 /\ t.diff.tree = NoTree /\ t.diff.dir = Root /\ t.diff.err = ""
    /\ t.diff.searching = FALSE /\ t.diff.jumped = FALSE /\ t.diff.origin = Root
    /\ t.diff.infoRow = NoRow /\ t.diff.first = NoSide /\ t.diff.second = NoSide
    /\ \A f \in t.commands : ~Current(f, {"diff"}, t.diff.gen) /\ ~Current(f, {"info"}, t.diff.infoGen)
    /\ t.diff.gen \in Nat \ {0}

LEMMA DiffClears ==
  ASSUME NEW s, DiffState(s)
  PROVE  DiffCleared(s, ClearDiff(SupersedeDiff(s)))
  <1> DEFINE u == SupersedeDiff(s)
             c == [u.diff EXCEPT !.older = 0, !.newer = 0, !.tree = NoTree, !.dir = Root, !.err = "", !.cancel = 0]
             v == [u EXCEPT !.diff = c]
             w == ExitDiffSearch(v)
             t == DropInfo(w)
  <1>1. /\ DiffState(u) /\ Kept(s.commands, u.commands, {"diff"})
        /\ SameBut(s.diff, u.diff, {"gen", "cancel"})
        /\ u.diff.gen = s.diff.gen + 1 /\ u.diff.cancel = 0
        /\ \A f \in u.commands : ~Current(f, {"diff"}, s.diff.gen + 1)
        /\ s.diff.gen + 1 \in Nat \ {0}
    BY DiffSuperseded
  <1>2. ClearDiff(u) = t
    BY DEF ClearDiff
  <1> HIDE DEF u
  <1>3. /\ DiffRecord(c) /\ c.gen = u.diff.gen /\ c.cancel = u.diff.cancel
        /\ SameBut(u.diff, c, {"older", "newer", "tree", "dir", "err", "cancel"})
        /\ c.older = 0 /\ c.newer = 0 /\ c.tree = NoTree /\ c.dir = Root /\ c.err = ""
    BY <1>1 DEF DiffState, DiffRecord, SameBut, DiffFields
  <1> HIDE DEF c
  <1>4. DiffState(v) /\ v.diff = c /\ v.commands = u.commands
    <2>1. SameBut(u.diff, c, DiffFields \ {"gen", "cancel", "infoGen", "infoCancel"})
      BY <1>3 DEF SameBut, DiffFields
    <2> QED BY <1>1, <1>3, <2>1, DiffWritten
  <1> HIDE DEF v
  <1>5. /\ DiffState(w) /\ w.commands = v.commands
        /\ SameBut(v.diff, w.diff, {"searching", "jumped", "origin"})
        /\ w.diff.searching = FALSE /\ w.diff.jumped = FALSE /\ w.diff.origin = Root
    BY <1>4, DiffSearchExited
  <1> HIDE DEF w
  <1>6. /\ DiffState(t) /\ Kept(w.commands, t.commands, {"info"})
        /\ SameBut(w.diff, t.diff, {"infoGen", "infoCancel", "infoRow", "first", "second"})
        /\ t.diff.infoGen = w.diff.infoGen + 1 /\ t.diff.infoCancel = 0
        /\ t.diff.infoRow = NoRow /\ t.diff.first = NoSide /\ t.diff.second = NoSide
        /\ \A f \in t.commands : ~Current(f, {"info"}, w.diff.infoGen + 1)
        /\ \A f \in t.commands : \E g \in w.commands : f.what = g.what /\ f.gen = g.gen
    BY <1>5, InfoDropped
  <1> HIDE DEF t
  <1>7. /\ w.diff.older = 0 /\ w.diff.newer = 0 /\ w.diff.tree = NoTree /\ w.diff.dir = Root /\ w.diff.err = ""
        /\ w.diff.gen = s.diff.gen + 1 /\ w.diff.cancel = 0 /\ w.diff.meta = s.diff.meta /\ w.diff.infoGen = s.diff.infoGen
    BY <1>1, <1>3, <1>4, <1>5 DEF SameBut, DiffFields
  <1>8. /\ t.diff.older = 0 /\ t.diff.newer = 0 /\ t.diff.tree = NoTree /\ t.diff.dir = Root /\ t.diff.err = ""
        /\ t.diff.searching = FALSE /\ t.diff.jumped = FALSE /\ t.diff.origin = Root
        /\ t.diff.gen = s.diff.gen + 1 /\ t.diff.cancel = 0 /\ t.diff.meta = s.diff.meta
        /\ t.diff.infoGen = s.diff.infoGen + 1
    BY <1>5, <1>6, <1>7 DEF SameBut, DiffFields
  <1>9. \A f \in t.commands : ~Current(f, {"diff"}, s.diff.gen + 1)
    BY <1>1, <1>4, <1>5, <1>6 DEF Current
  <1>10. Kept(s.commands, t.commands, {"diff", "info"})
    <2>1. Kept(s.commands, u.commands, {"diff", "info"}) /\ Kept(u.commands, t.commands, {"diff", "info"})
      BY <1>1, <1>4, <1>5, <1>6, KeptWider
    <2> QED BY <2>1, KeptTwice
  <1>11. \A f \in t.commands : ~Current(f, {"info"}, t.diff.infoGen)
    BY <1>6, <1>7, <1>8
  <1> QED BY <1>1, <1>2, <1>6, <1>8, <1>9, <1>10, <1>11 DEF DiffCleared, u

\* t is what s becomes when its diff is sent.
DiffSent(s, ask, t) ==
    /\ DiffState(t) /\ Kept(s.commands, t.commands, {"diff"})
    /\ SameBut(s.diff, t.diff, {"cancel", "err"}) /\ t.diff.cancel = s.diff.gen
    /\ \A f \in t.commands : Current(f, {"diff"}, s.diff.gen) => f.ask = ask

LEMMA DiffDispatched ==
  ASSUME NEW s, DiffState(s), s.diff.cancel = 0, s.diff.gen \in Nat \ {0},
         \A f \in s.commands : ~Current(f, {"diff"}, s.diff.gen),
         NEW older, NEW newer, NEW meta
  PROVE  DiffSent(s, [older |-> older, newer |-> newer, meta |-> meta], DispatchDiff(s, older, newer, meta))
  <1> DEFINE n == s.diff.gen
             ask == [older |-> older, newer |-> newer, meta |-> meta]
             D == s.commands \cup {Command("diff", n, ask)}
             c == [s.diff EXCEPT !.cancel = n, !.err = ""]
  <1>1. DispatchDiff(s, older, newer, meta) = [diff |-> c, commands |-> D]
    BY DEF DispatchDiff
  <1>2. DiffRecord(c) /\ SameBut(s.diff, c, {"cancel", "err"}) /\ c.cancel = n
    BY DEF DiffState, DiffRecord, SameBut, DiffFields
  <1> HIDE DEF n, ask, c
  <1>3. c.gen = n /\ c.infoGen = s.diff.infoGen /\ c.infoCancel = s.diff.infoCancel
    BY <1>2 DEF SameBut, DiffFields, n
  <1>4. /\ \A f \in D : IsCommand(f)
        /\ Group(D, {"diff"}, n, n)
        /\ \A f \in D : Current(f, {"diff"}, n) => f.what = "diff" /\ f.ask = ask
        /\ Kept(s.commands, D, {"diff"})
    <2>1. Group(s.commands, {"diff"}, n, 0) /\ n \in Nat \ {0} /\ \A f \in s.commands : IsCommand(f)
      BY DEF DiffState, n
    <2>2. \A f \in s.commands : ~Current(f, {"diff"}, n)
      BY DEF n
    <2>3. {"diff"} \subseteq BrowseKinds \cup {"find", "diff", "info"} /\ "diff" \in {"diff"}
      OBVIOUS
    <2> QED BY ONLY <2>1, <2>2, <2>3, GroupSent
  <1> HIDE DEF D
  <1>5. Group(D, {"info"}, s.diff.infoGen, s.diff.infoCancel)
    <2>1. {"info"} \cap {"diff"} = {}
      OBVIOUS
    <2> QED BY <1>4, <2>1, GroupOf DEF DiffState, Kept
  <1>6. LET t == [diff |-> c, commands |-> D] IN DiffState(t) /\ t.diff = c /\ t.commands = D
    BY <1>2, <1>3, <1>4, <1>5, DiffStateIs
  <1> QED BY <1>1, <1>2, <1>4, <1>6 DEF DiffSent, ask, n

DiffInstalled(s, tree, t) ==
    /\ DiffState(t) /\ t.commands = s.commands
    /\ SameBut(s.diff, t.diff, {"older", "newer", "meta", "tree", "err", "dir"})
    /\ t.diff.older = tree.older /\ t.diff.newer = tree.newer /\ t.diff.meta = tree.meta /\ t.diff.tree = tree
    /\ t.diff.dir = ExistingDiffDir(tree, s.diff.dir)

LEMMA DiffInstalls ==
  ASSUME NEW s, DiffState(s), NEW tree
  PROVE  DiffInstalled(s, tree, Install(s, tree))
  <1> DEFINE err == IF tree.partial THEN "partial" ELSE ""
             c == [s.diff EXCEPT !.older = tree.older, !.newer = tree.newer, !.meta = tree.meta, !.tree = tree, !.err = err]
             dir == ExistingDiffDir(tree, s.diff.dir)
             u == [s EXCEPT !.diff = c]
             t == ShowDir(u, dir)
  <1>1. Install(s, tree) = t
    BY DEF Install
  <1> HIDE DEF err, dir
  <1>2. /\ DiffRecord(c) /\ SameBut(s.diff, c, {"older", "newer", "meta", "tree", "err"})
        /\ c.older = tree.older /\ c.newer = tree.newer /\ c.meta = tree.meta /\ c.tree = tree
    BY DEF DiffState, DiffRecord, SameBut, DiffFields
  <1> HIDE DEF c
  <1>3. DiffState(u) /\ u.diff = c /\ u.commands = s.commands
    <2>1. SameBut(s.diff, c, DiffFields \ {"gen", "cancel", "infoGen", "infoCancel"})
      BY <1>2 DEF SameBut, DiffFields
    <2> QED BY <1>2, <2>1, DiffWritten
  <1> HIDE DEF u
  <1>4. DiffState(t) /\ t.commands = u.commands /\ SameBut(u.diff, t.diff, {"dir"}) /\ t.diff.dir = dir
    BY <1>3, DirShown
  <1> HIDE DEF t
  <1>5. /\ t.diff.older = tree.older /\ t.diff.newer = tree.newer /\ t.diff.meta = tree.meta /\ t.diff.tree = tree
        /\ SameBut(s.diff, t.diff, {"older", "newer", "meta", "tree", "err", "dir"})
    BY <1>2, <1>3, <1>4 DEF SameBut, DiffFields
  <1> QED BY <1>1, <1>3, <1>4, <1>5 DEF DiffInstalled, dir

-----------------------------------------------------------------------------
(* Diff: its steps.  What is true of the controller d itself, and what the *)
(* screens tell of it.                                                     *)

IsSide(side, id) ==
    /\ side = [want |-> side.want, of |-> side.of]
    /\ side.want \in BOOLEAN /\ side.of \in {0, IF side.want THEN id ELSE 0}

DiffSound(d) ==
    /\ IsSide(d.first, d.older) /\ IsSide(d.second, d.newer)
    /\ d.meta \in BOOLEAN /\ d.searching \in BOOLEAN /\ d.jumped \in BOOLEAN
    /\ IsTree(d.tree) /\ d.dir \in Seq(STRING) /\ d.origin \in Seq(STRING)
    /\ d.tree # NoTree =>
         /\ d.tree.older = d.older /\ d.tree.newer = d.newer /\ d.tree.meta = d.meta
         /\ d.dir \in d.tree.dirs \cup {Root} /\ d.origin \in d.tree.dirs \cup {Root}
    /\ ~d.searching /\ ~d.jumped => d.origin = Root
    /\ d.cancel # 0 => ~d.searching /\ ~d.jumped
    /\ d.searching \/ d.jumped => d.tree # NoTree

DiffShown(d, front, base) ==
    /\ base \in {"diff", "diffInfo"} => d.older # 0 /\ d.newer # 0 /\ (d.cancel # 0 \/ d.tree # NoTree)
    /\ base \notin {"diff", "diffInfo"} => d.tree = NoTree /\ d.older = 0 /\ d.cancel = 0
    /\ front = "diffInfo" => d.infoRow # NoRow
    /\ front # "diffInfo" => d.infoRow = NoRow /\ d.first = NoSide /\ d.second = NoSide /\ d.infoCancel = 0

DiffAwaits(f, d) == d.cancel # 0 /\ f.ask.older # 0 /\ f.ask.newer # 0 /\ f.ask.meta \in BOOLEAN

InfoAwaits(f, d) ==
    /\ d.infoCancel # 0
    /\ f.ask.first \in {0, IF d.first.want THEN d.older ELSE 0}
    /\ f.ask.second \in {0, IF d.second.want THEN d.newer ELSE 0}

LEMMA DiffIs ==
  ASSUME IInv
  PROVE  /\ DiffState(DiffNow) /\ DiffNow.diff = diff /\ DiffNow.commands = flight
         /\ DiffNow = [diff |-> diff, commands |-> flight]
         /\ DiffRecord(diff) /\ DiffSound(diff) /\ DiffShown(diff, InFront, Base)
         /\ \A f \in flight : Current(f, {"diff"}, diff.gen) => InFront = "diff" /\ DiffAwaits(f, diff)
         /\ \A f \in flight : Current(f, {"info"}, diff.infoGen) => InFront = "diffInfo" /\ InfoAwaits(f, diff)
  <1>1. DiffNow = [diff |-> diff, commands |-> flight] /\ DiffNow.diff = diff /\ DiffNow.commands = flight
    BY DEF DiffNow
  <1>2. DiffRecord(diff)
    BY DEF IInv, DiffInv, DiffRecord
  <1>3. DiffState(DiffNow)
    BY <1>1, <1>2 DEF DiffState, IInv, FlightInv
  <1>4. IsSide(diff.first, diff.older) /\ IsSide(diff.second, diff.newer)
    BY DEF IInv, DiffInv, Sides, IsSide, DiffAnswersQuestion
  <1>5. diff.tree # NoTree =>
          /\ diff.tree.older = diff.older /\ diff.tree.newer = diff.newer /\ diff.tree.meta = diff.meta
          /\ diff.dir \in diff.tree.dirs \cup {Root} /\ diff.origin \in diff.tree.dirs \cup {Root}
    BY DEF IInv, DiffInv, DiffAnswersQuestion
  <1>6. DiffSound(diff)
    BY <1>4, <1>5 DEF IInv, DiffInv, DiffSound, DiffLoading, DiffAnswersQuestion
  <1>7. DiffShown(diff, InFront, Base)
    BY DEF IInv, DiffInv, DiffAnswersQuestion, DiffShown, DiffLoading, InfoLoading, NoInfo
  <1>8. /\ \A f \in flight : Current(f, {"diff"}, diff.gen) => InFront = "diff" /\ DiffAwaits(f, diff)
        /\ \A f \in flight : Current(f, {"info"}, diff.infoGen) => InFront = "diffInfo" /\ InfoAwaits(f, diff)
    BY DEF IInv, DiffInv, DiffAwaits, InfoAwaits, DiffLoading, InfoLoading
  <1> QED BY <1>1, <1>2, <1>3, <1>6, <1>7, <1>8

DiffScreens == {"detail", "diff", "diffInfo"}

LEMMA DiffStep ==
  ASSUME IInv, ~quitting, UNCHANGED <<prevView, extractReturn, quitting, browse, find>>,
         view' = view \/ (InFront \in DiffScreens /\ view' \in DiffScreens),
         NEW t, DiffState(t), Hold(t), Kept(flight, t.commands, {"diff", "info"}),
         DiffSound(t.diff), DiffShown(t.diff, InFront', Base'),
         \A f \in t.commands : Current(f, {"diff"}, t.diff.gen) => InFront' = "diff" /\ DiffAwaits(f, t.diff),
         \A f \in t.commands : Current(f, {"info"}, t.diff.infoGen) => InFront' = "diffInfo" /\ InfoAwaits(f, t.diff)
  PROVE  IInv'
  <1>1. diff' = t.diff /\ flight' = t.commands
    BY DEF Hold
  <1>2. InFront' = InFront \/ (InFront \in DiffScreens /\ InFront' \in DiffScreens)
    BY DEF InFront, DiffScreens
  <1>3. Base' = Base \/ (Base \in DiffScreens /\ Base' \in DiffScreens)
    BY <1>2 DEF Base, DiffScreens
  <1>4. NavInv'
    <2>1. InFront' = "extract" => InFront = "extract"
      BY <1>2 DEF DiffScreens
    <2> QED BY <2>1 DEF IInv, NavInv, Views, DiffScreens
  <1>5. Of(flight', BrowseKinds) = Of(flight, BrowseKinds) /\ Of(flight', {"find"}) = Of(flight, {"find"})
    <2>1. BrowseKinds \cap {"diff", "info"} = {} /\ {"find"} \cap {"diff", "info"} = {}
      BY DEF BrowseKinds
    <2> QED BY <1>1, <2>1 DEF Kept
  <1>6. BrowseInv'
    <2>1. browse.searching => view' = "browse"
      BY BrowseIs DEF InFront, DiffScreens
    <2>2. InFront = "browse" => InFront' = "browse"
      BY <1>2 DEF DiffScreens
    <2>3. Base' \notin {"browse", "find"} => Base \notin {"browse", "find"}
      BY <1>3 DEF DiffScreens
    <2> QED BY <1>5, <2>1, <2>2, <2>3, BrowseFrame DEF IInv
  <1>7. FindInv'
    <2>1. (InFront = "find" => InFront' = "find") /\ (Base' = "find" <=> Base = "find")
      BY <1>2, <1>3 DEF DiffScreens
    <2> QED BY <1>5, <2>1, FindFrame DEF IInv
  <1>8. FlightInv'
    <2>1. /\ Group(flight', {"diff"}, diff'.gen, diff'.cancel) /\ Group(flight', {"info"}, diff'.infoGen, diff'.infoCancel)
          /\ \A f \in flight' : IsCommand(f)
      BY <1>1 DEF DiffState
    <2>2. Group(flight', BrowseKinds, browse.gen, browse.cancel) /\ Group(flight', {"find"}, find.gen, find.cancel)
      BY <1>5, GroupOf DEF IInv, FlightInv
    <2> QED BY <2>1, <2>2 DEF FlightInv
  <1>9. DiffInv'
    <2>1. diff' = [x \in DiffFields |-> diff'[x]]
      BY <1>1 DEF DiffState, DiffRecord
    <2>2. (DiffLoading' <=> t.diff.cancel # 0) /\ (InfoLoading' <=> t.diff.infoCancel # 0)
      BY <1>1 DEF DiffLoading, InfoLoading
    <2>3. /\ InFront' = "diff" => Base' = "diff"
          /\ InFront' = "diffInfo" => Base' = "diffInfo"
          /\ InFront' \in {"list", "detail"} => Base' \notin {"diff", "diffInfo"}
          /\ Base' \in {"diff", "diffInfo"} => InFront' \in {"diff", "diffInfo", "extract"}
      BY DEF Base
    <2>4. /\ t.diff.searching \/ t.diff.jumped => Base' \in {"diff", "diffInfo"} /\ t.diff.tree # NoTree
          /\ t.diff.first.of \in {0, IF t.diff.first.want THEN t.diff.older ELSE 0}
          /\ t.diff.second.of \in {0, IF t.diff.second.want THEN t.diff.newer ELSE 0}
      BY DEF DiffSound, DiffShown, IsSide
    <2>5. DiffAnswersQuestion'
      BY <1>1, <2>2, <2>3, <2>4 DEF DiffAnswersQuestion, DiffSound, DiffShown
    <2>6. Sides' /\ IsTree(diff.tree)'
      BY <1>1 DEF DiffSound, IsSide, Sides, IsTree
    <2>7. InFront' # "diffInfo" => NoInfo' /\ ~InfoLoading'
      BY <1>1, <2>2 DEF DiffShown, NoInfo
    <2>8. /\ Base' \in {"diff", "diffInfo"} => diff'.older # 0 /\ diff'.newer # 0 /\ (DiffLoading' \/ diff'.tree # NoTree)
          /\ Base' \notin {"diff", "diffInfo"} =>
               diff'.tree = NoTree /\ diff'.older = 0 /\ ~diff'.searching /\ ~diff'.jumped /\ ~DiffLoading'
      BY <1>1, <2>2, <2>4 DEF DiffShown
    <2>9. \A f \in flight' : Current(f, {"diff"}, diff'.gen) =>
            /\ DiffLoading' /\ InFront' = "diff"
            /\ f.ask.older # 0 /\ f.ask.newer # 0 /\ f.ask.meta \in BOOLEAN
      BY <1>1, <2>2 DEF DiffAwaits
    <2>10. \A f \in flight' : Current(f, {"info"}, diff'.infoGen) =>
            /\ InfoLoading' /\ InFront' = "diffInfo"
            /\ f.ask.first \in {0, IF diff'.first.want THEN diff'.older ELSE 0}
            /\ f.ask.second \in {0, IF diff'.second.want THEN diff'.newer ELSE 0}
      BY <1>1, <2>2 DEF InfoAwaits
    <2>11. /\ diff'.meta \in BOOLEAN /\ diff'.searching \in BOOLEAN /\ diff'.jumped \in BOOLEAN
           /\ diff'.dir \in Seq(STRING) /\ diff'.origin \in Seq(STRING)
           /\ ~diff'.searching /\ ~diff'.jumped => diff'.origin = Root
           /\ DiffLoading' => ~diff'.searching /\ ~diff'.jumped
      BY <1>1, <2>2 DEF DiffSound
    <2> QED BY <2>1, <2>5, <2>6, <2>7, <2>8, <2>9, <2>10, <2>11 DEF DiffInv, Current, DiffFields
  <1> QED BY <1>4, <1>6, <1>7, <1>8, <1>9 DEF IInv

\* A command of another kind than the one told about was there before.
LEMMA OthersCarried ==
  ASSUME NEW C, NEW D, NEW K, Kept(C, D, K), NEW what, what \notin K
  PROVE  \A f \in D : f.what = what => f \in C
  <1>1. Of(D, {what}) = Of(C, {what})
    <2>1. {what} \cap K = {}
      OBVIOUS
    <2> QED BY <2>1 DEF Kept
  <1> QED BY <1>1 DEF Of

LEMMA NoTreeIsTree == IsTree(NoTree) /\ NoTree.dirs = {} /\ IsSide(NoSide, 0) /\ \A id : IsSide(NoSide, id)
  <1>1. NoTree.dirs = {} /\ NoSide = [want |-> NoSide.want, of |-> NoSide.of] /\ NoSide.want = FALSE /\ NoSide.of = 0
    BY DEF NoTree, NoSide
  <1> QED BY <1>1 DEF IsTree, IsSide

\* A key that only moves about in a tree that is there.
LEMMA DiffQuiet ==
  ASSUME IInv, ~quitting, UNCHANGED <<view, prevView, extractReturn, quitting, browse, find>>, view = "diff",
         NEW t, DiffState(t), Hold(t), t.commands = flight,
         SameBut(diff, t.diff, {"dir", "searching", "jumped", "origin"}),
         DiffSound(t.diff)
  PROVE  IInv'
  <1>1. /\ DiffShown(diff, InFront, Base)
        /\ \A f \in flight : Current(f, {"diff"}, diff.gen) => InFront = "diff" /\ DiffAwaits(f, diff)
        /\ \A f \in flight : Current(f, {"info"}, diff.infoGen) => InFront = "diffInfo" /\ InfoAwaits(f, diff)
    BY DiffIs
  <1>2. InFront' = "diff" /\ Base' = "diff" /\ InFront = "diff" /\ Base = "diff"
    BY DEF InFront, Base
  <1>3. /\ t.diff.gen = diff.gen /\ t.diff.cancel = diff.cancel /\ t.diff.infoGen = diff.infoGen /\ t.diff.infoCancel = diff.infoCancel
        /\ t.diff.older = diff.older /\ t.diff.newer = diff.newer /\ t.diff.tree = diff.tree
        /\ t.diff.infoRow = diff.infoRow /\ t.diff.first = diff.first /\ t.diff.second = diff.second
    BY DEF SameBut, DiffFields
  <1>4. DiffShown(t.diff, InFront', Base')
    BY <1>1, <1>2, <1>3 DEF DiffShown
  <1>5. /\ \A f \in flight : Current(f, {"diff"}, t.diff.gen) => InFront' = "diff" /\ DiffAwaits(f, t.diff)
        /\ \A f \in flight : Current(f, {"info"}, t.diff.infoGen) => InFront' = "diffInfo" /\ InfoAwaits(f, t.diff)
    BY <1>1, <1>2, <1>3 DEF DiffAwaits
  <1>6. Kept(flight, t.commands, {"diff", "info"})
    BY KeptAll
  <1> QED BY <1>4, <1>5, <1>6, DiffStep

LEMMA ToggleFilterKeeps == ASSUME IInv, ToggleFilter PROVE IInv'
  <1> DEFINE t == ExitDiffSearch(DiffNow)
  <1>1. /\ view = "diff" /\ ~quitting /\ Hold(t)
        /\ UNCHANGED <<view, prevView, extractReturn, quitting, browse, find>>
    BY DEF ToggleFilter, DiffIdle, InDiff, Stay
  <1>2. DiffState(DiffNow) /\ DiffNow.diff = diff /\ DiffNow.commands = flight /\ DiffSound(diff)
    BY DiffIs
  <1>3. /\ DiffState(t) /\ t.commands = flight
        /\ SameBut(diff, t.diff, {"searching", "jumped", "origin"})
        /\ t.diff.searching = FALSE /\ t.diff.jumped = FALSE /\ t.diff.origin = Root
    BY <1>2, DiffSearchExited
  <1> HIDE DEF t
  <1>4. /\ t.diff.older = diff.older /\ t.diff.newer = diff.newer /\ t.diff.tree = diff.tree /\ t.diff.meta = diff.meta
        /\ t.diff.first = diff.first /\ t.diff.second = diff.second /\ t.diff.dir = diff.dir
        /\ SameBut(diff, t.diff, {"dir", "searching", "jumped", "origin"})
    BY <1>3 DEF SameBut, DiffFields
  <1>5. DiffSound(t.diff)
    <2>1. Root \in Seq(STRING)
      BY DEF Root
    <2> QED BY <1>2, <1>3, <1>4, <2>1 DEF DiffSound
  <1> QED BY <1>1, <1>3, <1>4, <1>5, DiffQuiet

LEMMA MoveInTreeKeeps == ASSUME IInv, MoveInTree PROVE IInv'
  <1>1. /\ view = "diff" /\ ~quitting
        /\ UNCHANGED <<view, prevView, extractReturn, quitting, browse, find>>
    BY DEF MoveInTree, DiffIdle, InDiff, Stay, Press
  <1>2. DiffState(DiffNow) /\ DiffNow.diff = diff /\ DiffNow.commands = flight /\ DiffSound(diff)
    BY DiffIs
  <1>3. ASSUME NEW d, d \in Seq(STRING), diff.tree # NoTree => d \in diff.tree.dirs \cup {Root}, Hold(ShowDir(DiffNow, d))
        PROVE  IInv'
    <2> DEFINE t == ShowDir(DiffNow, d)
    <2>1. DiffState(t) /\ t.commands = flight /\ SameBut(diff, t.diff, {"dir"}) /\ t.diff.dir = d
      BY <1>2, DirShown
    <2>2. Hold(t)
      BY <1>3
    <2> HIDE DEF t
    <2>3. /\ t.diff.older = diff.older /\ t.diff.newer = diff.newer /\ t.diff.tree = diff.tree /\ t.diff.meta = diff.meta
          /\ t.diff.first = diff.first /\ t.diff.second = diff.second /\ t.diff.origin = diff.origin
          /\ t.diff.searching = diff.searching /\ t.diff.jumped = diff.jumped /\ t.diff.cancel = diff.cancel
          /\ SameBut(diff, t.diff, {"dir", "searching", "jumped", "origin"})
      BY <2>1 DEF SameBut, DiffFields
    <2>4. DiffSound(t.diff)
      BY <1>2, <1>3, <2>1, <2>3 DEF DiffSound
    <2> QED BY <1>1, <2>1, <2>2, <2>3, <2>4, DiffQuiet
  <1>4. diff.tree.dirs \subseteq Seq(STRING)
    BY <1>2 DEF DiffSound, IsTree
  <1>5. \A d \in diff.tree.dirs : d \in Seq(STRING) /\ d \in diff.tree.dirs \cup {Root}
    BY <1>4
  <1>6. CASE diff.dir # Root /\ Hold(ShowDir(DiffNow, Front(diff.dir)))
    <2>1. diff.dir \in Seq(STRING) /\ diff.dir # <<>>
      BY <1>2, <1>6 DEF DiffSound, Root
    <2>2. Front(diff.dir) \in Seq(STRING)
      <3>1. Len(diff.dir) \in Nat /\ Len(diff.dir) >= 1
        BY <2>1
      <3> QED BY <2>1, <3>1 DEF Front
    <2>3. diff.tree # NoTree => Front(diff.dir) \in diff.tree.dirs \cup {Root}
      BY <1>2, <1>6 DEF DiffSound, IsTree
    <2> QED BY <1>3, <1>6, <2>2, <2>3
  <1>7. \/ \E d \in Rows \cap diff.tree.dirs : Hold(ShowDir(DiffNow, d))
        \/ diff.dir # Root /\ Hold(ShowDir(DiffNow, Front(diff.dir)))
    BY DEF MoveInTree
  <1>8. CASE \E d \in Rows \cap diff.tree.dirs : Hold(ShowDir(DiffNow, d))
    BY <1>3, <1>5, <1>8
  <1> QED BY <1>6, <1>7, <1>8

LEMMA OpenDiffSearchKeeps == ASSUME IInv, OpenDiffSearch PROVE IInv'
  <1> DEFINE s == ExitDiffSearch(DiffNow)
             c == [s.diff EXCEPT !.searching = TRUE, !.origin = diff.dir]
             t == [s EXCEPT !.diff = c]
  <1>1. /\ view = "diff" /\ ~quitting /\ Hold(t) /\ ~DiffLoading
        /\ UNCHANGED <<view, prevView, extractReturn, quitting, browse, find>>
    BY DEF OpenDiffSearch, DiffIdle, InDiff, Stay, Press
  <1>2. /\ DiffState(DiffNow) /\ DiffNow.diff = diff /\ DiffNow.commands = flight /\ DiffSound(diff)
        /\ DiffShown(diff, InFront, Base)
    BY DiffIs
  <1>3. /\ DiffState(s) /\ s.commands = flight
        /\ SameBut(diff, s.diff, {"searching", "jumped", "origin"})
        /\ s.diff.searching = FALSE /\ s.diff.jumped = FALSE /\ s.diff.origin = Root
    BY <1>2, DiffSearchExited
  <1> HIDE DEF s
  <1>4. /\ DiffRecord(c) /\ SameBut(s.diff, c, {"searching", "origin"})
        /\ c.searching = TRUE /\ c.origin = diff.dir
    BY <1>3 DEF DiffState, DiffRecord, SameBut, DiffFields
  <1> HIDE DEF c
  <1>5. DiffState(t) /\ t.diff = c /\ t.commands = flight
    <2>1. SameBut(s.diff, c, DiffFields \ {"gen", "cancel", "infoGen", "infoCancel"})
      BY <1>4 DEF SameBut, DiffFields
    <2> QED BY <1>3, <1>4, <2>1, DiffWritten
  <1> HIDE DEF t
  <1>6. /\ c.older = diff.older /\ c.newer = diff.newer /\ c.tree = diff.tree /\ c.meta = diff.meta
        /\ c.first = diff.first /\ c.second = diff.second /\ c.dir = diff.dir /\ c.jumped = FALSE /\ c.cancel = diff.cancel
        /\ SameBut(diff, c, {"dir", "searching", "jumped", "origin"})
    BY <1>3, <1>4 DEF SameBut, DiffFields
  <1>7. diff.tree # NoTree /\ diff.cancel = 0
    <2>1. Base = "diff"
      BY <1>1 DEF InFront, Base
    <2> QED BY <1>1, <1>2, <2>1 DEF DiffShown, DiffLoading
  <1>8. DiffSound(c)
    BY <1>2, <1>4, <1>6, <1>7 DEF DiffSound
  <1> QED BY <1>1, <1>5, <1>6, <1>8, DiffQuiet

LEMMA AcceptDiffSearchKeeps == ASSUME IInv, AcceptDiffSearch PROVE IInv'
  <1> DEFINE s == ExitDiffSearch(DiffNow)
             c == [s.diff EXCEPT !.origin = diff.origin, !.jumped = TRUE]
             u == [s EXCEPT !.diff = c]
             t(parent) == ShowDir(u, ExistingDiffDir(diff.tree, parent))
  <1>1. /\ view = "diff" /\ ~quitting /\ diff.searching
        /\ UNCHANGED <<view, prevView, extractReturn, quitting, browse, find>>
    BY DEF AcceptDiffSearch, Stay, Press
  <1>2. DiffState(DiffNow) /\ DiffNow.diff = diff /\ DiffNow.commands = flight /\ DiffSound(diff)
    BY DiffIs
  <1>3. PICK parent \in diff.tree.dirs \cup {Root} : Hold(t(parent))
    BY DEF AcceptDiffSearch
  <1> DEFINE dir == ExistingDiffDir(diff.tree, parent)
             w == ShowDir(u, dir)
  <1>4. Hold(w)
    BY <1>3
  <1> HIDE DEF t
  <1>5. /\ DiffState(s) /\ s.commands = flight
        /\ SameBut(diff, s.diff, {"searching", "jumped", "origin"})
        /\ s.diff.searching = FALSE
    BY <1>2, DiffSearchExited
  <1> HIDE DEF s
  <1>6. /\ DiffRecord(c) /\ SameBut(s.diff, c, {"origin", "jumped"})
        /\ c.jumped = TRUE /\ c.origin = diff.origin
    BY <1>5 DEF DiffState, DiffRecord, SameBut, DiffFields
  <1> HIDE DEF c
  <1>7. DiffState(u) /\ u.diff = c /\ u.commands = flight
    <2>1. SameBut(s.diff, c, DiffFields \ {"gen", "cancel", "infoGen", "infoCancel"})
      BY <1>6 DEF SameBut, DiffFields
    <2> QED BY <1>5, <1>6, <2>1, DiffWritten
  <1> HIDE DEF u
  <1>8. dir \in diff.tree.dirs \cup {Root} /\ dir \in Seq(STRING)
    <2>1. diff.tree.dirs \subseteq Seq(STRING) /\ Root \in Seq(STRING)
      BY <1>2 DEF DiffSound, IsTree, Root
    <2>2. parent \in Seq(STRING)
      BY <1>3, <2>1
    <2> QED BY <2>1, <2>2, ExistingIsThere
  <1> HIDE DEF dir
  <1>9. DiffState(w) /\ w.commands = flight /\ SameBut(c, w.diff, {"dir"}) /\ w.diff.dir = dir
    BY <1>7, DirShown
  <1> HIDE DEF w
  <1>10. /\ w.diff.older = diff.older /\ w.diff.newer = diff.newer /\ w.diff.tree = diff.tree /\ w.diff.meta = diff.meta
         /\ w.diff.first = diff.first /\ w.diff.second = diff.second /\ w.diff.cancel = diff.cancel
         /\ w.diff.searching = FALSE /\ w.diff.jumped = TRUE /\ w.diff.origin = diff.origin
         /\ SameBut(diff, w.diff, {"dir", "searching", "jumped", "origin"})
    BY <1>5, <1>6, <1>9 DEF SameBut, DiffFields
  <1>11. diff.tree # NoTree /\ diff.cancel = 0
    BY <1>1, <1>2 DEF DiffSound
  <1>12. DiffSound(w.diff)
    BY <1>2, <1>8, <1>9, <1>10, <1>11 DEF DiffSound
  <1> QED BY <1>1, <1>4, <1>9, <1>10, <1>12, DiffQuiet

LEMMA UndoDiffSearchKeeps == ASSUME IInv, UndoDiffSearch PROVE IInv'
  <1> DEFINE t == CancelDiffSearch(DiffNow)
             dir == ExistingDiffDir(diff.tree, diff.origin)
  <1>1. /\ view = "diff" /\ ~quitting /\ (diff.searching \/ diff.jumped) /\ Hold(t)
        /\ UNCHANGED <<view, prevView, extractReturn, quitting, browse, find>>
    BY DEF UndoDiffSearch, Stay
  <1>2. DiffState(DiffNow) /\ DiffNow.diff = diff /\ DiffNow.commands = flight /\ DiffSound(diff)
    BY DiffIs
  <1>3. /\ DiffState(t) /\ t.commands = flight
        /\ SameBut(diff, t.diff, {"searching", "jumped", "origin", "dir"})
        /\ t.diff.searching = FALSE /\ t.diff.jumped = FALSE /\ t.diff.origin = Root
        /\ t.diff.dir = dir
    BY <1>2, DiffSearchCancelled
  <1> HIDE DEF t
  <1>4. dir \in diff.tree.dirs \cup {Root} /\ dir \in Seq(STRING)
    <2>1. diff.tree.dirs \subseteq Seq(STRING) /\ diff.origin \in Seq(STRING)
      BY <1>2 DEF DiffSound, IsTree
    <2> QED BY <2>1, ExistingIsThere
  <1> HIDE DEF dir
  <1>5. /\ t.diff.older = diff.older /\ t.diff.newer = diff.newer /\ t.diff.tree = diff.tree /\ t.diff.meta = diff.meta
        /\ t.diff.first = diff.first /\ t.diff.second = diff.second
        /\ SameBut(diff, t.diff, {"dir", "searching", "jumped", "origin"})
    BY <1>3 DEF SameBut, DiffFields
  <1>6. DiffSound(t.diff)
    <2>1. Root \in Seq(STRING)
      BY DEF Root
    <2> QED BY <1>2, <1>3, <1>4, <1>5, <2>1 DEF DiffSound
  <1> QED BY <1>1, <1>3, <1>5, <1>6, DiffQuiet

LEMMA StartDiffKeeps == ASSUME IInv, StartDiff PROVE IInv'
  <1>1. /\ view = "detail" /\ view' = "diff" /\ ~quitting
        /\ UNCHANGED <<prevView, extractReturn, quitting, browse, find>>
    BY DEF StartDiff, InDetail, AtDetail, Press
  <1> DEFINE s == ClearDiff(SupersedeDiff(DiffNow))
             c(a, b) == [s.diff EXCEPT !.older = a, !.newer = b]
             v(a, b) == [s EXCEPT !.diff = c(a, b)]
             t(a, b) == DispatchDiff(v(a, b), a, b, diff.meta)
  <1>2. PICK pair \in Snaps \X Snaps : Hold(t(pair[1].id, pair[2].id))
    BY DEF StartDiff
  <1> DEFINE a == pair[1].id
             b == pair[2].id
             e == c(a, b)
             u == v(a, b)
             w == t(a, b)
             ask == [older |-> a, newer |-> b, meta |-> diff.meta]
  <1>3. Hold(w)
    BY <1>2
  <1>4. a # 0 /\ b # 0
    <2>1. pair[1] \in Snaps /\ pair[2] \in Snaps
      BY <1>2
    <2> QED BY <2>1, DetailAssumption
  <1> HIDE DEF a, b
  <1>5. DiffState(DiffNow) /\ DiffNow.diff = diff /\ DiffNow.commands = flight /\ DiffSound(diff)
    BY DiffIs
  <1>6. DiffCleared(DiffNow, s)
    BY <1>5, DiffClears
  <1> HIDE DEF s
  <1>7. DiffRecord(e) /\ SameBut(s.diff, e, {"older", "newer"}) /\ e.older = a /\ e.newer = b
    BY <1>6 DEF DiffCleared, DiffState, DiffRecord, SameBut, DiffFields
  <1> HIDE DEF e, c
  <1>8. DiffState(u) /\ u.diff = e /\ u.commands = s.commands
    <2>1. SameBut(s.diff, e, DiffFields \ {"gen", "cancel", "infoGen", "infoCancel"}) /\ DiffState(s)
      BY <1>6, <1>7 DEF SameBut, DiffFields, DiffCleared
    <2> QED BY <1>7, <2>1, DiffWritten DEF e
  <1> HIDE DEF u, v
  <1>9. /\ e.gen = s.diff.gen /\ e.cancel = 0 /\ e.infoGen = s.diff.infoGen /\ e.infoCancel = 0 /\ e.meta = diff.meta
        /\ e.tree = NoTree /\ e.dir = Root /\ e.searching = FALSE /\ e.jumped = FALSE /\ e.origin = Root
        /\ e.infoRow = NoRow /\ e.first = NoSide /\ e.second = NoSide
    BY <1>5, <1>6, <1>7 DEF SameBut, DiffFields, DiffCleared
  <1>10. /\ s.diff.gen \in Nat \ {0} /\ Kept(flight, s.commands, {"diff", "info"})
         /\ \A f \in s.commands : ~Current(f, {"diff"}, s.diff.gen) /\ ~Current(f, {"info"}, s.diff.infoGen)
    BY <1>5, <1>6 DEF DiffCleared
  <1>11. DiffSent(u, ask, w)
    <2>1. u.diff.cancel = 0 /\ u.diff.gen \in Nat \ {0} /\ \A f \in u.commands : ~Current(f, {"diff"}, u.diff.gen)
      BY <1>8, <1>9, <1>10
    <2> QED BY <1>8, <2>1, DiffDispatched DEF u
  <1> HIDE DEF w, t, ask
  <1>12. /\ w.diff.gen = s.diff.gen /\ w.diff.cancel = s.diff.gen /\ w.diff.infoGen = s.diff.infoGen /\ w.diff.infoCancel = 0
         /\ w.diff.meta = diff.meta /\ w.diff.older = a /\ w.diff.newer = b
         /\ w.diff.tree = NoTree /\ w.diff.dir = Root /\ w.diff.searching = FALSE /\ w.diff.jumped = FALSE
         /\ w.diff.origin = Root /\ w.diff.infoRow = NoRow /\ w.diff.first = NoSide /\ w.diff.second = NoSide
    BY <1>7, <1>8, <1>9, <1>11 DEF DiffSent, SameBut, DiffFields
  <1>13. DiffState(w) /\ Kept(flight, w.commands, {"diff", "info"})
    <2>1. Kept(s.commands, w.commands, {"diff"}) /\ DiffState(w)
      BY <1>8, <1>11 DEF DiffSent
    <2>2. Kept(s.commands, w.commands, {"diff", "info"})
      BY <2>1, KeptWider
    <2> QED BY <1>10, <2>1, <2>2, KeptTwice
  <1>14. DiffSound(w.diff)
    <2>1. Root \in Seq(STRING) /\ diff.meta \in BOOLEAN
      BY <1>5 DEF Root, DiffSound
    <2> QED BY <1>12, <2>1, NoTreeIsTree DEF DiffSound
  <1>15. InFront' = "diff" /\ Base' = "diff"
    BY <1>1 DEF InFront, Base
  <1>16. DiffShown(w.diff, InFront', Base')
    BY <1>4, <1>10, <1>12, <1>15 DEF DiffShown
  <1>17. \A f \in w.commands : Current(f, {"diff"}, w.diff.gen) => InFront' = "diff" /\ DiffAwaits(f, w.diff)
    <2>1. \A f \in w.commands : Current(f, {"diff"}, w.diff.gen) => f.ask = ask
      BY <1>8, <1>9, <1>11, <1>12 DEF DiffSent
    <2>2. ask.older = a /\ ask.newer = b /\ ask.meta \in BOOLEAN
      BY <1>5 DEF ask, DiffSound
    <2>3. w.diff.cancel # 0
      BY <1>10, <1>12
    <2> QED BY <1>4, <1>15, <2>1, <2>2, <2>3 DEF DiffAwaits
  <1>18. \A f \in w.commands : ~Current(f, {"info"}, w.diff.infoGen)
    <2>1. Kept(s.commands, w.commands, {"diff"})
      BY <1>8, <1>11 DEF DiffSent
    <2>2. {"info"} \cap {"diff"} = {}
      OBVIOUS
    <2>3. Of(w.commands, {"info"}) = Of(s.commands, {"info"})
      BY ONLY <2>1, <2>2 DEF Kept
    <2>4. \A f \in w.commands : f.what = "info" => f \in s.commands
      BY ONLY <2>3 DEF Of
    <2> QED BY <1>10, <1>12, <2>4 DEF Current
  <1>19. view' = view \/ (InFront \in DiffScreens /\ view' \in DiffScreens)
    BY <1>1 DEF InFront, DiffScreens
  <1> QED BY <1>1, <1>3, <1>13, <1>14, <1>16, <1>17, <1>18, <1>19, DiffStep

LEMMA RerunKeeps == ASSUME IInv, Rerun PROVE IInv'
  <1> DEFINE x == ExitDiffSearch(DiffNow)
             s == SupersedeDiff(x)
  <1>1. /\ view = "diff" /\ ~quitting /\ ~DiffLoading
        /\ UNCHANGED <<view, prevView, extractReturn, quitting, browse, find>>
    BY DEF Rerun, DiffIdle, InDiff, Stay, Press
  <1>2. /\ DiffState(DiffNow) /\ DiffNow.diff = diff /\ DiffNow.commands = flight /\ DiffSound(diff)
        /\ DiffShown(diff, InFront, Base)
        /\ \A f \in flight : Current(f, {"info"}, diff.infoGen) => InFront = "diffInfo" /\ InfoAwaits(f, diff)
    BY DiffIs
  <1>3. InFront = "diff" /\ Base = "diff" /\ InFront' = "diff" /\ Base' = "diff"
    BY <1>1 DEF InFront, Base
  <1>4. /\ DiffState(x) /\ x.commands = flight
        /\ SameBut(diff, x.diff, {"searching", "jumped", "origin"})
        /\ x.diff.searching = FALSE /\ x.diff.jumped = FALSE /\ x.diff.origin = Root
    BY <1>2, DiffSearchExited
  <1> HIDE DEF x
  <1>5. /\ DiffState(s) /\ Kept(flight, s.commands, {"diff"})
        /\ SameBut(x.diff, s.diff, {"gen", "cancel"})
        /\ s.diff.gen = x.diff.gen + 1 /\ s.diff.cancel = 0
        /\ \A f \in s.commands : ~Current(f, {"diff"}, x.diff.gen + 1)
        /\ x.diff.gen + 1 \in Nat \ {0}
    BY <1>4, DiffSuperseded
  <1>6. ASSUME NEW a, NEW b, NEW m, a # 0, b # 0, m \in BOOLEAN, Hold(DispatchDiff(s, a, b, m))
        PROVE  IInv'
    <2> DEFINE ask == [older |-> a, newer |-> b, meta |-> m]
               w == DispatchDiff(s, a, b, m)
    <2>1. Hold(w)
      BY <1>6
    <2>2. DiffSent(s, ask, w)
      BY <1>5, DiffDispatched
    <2>3. ask.older = a /\ ask.newer = b /\ ask.meta = m
      OBVIOUS
    <2> HIDE DEF ask, w, s
    <2>4. /\ w.diff.gen = s.diff.gen /\ w.diff.cancel = s.diff.gen
          /\ w.diff.infoGen = diff.infoGen /\ w.diff.infoCancel = diff.infoCancel
          /\ w.diff.meta = diff.meta /\ w.diff.older = diff.older /\ w.diff.newer = diff.newer
          /\ w.diff.tree = diff.tree /\ w.diff.dir = diff.dir /\ w.diff.searching = FALSE /\ w.diff.jumped = FALSE
          /\ w.diff.origin = Root /\ w.diff.infoRow = diff.infoRow /\ w.diff.first = diff.first /\ w.diff.second = diff.second
      BY <1>4, <1>5, <2>2 DEF DiffSent, SameBut, DiffFields
    <2>5. DiffState(w) /\ Kept(s.commands, w.commands, {"diff"})
      BY <2>2 DEF DiffSent
    <2>6. Kept(flight, w.commands, {"diff"})
      BY <1>5, <2>5, KeptTwice
    <2>7. Kept(flight, w.commands, {"diff", "info"})
      BY <2>6, KeptWider
    <2>8. DiffSound(w.diff)
      <3>1. Root \in Seq(STRING)
        BY DEF Root
      <3> QED BY <1>2, <2>4, <3>1 DEF DiffSound
    <2>9. w.diff.cancel # 0
      BY <1>5, <2>4
    <2>10. DiffShown(w.diff, InFront', Base')
      BY <1>2, <1>3, <2>4, <2>9 DEF DiffShown
    <2>11. \A f \in w.commands : Current(f, {"diff"}, w.diff.gen) => InFront' = "diff" /\ DiffAwaits(f, w.diff)
      <3>1. \A f \in w.commands : Current(f, {"diff"}, w.diff.gen) => f.ask = ask
        BY <2>2, <2>4 DEF DiffSent
      <3> QED BY <1>3, <1>6, <2>3, <2>9, <3>1 DEF DiffAwaits
    <2>12. \A f \in w.commands : ~Current(f, {"info"}, w.diff.infoGen)
      <3>1. \A f \in w.commands : f.what = "info" => f \in flight
        BY <2>6, OthersCarried
      <3> QED BY <1>2, <1>3, <2>4, <3>1 DEF Current
    <2> QED BY <1>1, <2>1, <2>5, <2>7, <2>8, <2>10, <2>11, <2>12, DiffStep
  <1>7. diff.older # 0 /\ diff.newer # 0 /\ diff.meta \in BOOLEAN
    BY <1>2, <1>3 DEF DiffShown, DiffSound
  <1>8. \/ Hold(DispatchDiff(s, diff.newer, diff.older, diff.meta))
        \/ Hold(DispatchDiff(s, diff.older, diff.newer, ~diff.meta))
    BY DEF Rerun, x
  <1> HIDE DEF s
  <1>9. (~diff.meta) \in BOOLEAN
    BY <1>7
  <1> QED BY <1>6, <1>7, <1>8, <1>9

\* The diff is left for the detail screen, by the user or by a failure.
LEMMA DiffLeft ==
  ASSUME IInv, ~quitting, InFront = "diff", view' = "detail",
         UNCHANGED <<prevView, extractReturn, quitting, browse, find>>,
         NEW s, NEW t, DiffCleared(s, t), s.diff.meta = diff.meta, Kept(flight, s.commands, {"diff", "info"}), Hold(t)
  PROVE  IInv'
  <1>1. DiffState(t) /\ Kept(flight, t.commands, {"diff", "info"})
    BY KeptTwice DEF DiffCleared
  <1>2. InFront' = "detail" /\ Base' = "detail"
    BY DEF InFront, Base
  <1>3. diff.meta \in BOOLEAN /\ Root \in Seq(STRING)
    BY DiffIs DEF DiffSound, Root
  <1>4. DiffSound(t.diff)
    BY <1>3, NoTreeIsTree DEF DiffSound, DiffCleared
  <1>5. DiffShown(t.diff, InFront', Base')
    BY <1>2 DEF DiffShown, DiffCleared
  <1>6. \A f \in t.commands : ~Current(f, {"diff"}, t.diff.gen) /\ ~Current(f, {"info"}, t.diff.infoGen)
    BY DEF DiffCleared
  <1>7. InFront \in DiffScreens /\ view' \in DiffScreens
    BY DEF DiffScreens
  <1> QED BY <1>1, <1>4, <1>5, <1>6, <1>7, DiffStep

LEMMA DiffBackKeeps == ASSUME IInv, DiffBack PROVE IInv'
  <1> DEFINE t == ClearDiff(SupersedeDiff(DiffNow))
  <1>1. /\ view = "diff" /\ view' = "detail" /\ ~quitting /\ Hold(t)
        /\ UNCHANGED <<prevView, extractReturn, quitting, browse, find>>
    BY DEF DiffBack, InDiff
  <1>2. DiffState(DiffNow) /\ DiffNow.diff = diff /\ DiffNow.commands = flight
    BY DiffIs
  <1>3. DiffCleared(DiffNow, t)
    BY <1>2, DiffClears
  <1> DEFINE s == DiffNow
  <1>4. InFront = "diff" /\ s.diff.meta = diff.meta /\ Kept(flight, s.commands, {"diff", "info"}) /\ DiffCleared(s, t)
    BY <1>1, <1>2, <1>3, KeptAll DEF InFront
  <1> HIDE DEF t, s
  <1> QED BY <1>1, <1>4, DiffLeft

LEMMA CloseDiffInfoKeeps == ASSUME IInv, CloseDiffInfo PROVE IInv'
  <1> DEFINE t == DropInfo(DiffNow)
  <1>1. /\ view = "diffInfo" /\ view' = "diff" /\ ~quitting /\ Hold(t)
        /\ UNCHANGED <<prevView, extractReturn, quitting, browse, find>>
    BY DEF CloseDiffInfo
  <1>2. /\ DiffState(DiffNow) /\ DiffNow.diff = diff /\ DiffNow.commands = flight /\ DiffSound(diff)
        /\ DiffShown(diff, InFront, Base)
        /\ \A f \in flight : Current(f, {"diff"}, diff.gen) => InFront = "diff" /\ DiffAwaits(f, diff)
    BY DiffIs
  <1>3. InFront = "diffInfo" /\ Base = "diffInfo" /\ InFront' = "diff" /\ Base' = "diff"
    BY <1>1 DEF InFront, Base
  <1>4. /\ DiffState(t) /\ Kept(flight, t.commands, {"info"})
        /\ SameBut(diff, t.diff, {"infoGen", "infoCancel", "infoRow", "first", "second"})
        /\ t.diff.infoGen = diff.infoGen + 1 /\ t.diff.infoCancel = 0
        /\ t.diff.infoRow = NoRow /\ t.diff.first = NoSide /\ t.diff.second = NoSide
        /\ \A f \in t.commands : ~Current(f, {"info"}, diff.infoGen + 1)
        /\ \A f \in t.commands : \E g \in flight : f.what = g.what /\ f.gen = g.gen
    BY <1>2, InfoDropped
  <1> HIDE DEF t
  <1>5. /\ t.diff.older = diff.older /\ t.diff.newer = diff.newer /\ t.diff.tree = diff.tree /\ t.diff.meta = diff.meta
        /\ t.diff.dir = diff.dir /\ t.diff.searching = diff.searching /\ t.diff.jumped = diff.jumped
        /\ t.diff.origin = diff.origin /\ t.diff.cancel = diff.cancel /\ t.diff.gen = diff.gen
    BY <1>4 DEF SameBut, DiffFields
  <1>6. DiffSound(t.diff)
    BY <1>2, <1>4, <1>5, NoTreeIsTree DEF DiffSound
  <1>7. DiffShown(t.diff, InFront', Base')
    BY <1>2, <1>3, <1>4, <1>5 DEF DiffShown
  <1>8. \A f \in t.commands : ~Current(f, {"diff"}, t.diff.gen)
    BY <1>2, <1>3, <1>4, <1>5 DEF Current
  <1>9. Kept(flight, t.commands, {"diff", "info"})
    BY <1>4, KeptWider
  <1>10. InFront \in DiffScreens /\ view' \in DiffScreens
    BY <1>1, <1>3 DEF DiffScreens
  <1> QED BY <1>1, <1>4, <1>6, <1>7, <1>8, <1>9, <1>10, DiffStep

\* A side of the info screen is asked for.
LEMMA SideAsked ==
  ASSUME NEW side, NEW id, IsSide(side, id), side.of = 0, NEW x \in BOOLEAN
  PROVE  IsSide([side EXCEPT !.want = x], id) /\ [side EXCEPT !.want = x].want = x
  <1> DEFINE e == [side EXCEPT !.want = x]
  <1>1. side = [want |-> side.want, of |-> side.of]
    BY DEF IsSide
  <1>2. e = [want |-> x, of |-> side.of]
    BY <1>1
  <1> HIDE DEF e
  <1>3. e.want = x /\ e.of = 0
    BY <1>2
  <1>4. IsSide(e, id)
    BY <1>2, <1>3 DEF IsSide
  <1> QED BY <1>3, <1>4 DEF e

\* A side of the info screen is told what was found.
LEMMA SideTold ==
  ASSUME NEW side, NEW id, IsSide(side, id), NEW x, x \in {0, IF side.want THEN id ELSE 0}
  PROVE  IsSide([side EXCEPT !.of = x], id) /\ [side EXCEPT !.of = x].want = side.want
  <1> DEFINE e == [side EXCEPT !.of = x]
  <1>1. side = [want |-> side.want, of |-> side.of] /\ side.want \in BOOLEAN
    BY DEF IsSide
  <1>2. e = [want |-> side.want, of |-> x]
    BY <1>1
  <1> HIDE DEF e
  <1>3. e.want = side.want /\ e.of = x
    BY <1>2
  <1>4. IsSide(e, id)
    BY <1>1, <1>2, <1>3 DEF IsSide
  <1> QED BY <1>3, <1>4 DEF e

LEMMA OpenDiffInfoKeeps == ASSUME IInv, OpenDiffInfo PROVE IInv'
  <1> DEFINE s == DropInfo(DiffNow)
             ask(row, sides) == [row |-> row, first |-> IF "first" \in sides THEN diff.older ELSE 0,
                                 second |-> IF "second" \in sides THEN diff.newer ELSE 0]
             c(row, sides) == [s.diff EXCEPT !.infoCancel = s.diff.infoGen, !.infoRow = [path |-> row],
                                             !.first = [@ EXCEPT !.want = "first" \in sides],
                                             !.second = [@ EXCEPT !.want = "second" \in sides]]
             D(row, sides) == s.commands \cup {Command("info", s.diff.infoGen, ask(row, sides))}
  <1>1. /\ view = "diff" /\ view' = "diffInfo" /\ ~quitting /\ ~DiffLoading
        /\ UNCHANGED <<prevView, extractReturn, quitting, browse, find>>
    BY DEF OpenDiffInfo, DiffIdle, InDiff, Press
  <1>2. PICK row \in Rows, sides \in {{"first"}, {"second"}, {"first", "second"}} :
          Hold([diff |-> c(row, sides), commands |-> D(row, sides)])
    BY DEF OpenDiffInfo
  <1>3. /\ DiffState(DiffNow) /\ DiffNow.diff = diff /\ DiffNow.commands = flight /\ DiffSound(diff)
        /\ DiffShown(diff, InFront, Base)
        /\ \A f \in flight : Current(f, {"diff"}, diff.gen) => InFront = "diff" /\ DiffAwaits(f, diff)
    BY DiffIs
  <1>4. InFront = "diff" /\ Base = "diff" /\ InFront' = "diffInfo" /\ Base' = "diffInfo"
    BY <1>1 DEF InFront, Base
  <1>5. diff.cancel = 0
    BY <1>1 DEF DiffLoading
  <1>6. [path |-> row] # NoRow
    <2>1. row # <<>>
      <3>1. diff.dir \in Seq(STRING) /\ diff.tree.dirs \subseteq Seq(STRING) \ {<<>>}
        BY <1>3 DEF DiffSound, IsTree
      <3>2. Append(diff.dir, "file") # <<>>
        BY <3>1
      <3> QED BY <1>2, <3>1, <3>2 DEF Rows
    <2> QED BY <2>1 DEF NoRow, Root
  <1> DEFINE a == ask(row, sides)
             e == c(row, sides)
             E == D(row, sides)
             w1 == "first" \in sides
             w2 == "second" \in sides
             one == [s.diff.first EXCEPT !.want = w1]
             two == [s.diff.second EXCEPT !.want = w2]
             t == [diff |-> e, commands |-> E]
  <1>7. Hold(t)
    BY <1>2
  <1>8. /\ a.first = (IF w1 THEN diff.older ELSE 0) /\ a.second = (IF w2 THEN diff.newer ELSE 0)
        /\ w1 \in BOOLEAN /\ w2 \in BOOLEAN
    OBVIOUS
  <1>9. /\ DiffState(s) /\ Kept(flight, s.commands, {"info"})
        /\ SameBut(diff, s.diff, {"infoGen", "infoCancel", "infoRow", "first", "second"})
        /\ s.diff.infoGen = diff.infoGen + 1 /\ s.diff.infoCancel = 0
        /\ s.diff.infoRow = NoRow /\ s.diff.first = NoSide /\ s.diff.second = NoSide
        /\ \A f \in s.commands : ~Current(f, {"info"}, diff.infoGen + 1)
        /\ \A f \in s.commands : \E g \in flight : f.what = g.what /\ f.gen = g.gen
        /\ diff.infoGen + 1 \in Nat \ {0}
    BY <1>3, InfoDropped
  <1>10. /\ DiffRecord(e) /\ SameBut(s.diff, e, {"infoCancel", "infoRow", "first", "second"})
         /\ e.infoCancel = s.diff.infoGen /\ e.infoRow = [path |-> row] /\ e.first = one /\ e.second = two
    <2>1. DiffRecord(s.diff)
      BY <1>9 DEF DiffState
    <2> HIDE DEF s, w1, w2
    <2> QED BY <2>1 DEF DiffRecord, SameBut, DiffFields, w1, w2
  <1> HIDE DEF s, w1, w2, a
  <1>11. /\ IsSide(one, diff.older) /\ one.want = w1
         /\ IsSide(two, diff.newer) /\ two.want = w2
    <2>1. NoSide.of = 0
      BY DEF NoSide
    <2>2. /\ IsSide(s.diff.first, diff.older) /\ s.diff.first.of = 0 /\ w1 \in BOOLEAN
          /\ IsSide(s.diff.second, diff.newer) /\ s.diff.second.of = 0 /\ w2 \in BOOLEAN
      BY <1>8, <1>9, <2>1, NoTreeIsTree
    <2>3. IsSide(one, diff.older) /\ one.want = w1
      BY ONLY <2>2, SideAsked
    <2>4. IsSide(two, diff.newer) /\ two.want = w2
      BY ONLY <2>2, SideAsked
    <2> QED BY <2>3, <2>4
  <1> HIDE DEF one, two
  <1>12. E = s.commands \cup {Command("info", s.diff.infoGen, a)}
    BY DEF a
  <1> HIDE DEF e, E, c, D, ask
  <1>13. /\ \A f \in E : IsCommand(f)
         /\ Group(E, {"info"}, s.diff.infoGen, s.diff.infoGen)
         /\ \A f \in E : Current(f, {"info"}, s.diff.infoGen) => f.what = "info" /\ f.ask = a
         /\ Kept(s.commands, E, {"info"})
    <2>1. Group(s.commands, {"info"}, s.diff.infoGen, 0) /\ s.diff.infoGen \in Nat \ {0} /\ \A f \in s.commands : IsCommand(f)
      BY <1>9 DEF DiffState
    <2>2. \A f \in s.commands : ~Current(f, {"info"}, s.diff.infoGen)
      BY <1>9
    <2>3. {"info"} \subseteq BrowseKinds \cup {"find", "diff", "info"} /\ "info" \in {"info"}
      OBVIOUS
    <2> DEFINE F == s.commands \cup {Command("info", s.diff.infoGen, a)}
    <2>4. /\ \A f \in F : IsCommand(f)
          /\ Group(F, {"info"}, s.diff.infoGen, s.diff.infoGen)
          /\ \A f \in F : Current(f, {"info"}, s.diff.infoGen) => f.what = "info" /\ f.ask = a
          /\ Kept(s.commands, F, {"info"})
      BY ONLY <2>1, <2>2, <2>3, GroupSent
    <2> HIDE DEF F
    <2>5. E = F
      BY <1>12 DEF F
    <2> QED BY ONLY <2>4, <2>5
  <1>14. /\ e.gen = diff.gen /\ e.cancel = 0 /\ e.infoGen = s.diff.infoGen /\ e.meta = diff.meta
         /\ e.older = diff.older /\ e.newer = diff.newer /\ e.tree = diff.tree /\ e.dir = diff.dir
         /\ e.searching = diff.searching /\ e.jumped = diff.jumped /\ e.origin = diff.origin
    BY <1>5, <1>9, <1>10 DEF SameBut, DiffFields
  <1>15. Kept(flight, E, {"info"})
    BY <1>9, <1>13, KeptTwice
  <1>16. Group(E, {"diff"}, e.gen, e.cancel)
    <2>1. Of(E, {"diff"}) = Of(flight, {"diff"})
      <3>1. {"diff"} \cap {"info"} = {}
        OBVIOUS
      <3> QED BY ONLY <1>15, <3>1 DEF Kept
    <2>2. Group(flight, {"diff"}, diff.gen, diff.cancel)
      BY DEF IInv, FlightInv
    <2> QED BY <1>5, <1>14, <2>1, <2>2, GroupOf
  <1>17. DiffState(t) /\ t.diff = e /\ t.commands = E
    BY <1>10, <1>13, <1>14, <1>16, DiffStateIs
  <1> HIDE DEF t
  <1>18. DiffSound(e)
    BY <1>3, <1>5, <1>10, <1>11, <1>14 DEF DiffSound
  <1>19. DiffShown(e, InFront', Base')
    BY <1>3, <1>4, <1>5, <1>6, <1>10, <1>14 DEF DiffShown
  <1>20. \A f \in E : ~Current(f, {"diff"}, e.gen)
    <2>1. Of(E, {"diff"}) = Of(flight, {"diff"})
      <3>1. {"diff"} \cap {"info"} = {}
        OBVIOUS
      <3> QED BY ONLY <1>15, <3>1 DEF Kept
    <2>2. \A f \in E : f.what = "diff" => f \in flight
      BY ONLY <2>1 DEF Of
    <2>3. \A f \in flight : ~Current(f, {"diff"}, diff.gen)
      BY <1>3, <1>5 DEF DiffAwaits
    <2> QED BY <1>14, <2>2, <2>3 DEF Current
  <1>21. \A f \in E : Current(f, {"info"}, e.infoGen) => InFront' = "diffInfo" /\ InfoAwaits(f, e)
    BY <1>4, <1>8, <1>9, <1>10, <1>11, <1>13, <1>14 DEF InfoAwaits
  <1>22. Kept(flight, t.commands, {"diff", "info"})
    BY <1>15, <1>17, KeptWider
  <1>23. InFront \in DiffScreens /\ view' \in DiffScreens
    BY <1>1, <1>4 DEF DiffScreens
  <1>24. /\ \A f \in t.commands : Current(f, {"diff"}, t.diff.gen) => InFront' = "diff" /\ DiffAwaits(f, t.diff)
         /\ \A f \in t.commands : Current(f, {"info"}, t.diff.infoGen) => InFront' = "diffInfo" /\ InfoAwaits(f, t.diff)
         /\ DiffSound(t.diff) /\ DiffShown(t.diff, InFront', Base')
    BY <1>17, <1>18, <1>19, <1>20, <1>21
  <1> QED BY <1>1, <1>7, <1>17, <1>22, <1>23, <1>24, DiffStep

-----------------------------------------------------------------------------
(* Diff: its messages. *)

\* A tree of the lines of a diff, or of some of them, goes on the screen.
LEMMA InstallKeeps ==
  ASSUME IInv, ~quitting, InFront = "diff", UNCHANGED <<view, prevView, extractReturn, quitting, browse, find>>,
         NEW s, DiffState(s), SameBut(diff, s.diff, {"cancel"}), s.diff.cancel = 0, diff.cancel # 0,
         Kept(flight, s.commands, {"diff", "info"}),
         \A f \in s.commands : ~Current(f, {"diff"}, s.diff.gen) /\ ~Current(f, {"info"}, s.diff.infoGen),
         NEW ask, ask.older # 0, ask.newer # 0, ask.meta \in BOOLEAN,
         NEW dirs \in {{}, DiffDirs[ask.meta]}, NEW partial, Hold(Install(s, TreeOf(ask, dirs, partial)))
  PROVE  IInv'
  <1> DEFINE tree == TreeOf(ask, dirs, partial)
             t == Install(s, tree)
             dir == ExistingDiffDir(tree, s.diff.dir)
  <1>1. tree.older = ask.older /\ tree.newer = ask.newer /\ tree.meta = ask.meta /\ tree.dirs = dirs /\ tree # NoTree
    <2>1. tree = [older |-> ask.older, newer |-> ask.newer, meta |-> ask.meta, partial |-> partial, dirs |-> dirs]
      BY DEF TreeOf
    <2>2. DOMAIN tree # DOMAIN NoTree
      BY <2>1 DEF NoTree
    <2> QED BY <2>1, <2>2
  <1>2. IsTree(tree)
    <2>1. DiffDirs[ask.meta] \subseteq Seq(STRING) \ {<<>>} /\ \A d \in DiffDirs[ask.meta] : Front(d) \in DiffDirs[ask.meta] \cup {<<>>}
      BY DiffAssumption
    <2> QED BY <1>1, <2>1 DEF IsTree, Root
  <1> HIDE DEF tree
  <1>3. DiffInstalled(s, tree, t)
    BY DiffInstalls
  <1>4. Hold(t)
    BY DEF tree
  <1> HIDE DEF t
  <1>5. DiffSound(diff) /\ DiffShown(diff, InFront, Base)
    BY DiffIs
  <1>6. s.diff.dir = diff.dir /\ s.diff.gen = diff.gen
    BY DEF SameBut, DiffFields
  <1>7. dir \in tree.dirs \cup {Root} /\ dir \in Seq(STRING)
    <2>1. tree.dirs \subseteq Seq(STRING) /\ s.diff.dir \in Seq(STRING)
      BY <1>2, <1>5, <1>6 DEF IsTree, DiffSound
    <2> QED BY <2>1, ExistingIsThere
  <1>8. /\ t.diff.older = ask.older /\ t.diff.newer = ask.newer /\ t.diff.meta = ask.meta /\ t.diff.tree = tree
        /\ t.diff.dir = dir /\ t.diff.searching = diff.searching /\ t.diff.jumped = diff.jumped
        /\ t.diff.origin = diff.origin /\ t.diff.cancel = 0 /\ t.diff.gen = s.diff.gen
        /\ t.diff.infoRow = diff.infoRow /\ t.diff.first = diff.first /\ t.diff.second = diff.second
        /\ t.diff.infoGen = s.diff.infoGen /\ t.diff.infoCancel = diff.infoCancel
    BY <1>1, <1>3 DEF DiffInstalled, SameBut, DiffFields
  <1>9. DiffState(t) /\ t.commands = s.commands
    BY <1>3 DEF DiffInstalled
  <1>10. InFront' = "diff" /\ Base' = "diff" /\ Base = "diff"
    BY DEF InFront, Base
  <1> HIDE DEF dir
  <1>11. /\ ~diff.searching /\ ~diff.jumped /\ diff.origin = Root /\ Root \in Seq(STRING)
         /\ diff.infoRow = NoRow /\ diff.first = NoSide /\ diff.second = NoSide /\ diff.infoCancel = 0
    BY <1>5 DEF DiffSound, DiffShown, Root
  <1>12. DiffSound(t.diff)
    <2>1. IsSide(t.diff.first, t.diff.older) /\ IsSide(t.diff.second, t.diff.newer)
      BY <1>8, <1>11, NoTreeIsTree
    <2>2. IsTree(t.diff.tree) /\ t.diff.dir \in t.diff.tree.dirs \cup {Root} /\ t.diff.dir \in Seq(STRING)
      BY <1>2, <1>7, <1>8
    <2>3. t.diff.tree.older = t.diff.older /\ t.diff.tree.newer = t.diff.newer /\ t.diff.tree.meta = t.diff.meta
      BY <1>1, <1>8
    <2>4. /\ t.diff.meta \in BOOLEAN /\ t.diff.searching = FALSE /\ t.diff.jumped = FALSE /\ t.diff.cancel = 0
          /\ t.diff.origin = Root
      BY <1>5, <1>8, <1>11 DEF DiffSound
    <2> QED BY ONLY <1>11, <2>1, <2>2, <2>3, <2>4 DEF DiffSound
  <1>13. DiffShown(t.diff, InFront', Base')
    BY <1>1, <1>8, <1>10, <1>11 DEF DiffShown
  <1>14. \A f \in t.commands : ~Current(f, {"diff"}, t.diff.gen) /\ ~Current(f, {"info"}, t.diff.infoGen)
    BY <1>8, <1>9
  <1>15. Kept(flight, t.commands, {"diff", "info"})
    BY <1>9
  <1> QED BY <1>4, <1>9, <1>12, <1>13, <1>14, <1>15, DiffStep

\* What is left of the commands when the one that answered is taken away.
LEMMA DiffTaken ==
  ASSUME IInv, NEW f \in flight, f.what \in {"diff", "info"}
  PROVE  LET s == [diff |-> diff, commands |-> flight \ {f}]
         IN  /\ DiffState(s) /\ s.diff = diff /\ s.commands = flight \ {f}
             /\ Kept(flight, flight \ {f}, {"diff", "info"})
             /\ [DiffNow EXCEPT !.commands = @ \ {f}] = s
             /\ Current(f, {"diff"}, diff.gen) => \A g \in flight \ {f} : ~Current(g, {"diff"}, diff.gen)
             /\ Current(f, {"info"}, diff.infoGen) => \A g \in flight \ {f} : ~Current(g, {"info"}, diff.infoGen)
  <1> DEFINE C == flight \ {f}
  <1>1. /\ DiffNow = [diff |-> diff, commands |-> flight] /\ DiffRecord(diff)
        /\ Group(flight, {"diff"}, diff.gen, diff.cancel) /\ Group(flight, {"info"}, diff.infoGen, diff.infoCancel)
        /\ \A g \in flight : IsCommand(g)
    BY DiffIs DEF IInv, FlightInv
  <1>2. /\ Group(C, {"diff"}, diff.gen, diff.cancel) /\ Group(C, {"info"}, diff.infoGen, diff.infoCancel)
        /\ Current(f, {"diff"}, diff.gen) => \A g \in C : ~Current(g, {"diff"}, diff.gen)
        /\ Current(f, {"info"}, diff.infoGen) => \A g \in C : ~Current(g, {"info"}, diff.infoGen)
    BY <1>1, GroupTaken
  <1>5. Kept(flight, C, {"diff", "info"}) /\ \A g \in C : IsCommand(g)
    BY <1>1 DEF Kept, Of
  <1>3. [DiffNow EXCEPT !.commands = @ \ {f}] = [diff |-> diff, commands |-> C]
    BY <1>1
  <1> HIDE DEF C
  <1>4. LET s == [diff |-> diff, commands |-> C] IN DiffState(s) /\ s.diff = diff /\ s.commands = C
    BY <1>1, <1>2, <1>5, DiffStateIs
  <1> QED BY <1>2, <1>3, <1>4, <1>5 DEF C

LEMMA ApplyDiffKeeps ==
  ASSUME IInv, NEW f \in flight, f.what = "diff", f.gen = diff.gen, ~quitting, ApplyDiff(f),
         UNCHANGED <<prevView, extractReturn, quitting, browse, find>>
  PROVE  IInv'
  <1> DEFINE x == [DiffNow EXCEPT !.commands = @ \ {f}]
             s == CancelDiff(x)
             C == flight \ {f}
  <1>1. Current(f, {"diff"}, diff.gen)
    BY DEF Current
  <1>2. /\ DiffState(x) /\ x.diff = diff /\ x.commands = C /\ Kept(flight, C, {"diff", "info"})
        /\ \A g \in C : ~Current(g, {"diff"}, diff.gen)
    BY <1>1, DiffTaken
  <1>3. /\ InFront = "diff" /\ DiffAwaits(f, diff) /\ DiffSound(diff) /\ DiffShown(diff, InFront, Base)
        /\ \A g \in flight : ~Current(g, {"info"}, diff.infoGen)
    BY <1>1, DiffIs
  <1> HIDE DEF x
  <1>4. /\ DiffState(s) /\ Kept(C, s.commands, {"diff"})
        /\ SameBut(diff, s.diff, {"cancel"}) /\ s.diff.cancel = 0
        /\ \A g \in s.commands : \E h \in C : g.what = h.what /\ g.gen = h.gen
    BY <1>2, DiffCancelled
  <1> HIDE DEF s
  <1>5. s.diff.gen = diff.gen /\ s.diff.infoGen = diff.infoGen /\ s.diff.meta = diff.meta
    BY <1>4 DEF SameBut, DiffFields
  <1>6. \A g \in s.commands : ~Current(g, {"diff"}, s.diff.gen) /\ ~Current(g, {"info"}, s.diff.infoGen)
    BY <1>2, <1>3, <1>4, <1>5 DEF Current
  <1>7. Kept(flight, s.commands, {"diff", "info"})
    <2>1. Kept(C, s.commands, {"diff", "info"})
      BY <1>4, KeptWider
    <2> QED BY <1>2, <2>1, KeptTwice
  <1>8. diff.cancel # 0 /\ f.ask.older # 0 /\ f.ask.newer # 0 /\ f.ask.meta \in BOOLEAN
    BY <1>3 DEF DiffAwaits
  <1>9. CASE Hold(Install(s, TreeOf(f.ask, DiffDirs[f.ask.meta], FALSE))) /\ UNCHANGED view
    <2>1. DiffDirs[f.ask.meta] \in {{}, DiffDirs[f.ask.meta]}
      OBVIOUS
    <2> QED BY <1>3, <1>4, <1>6, <1>7, <1>8, <1>9, <2>1, InstallKeeps
  <1>10. CASE diff.tree = NoTree /\ UNCHANGED view /\ \E dirs \in {{}, DiffDirs[f.ask.meta]} : Hold(Install(s, TreeOf(f.ask, dirs, TRUE)))
    BY <1>3, <1>4, <1>6, <1>7, <1>8, <1>10, InstallKeeps
  <1>11. CASE diff.tree = NoTree /\ Hold(ClearDiff(SupersedeDiff(s))) /\ view' = "detail"
    <2> DEFINE t == ClearDiff(SupersedeDiff(s))
    <2>1. DiffCleared(s, t) /\ Hold(t) /\ view' = "detail"
      BY <1>4, <1>11, DiffClears
    <2> HIDE DEF t
    <2> QED BY <1>3, <1>5, <1>7, <2>1, DiffLeft
  <1>12. CASE diff.tree # NoTree /\ Hold(s) /\ UNCHANGED view
    <2>1. /\ s.diff.older = diff.older /\ s.diff.newer = diff.newer /\ s.diff.tree = diff.tree
          /\ s.diff.dir = diff.dir /\ s.diff.searching = diff.searching /\ s.diff.jumped = diff.jumped
          /\ s.diff.origin = diff.origin /\ s.diff.infoRow = diff.infoRow /\ s.diff.first = diff.first
          /\ s.diff.second = diff.second /\ s.diff.infoCancel = diff.infoCancel
      BY <1>4 DEF SameBut, DiffFields
    <2>2. DiffSound(s.diff)
      BY <1>3, <1>4, <1>5, <2>1 DEF DiffSound
    <2>3. InFront' = "diff" /\ Base' = "diff" /\ Base = "diff"
      BY <1>3, <1>12 DEF InFront, Base
    <2>4. DiffShown(s.diff, InFront', Base')
      BY <1>3, <1>4, <1>12, <2>1, <2>3 DEF DiffShown
    <2> QED BY <1>4, <1>6, <1>7, <1>12, <2>2, <2>4, DiffStep
  <1> QED BY <1>9, <1>10, <1>11, <1>12 DEF ApplyDiff, s, x

LEMMA ApplyInfoKeeps ==
  ASSUME IInv, NEW f \in flight, f.what = "info", f.gen = diff.infoGen, ~quitting, ApplyInfo(f),
         UNCHANGED <<prevView, extractReturn, quitting, browse, find>>
  PROVE  IInv'
  <1> DEFINE C == flight \ {f}
             D == Cancelled(C, {"info"}, diff.infoCancel)
  <1>1. Current(f, {"info"}, diff.infoGen) /\ view' = view /\ flight' = D
    BY DEF Current, ApplyInfo
  <1>2. /\ Group(C, {"diff"}, diff.gen, diff.cancel) /\ Group(C, {"info"}, diff.infoGen, diff.infoCancel)
        /\ Kept(flight, C, {"diff", "info"}) /\ \A g \in C : IsCommand(g)
        /\ \A g \in C : ~Current(g, {"info"}, diff.infoGen)
    BY <1>1, DiffTaken DEF DiffState
  <1>3. /\ InFront = "diffInfo" /\ InfoAwaits(f, diff) /\ DiffRecord(diff) /\ DiffSound(diff) /\ DiffShown(diff, InFront, Base)
        /\ \A g \in flight : ~Current(g, {"diff"}, diff.gen)
    BY <1>1, DiffIs
  <1> DEFINE one(x) == [diff.first EXCEPT !.of = x]
             two(y) == [diff.second EXCEPT !.of = y]
             e(x, y) == [diff EXCEPT !.infoCancel = 0, !.first = one(x), !.second = two(y)]
  <1>4. PICK x \in Found(f.ask.first), y \in Found(f.ask.second) : diff' = e(x, y)
    BY DEF ApplyInfo
  <1> DEFINE a == one(x)
             b == two(y)
             d == e(x, y)
             t == [diff |-> d, commands |-> D]
  <1>5. IsSide(diff.first, diff.older) /\ IsSide(diff.second, diff.newer)
    BY <1>3 DEF DiffSound
  <1>6. x \in {0, IF diff.first.want THEN diff.older ELSE 0} /\ y \in {0, IF diff.second.want THEN diff.newer ELSE 0}
    BY <1>3, <1>4 DEF InfoAwaits, Found
  <1>7. IsSide(a, diff.older) /\ a.want = diff.first.want /\ IsSide(b, diff.newer) /\ b.want = diff.second.want
    <2>1. IsSide(a, diff.older) /\ a.want = diff.first.want
      BY ONLY <1>5, <1>6, SideTold
    <2>2. IsSide(b, diff.newer) /\ b.want = diff.second.want
      BY ONLY <1>5, <1>6, SideTold
    <2> QED BY <2>1, <2>2
  <1> HIDE DEF a, b, one, two
  <1>8. DiffRecord(d) /\ SameBut(diff, d, {"infoCancel", "first", "second"}) /\ d.infoCancel = 0 /\ d.first = a /\ d.second = b
    BY <1>3 DEF DiffRecord, SameBut, DiffFields, a, b
  <1>9. /\ Group(D, {"info"}, diff.infoGen, 0) /\ \A g \in D : IsCommand(g)
        /\ Kept(C, D, {"info"})
        /\ \A g \in D : \E h \in C : g.what = h.what /\ g.gen = h.gen
    <2> HIDE DEF C
    <2>1. Group(D, {"info"}, diff.infoGen, 0)
      BY <1>2, GroupCancelled
    <2>2. /\ \A g \in D : IsCommand(g)
          /\ Kept(C, D, {"info"})
          /\ \A g \in D : \E h \in C : g.what = h.what /\ g.gen = h.gen
      BY <1>2, CancelKeeps
    <2> QED BY <2>1, <2>2
  <1>10. diff' = d
    BY <1>4
  <1> HIDE DEF d, e, D
  <1>11. /\ d.gen = diff.gen /\ d.cancel = diff.cancel /\ d.infoGen = diff.infoGen /\ d.infoRow = diff.infoRow
         /\ d.older = diff.older /\ d.newer = diff.newer /\ d.meta = diff.meta /\ d.tree = diff.tree /\ d.dir = diff.dir
         /\ d.searching = diff.searching /\ d.jumped = diff.jumped /\ d.origin = diff.origin
    BY <1>8 DEF SameBut, DiffFields
  <1>12. Group(D, {"diff"}, diff.gen, diff.cancel)
    <2>1. {"diff"} \cap {"info"} = {}
      OBVIOUS
    <2>2. Of(D, {"diff"}) = Of(C, {"diff"})
      BY ONLY <1>9, <2>1 DEF Kept
    <2> QED BY <1>2, <2>2, GroupOf
  <1>13. DiffState(t) /\ t.diff = d /\ t.commands = D
    BY <1>8, <1>9, <1>11, <1>12, DiffStateIs
  <1>14. Hold(t)
    BY <1>1, <1>10, <1>13 DEF Hold
  <1> HIDE DEF t
  <1>15. DiffSound(d)
    BY <1>3, <1>7, <1>8, <1>11 DEF DiffSound
  <1>16. InFront' = InFront /\ Base' = Base
    BY <1>1 DEF InFront, Base
  <1>17. DiffShown(d, InFront', Base')
    BY <1>3, <1>8, <1>11, <1>16 DEF DiffShown
  <1>18. Kept(flight, D, {"diff", "info"})
    <2>1. Kept(C, D, {"diff", "info"})
      BY <1>9, KeptWider
    <2> QED BY <1>2, <2>1, KeptTwice
  <1>19. \A g \in D : ~Current(g, {"diff"}, d.gen) /\ ~Current(g, {"info"}, d.infoGen)
    <2>1. \A g \in C : ~Current(g, {"diff"}, d.gen) /\ ~Current(g, {"info"}, d.infoGen)
      BY <1>2, <1>3, <1>11
    <2> HIDE DEF C
    <2> QED BY <1>9, <2>1 DEF Current
  <1> QED BY <1>1, <1>13, <1>14, <1>15, <1>17, <1>18, <1>19, DiffStep

\* The answer to a question that was replaced changes nothing that is shown.
LEMMA DropDiffKeeps ==
  ASSUME IInv, NEW f \in flight, f.what \in {"diff", "info"}, ~quitting, flight' = flight \ {f},
         UNCHANGED <<view, diff, prevView, extractReturn, quitting, browse, find>>
  PROVE  IInv'
  <1> DEFINE t == [diff |-> diff, commands |-> flight \ {f}]
  <1>1. DiffState(t) /\ t.diff = diff /\ t.commands = flight \ {f} /\ Kept(flight, t.commands, {"diff", "info"})
    BY DiffTaken
  <1>2. Hold(t)
    BY <1>1 DEF Hold
  <1> HIDE DEF t
  <1>3. InFront' = InFront /\ Base' = Base
    BY DEF InFront, Base
  <1>4. /\ DiffSound(diff) /\ DiffShown(diff, InFront', Base')
        /\ \A g \in t.commands : Current(g, {"diff"}, diff.gen) => InFront' = "diff" /\ DiffAwaits(g, diff)
        /\ \A g \in t.commands : Current(g, {"info"}, diff.infoGen) => InFront' = "diffInfo" /\ InfoAwaits(g, diff)
    BY <1>1, <1>3, DiffIs
  <1> QED BY <1>1, <1>2, <1>4, DiffStep

LEMMA DiffAnswerKeeps == ASSUME IInv, NEW f \in flight, DiffAnswer(f) PROVE IInv'
  <1>1. /\ ~quitting /\ f.what \in {"diff", "info"}
        /\ UNCHANGED <<prevView, extractReturn, quitting, browse, find>>
    BY DEF DiffAnswer, Message
  <1>2. CASE f.what = "diff" /\ f.gen = diff.gen
    BY <1>1, <1>2, ApplyDiffKeeps DEF DiffAnswer
  <1>3. CASE f.what = "info" /\ f.gen = diff.infoGen /\ InfoLoading
    BY <1>1, <1>3, ApplyInfoKeeps DEF DiffAnswer
  <1>4. CASE ~(f.what = "diff" /\ f.gen = diff.gen) /\ ~(f.what = "info" /\ f.gen = diff.infoGen /\ InfoLoading)
    BY <1>1, <1>4, DropDiffKeeps DEF DiffAnswer
  <1> QED BY <1>2, <1>3, <1>4

LEMMA DiffKeysKeep == ASSUME IInv, DiffKeys PROVE IInv'
  BY StartDiffKeeps, RerunKeeps, ToggleFilterKeeps, MoveInTreeKeeps, OpenDiffSearchKeeps, AcceptDiffSearchKeeps,
     UndoDiffSearchKeeps, DiffBackKeeps, OpenDiffInfoKeeps, CloseDiffInfoKeeps DEF DiffKeys

-----------------------------------------------------------------------------
(* The invariant, and what follows from it. *)

LEMMA InitInv == ViewsInit => IInv
  <1> SUFFICES ASSUME ViewsInit PROVE IInv
    OBVIOUS
  <1> USE DEF ViewsInit
  <1>1. view = "list" /\ prevView = "list" /\ extractReturn = "list" /\ quitting = FALSE /\ flight = {}
    BY DEF NavInit
  <1>2. InFront = "list" /\ Base = "list"
    BY <1>1 DEF InFront, Base
  <1>3. NavInv
    BY <1>1, <1>2 DEF NavInv, Views
  <1>4. /\ browse.gen = 0 /\ browse.cancel = 0 /\ find.gen = 0 /\ find.cancel = 0
        /\ diff.gen = 0 /\ diff.cancel = 0 /\ diff.infoGen = 0 /\ diff.infoCancel = 0
    BY DEF BrowseInit, FindInit, DiffInit
  <1>5. FlightInv
    BY <1>1, <1>4 DEF FlightInv, Group, Of
  <1>6. BrowseInv
    <2>1. browse = [x \in BrowseFields |-> browse[x]]
      BY DEF BrowseInit, BrowseFields
    <2>2. /\ browse.rows = NoRows /\ browse.found = NoRows /\ browse.cache = NoCache /\ browse.dir = <<>>
          /\ browse.searching = FALSE /\ browse.suspended = FALSE /\ browse.loading = FALSE /\ browse.indexed = FALSE
      BY DEF BrowseInit
    <2>3. DOMAIN NoCache = {}
      BY DEF NoCache
    <2>4. BrowseAnswersQuestion
      BY <1>1, <1>2, <2>2, <2>3 DEF BrowseAnswersQuestion
    <2> QED BY <1>1, <2>1, <2>2, <2>3, <2>4 DEF BrowseInv
  <1>7. FindInv
    <2>1. find = [x \in FindFields |-> find[x]]
      BY DEF FindInit, FindFields
    <2>2. find.rows = NoRows /\ find.path = <<>> /\ find.all = FALSE /\ find.resultAll = FALSE
      BY DEF FindInit
    <2>3. FindAnswersQuestion
      BY <1>1, <1>2, <1>4, <2>2 DEF FindAnswersQuestion, FindLoading
    <2> QED BY <1>1, <1>2, <1>4, <2>1, <2>2, <2>3 DEF FindInv, FindLoading
  <1>8. DiffInv
    <2>1. diff = [x \in DiffFields |-> diff[x]]
      BY DEF DiffInit, DiffFields
    <2>2. /\ diff.tree = NoTree /\ diff.older = 0 /\ diff.meta = FALSE /\ diff.searching = FALSE /\ diff.jumped = FALSE
          /\ diff.dir = Root /\ diff.origin = Root /\ diff.infoRow = NoRow /\ diff.first = NoSide /\ diff.second = NoSide
      BY DEF DiffInit
    <2>3. ~DiffLoading /\ ~InfoLoading /\ Root \in Seq(STRING)
      BY <1>4 DEF DiffLoading, InfoLoading, Root
    <2>4. IsSide(diff.first, diff.older) /\ IsSide(diff.second, diff.newer) /\ IsTree(diff.tree)
      BY <2>2, NoTreeIsTree
    <2>5. Sides
      BY <2>4 DEF Sides, IsSide
    <2>6. DiffAnswersQuestion
      BY <1>1, <1>2, <2>2, <2>3, <2>4 DEF DiffAnswersQuestion, IsSide
    <2> QED BY <1>1, <1>2, <2>1, <2>2, <2>3, <2>4, <2>5, <2>6 DEF DiffInv, NoInfo
  <1> QED BY <1>3, <1>5, <1>6, <1>7, <1>8 DEF IInv

LEMMA Invariance == IInv /\ [ViewsNext]_viewsVars => IInv'
  <1> SUFFICES ASSUME IInv, [ViewsNext]_viewsVars PROVE IInv'
    OBVIOUS
  <1>1. CASE Navigate
    BY <1>1, NavigateKeeps
  <1>2. CASE DetailNext /\ UNCHANGED <<browse, find, diff>>
    BY <1>2, DetailKeeps
  <1>3. CASE BrowseKeys /\ UNCHANGED <<find, diff>>
    BY <1>3, BrowseKeysKeep
  <1>4. CASE FindKeys /\ UNCHANGED diff
    BY <1>4, FindKeysKeep
  <1>5. CASE DiffKeys
    BY <1>5, DiffKeysKeep
  <1>6. CASE Deliver
    BY <1>6, BrowseAnswerKeeps, FindAnswerKeeps, DiffAnswerKeeps DEF Deliver
  <1>7. CASE UNCHANGED viewsVars
    <2>1. /\ UNCHANGED <<view, prevView, extractReturn, quitting, flight, browse, find, diff>>
          /\ InFront' = InFront /\ Base' = Base
      BY <1>7 DEF viewsVars, navVars, InFront, Base
    <2>2. NavInv' /\ (browse.searching => view' = "browse")
      BY <2>1, BrowseIs DEF IInv, NavInv
    <2> QED BY <2>1, <2>2, ScreenStep
  <1> QED BY <1>1, <1>2, <1>3, <1>4, <1>5, <1>6, <1>7 DEF ViewsNext

LEMMA AlwaysInv == ViewsSpec => []IInv
  BY InitInv, Invariance, PTL DEF ViewsSpec

\* The view, the ones behind it and the commands are what they should be.
THEOREM TypeCorrect == ViewsSpec => []NavTypeOK
  <1>1. IInv => NavTypeOK
    BY DEF IInv, NavInv, FlightInv, IsCommand, NavTypeOK
  <1> QED BY <1>1, AlwaysInv, PTL

\* Every screen shows the answer to the question its labels ask, whatever keys
\* are pressed and whenever the answers arrive (browse.go, findversions.go,
\* snapshotdiff.go).
THEOREM AnswersTheQuestion == ViewsSpec => []ShownAnswersQuestion
  <1>1. IInv => ShownAnswersQuestion
    BY DEF IInv, BrowseInv, FindInv, DiffInv, ShownAnswersQuestion
  <1> QED BY <1>1, AlwaysInv, PTL

\* No restic process and no query works for a screen that was left, for a question
\* that was replaced or for a program that has quit (supersedeBrowse, supersedeFind,
\* supersedeSnapshotDiff, dropDiffInfo, quitModel).
THEOREM WorksForTheScreen == ViewsSpec => []NothingWorksUnseen
  <1>1. IInv => NothingWorksUnseen
    <2> SUFFICES ASSUME IInv, NEW f \in flight, f.live
                 PROVE  /\ ~quitting
                        /\ f.what \in BrowseKinds => f.gen = browse.gen /\ InFront = "browse" /\ (browse.loading \/ browse.searching)
                        /\ f.what = "find" => f.gen = find.gen /\ FindLoading /\ InFront = "find"
                        /\ f.what = "diff" => f.gen = diff.gen /\ DiffLoading /\ InFront = "diff"
                        /\ f.what = "info" => f.gen = diff.infoGen /\ InfoLoading /\ InFront = "diffInfo"
      BY DEF NothingWorksUnseen
    <2>1. ~quitting /\ f.gen # 0
      BY DEF IInv, FlightInv, IsCommand
    <2>2. ASSUME NEW K, NEW gen, NEW h, Group(flight, K, gen, h), f.what \in K PROVE Current(f, K, gen)
      BY <2>1, <2>2 DEF Group, Of, Current
    <2>3. f.what \in BrowseKinds => Current(f, BrowseKinds, browse.gen)
      BY <2>2 DEF IInv, FlightInv
    <2>4. f.what \in BrowseKinds => InFront = "browse" /\ Awaited(f, browse)
      BY <2>3, BrowseIs
    <2>5. f.what \in BrowseKinds => f.gen = browse.gen /\ InFront = "browse" /\ (browse.loading \/ browse.searching)
      BY <2>3, <2>4 DEF Awaited, Current
    <2>6. f.what = "find" => Current(f, {"find"}, find.gen)
      BY <2>2 DEF IInv, FlightInv
    <2>7. f.what = "diff" => Current(f, {"diff"}, diff.gen)
      BY <2>2 DEF IInv, FlightInv
    <2>8. f.what = "info" => Current(f, {"info"}, diff.infoGen)
      BY <2>2 DEF IInv, FlightInv
    <2> QED BY <2>1, <2>5, <2>6, <2>7, <2>8 DEF IInv, FindInv, DiffInv, Current
  <1> QED BY <1>1, AlwaysInv, PTL
===============================================================================
