------------------------------ MODULE Navigation ------------------------------
(***************************************************************************)
(* Screens and commands of the terminal interface (internal/tui: routing.go*)
(* and the root Update of app.go).  Bubble Tea runs one handler at a time; *)
(* the commands a handler returns run beside it and answer, in any order,  *)
(* with one message each.  A command in flight is a record of what it was  *)
(* asked, the generation its message will carry, and whether its context   *)
(* is still open.                                                          *)
(***************************************************************************)
EXTENDS Integers, Sequences, FiniteSets

CONSTANT Budgets  \* how often keys may move each view on; bounds the behaviours

ASSUME NavigationAssumption ==
    Budgets \subseteq [{"browse", "find", "diff", "detail", "help"} -> Nat]

VARIABLES
    view,           \* the screen that is rendered and has the keys
    prevView,       \* the one behind the help overlay
    extractReturn,  \* the one the extract modal was opened from
    quitting,       \* the program's context is cancelled
    flight,         \* commands that have not answered yet
    budget          \* key presses left for each view

navVars == <<view, prevView, extractReturn, quitting, flight, budget>>

Views == {"list", "detail", "info", "browse", "find", "diff", "diffInfo", "extract", "help"}

\* What is in front once the help overlay is gone.
InFront == IF view = "help" THEN prevView ELSE view

NavInit ==
    /\ view = "list" /\ prevView = "list" /\ extractReturn = "list"
    /\ quitting = FALSE /\ flight = {}
    /\ budget \in Budgets

NavTypeOK ==
    /\ {view, prevView, extractReturn} \subseteq Views /\ quitting \in BOOLEAN
    /\ \A f \in flight : f.gen \in Nat /\ f.live \in BOOLEAN

-----------------------------------------------------------------------------
(* Commands.  A controller holds the generation of the command it may still*)
(* cancel, 0 for none.                                                     *)

Command(what, gen, ask) == [what |-> what, gen |-> gen, ask |-> ask, live |-> TRUE]

\* The held cancel function is called.
Cancelled(commands, kinds, handle) ==
    {IF f.what \in kinds /\ f.gen = handle THEN [f EXCEPT !.live = FALSE] ELSE f : f \in commands}

\* A key of the user, charged to the view it works for.
Press(what) == ~quitting /\ budget[what] > 0 /\ budget' = [budget EXCEPT ![what] = @ - 1]

\* The message of command f arrives at Update.
Message(f, kinds) == ~quitting /\ f.what \in kinds /\ UNCHANGED <<prevView, extractReturn, quitting, budget>>

-----------------------------------------------------------------------------
(* handleGlobalKey, goBack, the info screen and the extract modal.         *)

\* toggleHelp; a text input keeps the key for itself.
ToggleHelp(typing) ==
    /\ ~typing /\ Press("help")
    /\ IF view = "help" THEN view' = prevView /\ UNCHANGED prevView
       ELSE view' = "help" /\ prevView' = view
    /\ UNCHANGED <<extractReturn, quitting, flight>>

\* ctrl+c anywhere, q in the list: every command's context ends.
Quit ==
    /\ ~quitting /\ quitting' = TRUE
    /\ flight' = {[f EXCEPT !.live = FALSE] : f \in flight}
    /\ UNCHANGED <<view, prevView, extractReturn, budget>>

\* goBack out of help or info; out of detail it is Detail!LeaveDetail.
GoBack ==
    /\ ~quitting
    /\ \/ view = "help" /\ view' = prevView
       \/ view = "info" /\ view' = "detail"
    /\ UNCHANGED <<prevView, extractReturn, quitting, flight, budget>>

\* openExtract and its siblings: v opens the modal and will have the screen back.
OpenExtract(v) ==
    /\ ~quitting /\ view = v
    /\ view' = "extract" /\ extractReturn' = v
    /\ UNCHANGED <<prevView, quitting, flight, budget>>

\* extractBackToBrowseMsg, from the modal itself or from behind the overlay.
ExtractCloses ==
    /\ ~quitting /\ InFront = "extract"
    /\ view' = IF extractReturn \in {"detail", "find", "diff"} THEN extractReturn ELSE "browse"
    /\ extractReturn' = "list"
    /\ UNCHANGED <<prevView, quitting, flight, budget>>
===============================================================================
