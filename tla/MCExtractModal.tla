---------------------------- MODULE MCExtractModal ----------------------------
(* Instances of ExtractModal small enough for TLC. *)
EXTENDS ExtractModal

\* A plain source, and a changed path with both sides of a diff.
MCSelections == {<<"plain">>, <<"older", "newer">>}

\* Nothing in the way, or the second side's target under the default root.
MCOccupied == {{}, {<<DefaultRoot, "newer">>}}

MCUnoccupied == {{}}
===============================================================================
