------------------------------- MODULE Selection -------------------------------
(***************************************************************************)
(* The list of repositories and the detail view of one side by side: the   *)
(* two screens whose rows a key or a refresh re-sorts, folds and replaces  *)
(* under the cursor.                                                       *)
(***************************************************************************)
EXTENDS Views, RepoList

\* What the keys act on stays under the cursor where the code moves the rows
\* (snapgroup.go, snapshotdiff.go; repo_commands.go, list_keys.go).
SelectionStays == [][SelectionKept]_viewsVars /\ [][ActionRepoKept]_list
===============================================================================
