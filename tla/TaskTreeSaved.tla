--------------------------- MODULE TaskTreeSaved ----------------------------
(***************************************************************************)
(* TaskTree implements SavedTasks for as long as it follows no misleading  *)
(* parent pointer: what is saved is what a load would reach.               *)
(***************************************************************************)
EXTENDS TaskTree

Tree == INSTANCE SavedTasks WITH saved <- Loaded(rows)

\* The table always holds one tree a user could have made, whatever is left in
\* it besides: each statement adds a childless task, takes one away with all
\* that is below it, or edits one; restarts, throws, the rows remove skips and
\* ids handed out again do not show.
KeepsTheTree == Tree!Spec
=============================================================================
