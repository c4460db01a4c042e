----------------------------- MODULE SavedTasks ------------------------------
(***************************************************************************)
(* What TaskTree (src/tasktree/tasktree.hpp) promises to keep: one tree of *)
(* tasks, those a program that starts now would load.  A task enters it    *)
(* without children, leaves it with everything below it, and is renamed or *)
(* marked where it is.  Nothing else changes the tree: not a restart, not  *)
(* a statement that fails, and no row that was left behind ever comes back.*)
(***************************************************************************)
EXTENDS TaskTable

VARIABLE saved  \* a table: the rows below the head

Init == saved = EmptyTable

Add(id, parent, name) ==
  /\ id \notin DOMAIN saved
  /\ saved' = Insert(saved, id, parent, name)

Drop(id) ==
  saved' = [i \in DOMAIN saved \ ({id} \cup Under(saved, id)) |-> saved[i]]

Rename(id, name) == saved' = UpdateName(saved, id, name)

Mark(id, completed) == saved' = UpdateCompleted(saved, id, completed)

Next ==
  \/ \E id \in RowIds, parent \in DOMAIN saved \cup {0}, name \in Names :
       Add(id, parent, name)
  \/ \E id \in DOMAIN saved :
       \/ Drop(id)
       \/ \E name \in Names : Rename(id, name)
       \/ \E completed \in BOOLEAN : Mark(id, completed)

Spec == Init /\ [][Next]_saved
=============================================================================
