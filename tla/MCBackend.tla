------------------------------ MODULE MCBackend -----------------------------
(***************************************************************************)
(* Small instances of Backend for TLC.                                     *)
(***************************************************************************)
EXTENDS Backend, TLC

\* Buffers are interchangeable: sound for the safety properties.
BufSymmetry == Permutations(Bufs)

\* Everything the window does but the edits of a task's own fields.
Browse ==
  \/ Open \/ Opened \/ Close \/ InLibrary \/ Deleted \/ goBack \/ goBackLost
  \/ \E name \in Names : addTask(name) \/ addTaskLost(name)
  \/ \E model \in tasks : deleteTask(model) \/ setCurrent(model)

\* Bounds: no edits after a step astray, and none while there are three rows.
FewEdits ==
  \/ Cardinality(DOMAIN rows) <= 2
  \/ \A i \in DOMAIN rows : rows[i].name = "a" /\ ~rows[i].completed

WindowNext == (Browse \/ (BackendNext /\ ~astray')) /\ FewEdits'
FairWindowSpec == BackendInit /\ [][WindowNext]_allVars /\ WF_allVars(Handler)
=============================================================================
