----------------------------- MODULE MCTaskTree -----------------------------
(***************************************************************************)
(* Small instances of TaskTree for TLC.                                    *)
(***************************************************************************)
EXTENDS TaskTreeSaved, TLC

\* Buffers are interchangeable: sound for the safety properties.
BufSymmetry == Permutations(Bufs)

\* Bound: tasks are named and marked while the table holds at most two rows.
FewEdits ==
  \/ Cardinality(DOMAIN rows) <= 2
  \/ \A i \in DOMAIN rows : rows[i].name = "" /\ ~rows[i].completed

\* Bound: TaskTree up to the first step astray.
UnbrokenSpec == Init /\ [][Next /\ ~astray' /\ FewEdits']_vars

\* The requests that change the shape of the tree, without the edits.
Reshape ==
  \E a \in LiveAddrs(heap) : Remove(a) \/ \E name \in Names : AddChild(a, name)

ReshapeSpec == Init /\ [][Start \/ Stop \/ Step \/ Reshape]_vars

\* The same under the fairness of FairSpec.
FairReshapeSpec == ReshapeSpec /\ WF_vars(Step)
=============================================================================
