---------------------------- MODULE MCStatements -----------------------------
(***************************************************************************)
(* Small instance of Statements for TLC.                                   *)
(***************************************************************************)
EXTENDS Statements

\* Bound: no task but the first is marked as completed.
FewMarks == \A i \in DOMAIN rows : rows[i].completed => i = 1
FewMarksSpec == Init /\ [][Next /\ FewMarks']_vars
FairFewMarksSpec == FewMarksSpec /\ \A c \in Conns : WF_vars(Load(c))
=============================================================================
