------------------------------- MODULE MCCli --------------------------------
(***************************************************************************)
(* Small instance of Cli for TLC.                                          *)
(***************************************************************************)
EXTENDS Cli

\* Bound: no task but the first is marked as completed.
FewMarks == \A i \in DOMAIN rows : rows[i].completed => i = 1
FewMarksSpec == CliInit /\ [][(Here \/ Elsewhere) /\ FewMarks']_allVars
FairFewMarksSpec == FewMarksSpec /\ WF_allVars(InLibrary \/ ListStep)
=============================================================================
