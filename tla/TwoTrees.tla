------------------------------ MODULE TwoTrees -------------------------------
(***************************************************************************)
(* Two programs with a TaskTree each on one file: the window and the       *)
(* command line program, or the same one twice.  Each is a SharedTable to  *)
(* which the other is Elsewhere.  Both are instances of SharedTable with   *)
(* its theorems, for TwoTreesProofs to cite.                               *)
(***************************************************************************)
EXTENDS TaskHeap, Sequences

CONSTANT MaxTasks

VARIABLES
  rows,                                             \* the file
  running1, heap1, calls1, astray1, undisturbed1,   \* the first program
  running2, heap2, calls2, astray2, undisturbed2    \* the second

one == <<running1, heap1, calls1, astray1>>
two == <<running2, heap2, calls2, astray2>>
allVars == <<rows, one, undisturbed1, two, undisturbed2>>

First == INSTANCE SharedTableProofs WITH
  running <- running1, heap <- heap1, calls <- calls1, astray <- astray1,
  undisturbed <- undisturbed1

Second == INSTANCE SharedTableProofs WITH
  running <- running2, heap <- heap2, calls <- calls2, astray <- astray2,
  undisturbed <- undisturbed2

Init == First!SharedInit /\ Second!SharedInit

FirstMoves ==
  /\ First!SharedStart \/ First!OwnStep
  /\ undisturbed2' = (undisturbed2 /\ rows' = rows)
  /\ UNCHANGED two

SecondMoves ==
  /\ Second!SharedStart \/ Second!OwnStep
  /\ undisturbed1' = (undisturbed1 /\ rows' = rows)
  /\ UNCHANGED one

Spec == Init /\ [][FirstMoves \/ SecondMoves]_allVars

-----------------------------------------------------------------------------
\* To each of two programs the other is no more than Elsewhere: what is shown of
\* SharedTable holds of both.
EachIsShared == First!SharedSpec /\ Second!SharedSpec

\* Whatever the other program does to the table between two of its statements,
\* the references a call of remove or of a load holds are to tasks that are
\* still there, as long as no misleading parent pointer was followed.
CallsUnharmed == First!CallsHoldLiveTasks /\ Second!CallsHoldLiveTasks
=============================================================================
