----------------------------- MODULE MCTwoTrees ------------------------------
(***************************************************************************)
(* Small instance of TwoTrees for TLC.                                     *)
(***************************************************************************)
EXTENDS TwoTrees, TLC

\* A permutation of the buffers in both memories at once: sound for the safety
\* properties.
BufSymmetry == Permutations(Bufs)

\* Bounds: no check marks; the second program starts on an empty table and does
\* not end.
Unmarked(tasks) == \A x \in DOMAIN tasks : ~tasks[x].completed

ReshapeSpec ==
  Init /\ [][ /\ FirstMoves \/ SecondMoves
              /\ Unmarked(rows') /\ Unmarked(heap1'.at) /\ Unmarked(heap2'.at)
              /\ running2 => running2'
              /\ ~running2 /\ running2' => rows = EmptyTable]_allVars
=============================================================================
