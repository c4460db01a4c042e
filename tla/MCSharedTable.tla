---------------------------- MODULE MCSharedTable ----------------------------
(***************************************************************************)
(* Small instances of SharedTable for TLC.                                 *)
(***************************************************************************)
EXTENDS SharedTable, TLC

\* Buffers are interchangeable: sound for the safety properties.
BufSymmetry == Permutations(Bufs)

\* Bounds: the program under test only loads, again and again; the others add
\* and delete rows, at most one of them while it runs.
LoaderNext ==
  \/ SharedStart
  \/ Stop /\ UNCHANGED undisturbed
  \/ Step /\ UNCHANGED undisturbed
  \/ /\ ~running \/ undisturbed
     /\ Elsewhere
     /\ \A i \in DOMAIN rows' : ~rows'[i].completed
LoaderSpec == SharedInit /\ [][LoaderNext]_sharedVars
FairLoaderSpec == LoaderSpec /\ WF_sharedVars(Step /\ UNCHANGED undisturbed)
=============================================================================
