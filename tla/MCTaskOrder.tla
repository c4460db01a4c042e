---------------------------- MODULE MCTaskOrder -----------------------------
(***************************************************************************)
(* Small instance of TaskOrder for TLC.                                    *)
(***************************************************************************)
EXTENDS TaskOrder, TLC

\* No step compares ids but for equality: sound for the safety properties.
IdSymmetry == Permutations(Ids)
=============================================================================
