------------------------------- MODULE MCEvents -------------------------------
(***************************************************************************)
(* Small instances of Events for TLC.                                      *)
(***************************************************************************)
EXTENDS Events, TLC

\* Approvals and editors are interchangeable.
IdSymmetry == Permutations(Approvals) \cup Permutations(Editors)
===============================================================================
