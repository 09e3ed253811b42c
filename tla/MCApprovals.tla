----------------------------- MODULE MCApprovals -----------------------------
(***************************************************************************)
(* Small instances of Approvals for TLC.                                   *)
(***************************************************************************)
EXTENDS Approvals, TLC

\* Handlers, users and amounts are interchangeable. (Approvals are not: some
\* are in Serial.)
IdSymmetry ==
  Permutations(Handlers) \cup Permutations(Users) \cup Permutations(Amounts)
===============================================================================
