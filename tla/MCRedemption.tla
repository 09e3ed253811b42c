---------------------------- MODULE MCRedemption ----------------------------
(***************************************************************************)
(* Small instances of Redemption for TLC.                                  *)
(***************************************************************************)
EXTENDS Redemption, TLC

\* Requests and keys are interchangeable: each request picks what it asks for
\* in Init. (The entitlements are not: some are in Serial.)
IdSymmetry == Permutations(Requests) \cup Permutations(Keys)
=============================================================================
