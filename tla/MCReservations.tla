---------------------------- MODULE MCReservations ----------------------------
(***************************************************************************)
(* Small instances of Reservations for TLC.                                *)
(***************************************************************************)
EXTENDS Reservations, TLC

\* Handlers are interchangeable. (Rows are not: some are in Serial.)
HandlerSymmetry == Permutations(Handlers)
===============================================================================
