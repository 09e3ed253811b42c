------------------------------- MODULE MCRecipes -------------------------------
(***************************************************************************)
(* Small instances of Recipes for TLC.                                     *)
(***************************************************************************)
EXTENDS Recipes, TLC

\* Handlers are interchangeable.
HandlerSymmetry == Permutations(Handlers)
===============================================================================
