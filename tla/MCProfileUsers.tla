---------------------------- MODULE MCProfileUsers ----------------------------
(***************************************************************************)
(* Instances of ProfileUsers for TLC.                                      *)
(***************************************************************************)
EXTENDS ProfileUsers, TLC

\* Calls are interchangeable: no action or property names one.
Symmetry == Permutations(Calls)
===============================================================================
