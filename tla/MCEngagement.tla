----------------------------- MODULE MCEngagement -----------------------------
(***************************************************************************)
(* Instances of Engagement for TLC.                                        *)
(***************************************************************************)
EXTENDS Engagement, TLC

\* Calls and users are interchangeable: no action or property names one.
Symmetry == Permutations(Calls) \cup Permutations(Users)
===============================================================================
