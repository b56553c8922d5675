---------------------------- MODULE MCWatchHistory ----------------------------
(***************************************************************************)
(* Instances of WatchHistory for TLC.                                      *)
(***************************************************************************)
EXTENDS WatchHistory, TLC

\* Nothing stops a client from reporting less than nothing.
Reported == {-1, 1, 2}

\* Calls and users are interchangeable: no action or property names one.
Symmetry == Permutations(Calls) \cup Permutations(Users)
===============================================================================
