----------------------------- MODULE MCListPages ------------------------------
(***************************************************************************)
(* Instances of ListPages for TLC.                                         *)
(***************************************************************************)
EXTENDS ListPages

Three == 1 .. 3
\* Nothing asked for, and more than the maximum.
Sizes == {0, 9}
===============================================================================
