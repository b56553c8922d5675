---------------------------- MODULE MCSharedStats ----------------------------
(***************************************************************************)
(* Instances of SharedStats for TLC.                                       *)
(***************************************************************************)
EXTENDS SharedStats

CONSTANTS m1, v1

OneVideo == <<v1>>

\* One mutation is a like; the other takes it back, or adds a bookmark.
FirstLikes == \A c \in Mutations :
                 IF c = m1 THEN favInput[c].kind = "like" /\ favInput[c].action = "add"
                 ELSE favInput[c].kind = "like" <=> favInput[c].action = "remove"

FirstLikesInit == Init /\ FirstLikes
FirstLikesSpec == FirstLikesInit /\ [][Next]_vars /\ Fairness
===============================================================================
