---------------------------- MODULE MCCatalogInbox ----------------------------
(***************************************************************************)
(* An instance of CatalogInbox for TLC.                                    *)
(***************************************************************************)
EXTENDS CatalogInbox, TLC

CONSTANTS v1, v2

Columns == {"title", "thumbnail", "status"}
Created == [kind |-> "created", sets |-> {"title", "status"}, version |-> 1]
Deleted == [kind |-> "deleted", sets |-> {"status"}, version |-> 0]
BrokenEvent == [kind |-> "broken", sets |-> {}, version |-> 0]

\* A video with an ordering key: it is created, followed by an event that nobody can
\* handle and deleted by one without a version.  Another, without a key, is created.
\* Of each video one message repeats an event that was published before.
TwoVideos ==
    v1 :> <<Created, BrokenEvent, Deleted>> @@
    v2 :> <<Created>>
OneRepeat == v1 :> 1 @@ v2 :> 1
===============================================================================
