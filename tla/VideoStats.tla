------------------------------ MODULE VideoStats ------------------------------
(***************************************************************************)
(* The row of profile.video_stats and the one way the services change it:  *)
(* the additive upsert of UpsertVideoStats.  For the sums a missing row    *)
(* counts as zeros: the upsert inserts the deltas themselves.  For the     *)
(* answers it does not: the handlers answer a missing row without          *)
(* statistics, and the modules that can meet one keep the rows there are.  *)
(***************************************************************************)
EXTENDS Integers

Kinds == {"like", "bookmark"}
FavoriteActions == {"add", "remove"}
Counters == Kinds \cup {"watchers", "seconds"}

StatsRows == [Counters -> Int]
ZeroStats == [c \in Counters |-> 0]

\* ON CONFLICT DO UPDATE SET x = x + $n for each of the four counters.
Increment(row, delta) == [c \in Counters |-> row[c] + delta[c]]

\* The deltas bumpStats passes: +1 or -1 on the counter of the kind.
EngagementDelta(kind, action) ==
    [ZeroStats EXCEPT ![kind] = IF action = "add" THEN 1 ELSE -1]

===============================================================================
