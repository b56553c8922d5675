----------------------------- MODULE StatsLedger ------------------------------
(***************************************************************************)
(* What the engagement component promises about the statistics of a video: *)
(* a ledger.  One atomic posting adds the delta of one mutation to the row *)
(* and appends an entry that carries the new row.  No locks, no            *)
(* transactions, no failures.                                              *)
(***************************************************************************)
EXTENDS VideoStats, Sequences

CONSTANT Videos

VARIABLES stats,    \* the statistics row of each video
          ledger    \* the postings of each video, oldest first

Init ==
    /\ stats = [v \in Videos |-> ZeroStats]
    /\ ledger = [v \in Videos |-> <<>>]

Post(v, kind, action) ==
    LET row == Increment(stats[v], EngagementDelta(kind, action)) IN
    /\ stats' = [stats EXCEPT ![v] = row]
    /\ ledger' = [ledger EXCEPT ![v] =
                     Append(@, [kind |-> kind, action |-> action, stats |-> row])]

Next == \E v \in Videos, kind \in Kinds, action \in FavoriteActions : Post(v, kind, action)

Spec == Init /\ [][Next]_<<stats, ledger>>
===============================================================================
