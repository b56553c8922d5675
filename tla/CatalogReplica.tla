---------------------------- MODULE CatalogReplica ----------------------------
(***************************************************************************)
(* What the catalog inbox promises: a replica of each video that takes the *)
(* events of the catalog one after the other, each at most once and in one *)
(* step, onto the row that it shows.  An event waits for those before it,  *)
(* unless they are skipped.  No topic, no deliveries, no transactions, no  *)
(* failures.                                                               *)
(***************************************************************************)
EXTENDS Naturals

CONSTANTS Videos,
          Events,      \* the events of each video, numbered in order
          Effect,      \* what each that can be taken makes of a row
          None         \* no row

VARIABLES taken,       \* the events that each replica has taken
          skipped,     \* those that need not be waited for
          projection   \* the row that it shows

Init ==
    /\ taken = [v \in Videos |-> {}]
    /\ skipped = [v \in Videos |-> {}]
    /\ projection = [v \in Videos |-> None]

Take(v, i) ==
    /\ i \notin taken[v]
    /\ 1 .. i - 1 \subseteq taken[v] \cup skipped[v]
    /\ taken' = [taken EXCEPT ![v] = @ \cup {i}]
    /\ projection' = [projection EXCEPT ![v] = Effect[v][i][@]]
    /\ UNCHANGED skipped

Skip(v, i) ==
    /\ skipped' = [skipped EXCEPT ![v] = @ \cup {i}]
    /\ UNCHANGED <<taken, projection>>

Next == \E v \in Videos : \/ \E i \in DOMAIN Effect[v] : Take(v, i)
                          \/ \E i \in Events[v] : Skip(v, i)

Spec == Init /\ [][Next]_<<taken, skipped, projection>>
===============================================================================
