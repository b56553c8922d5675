--------------------------- MODULE SharedStatsProofs ---------------------------
(***************************************************************************)
(* What holds of SharedStats for every set of callers.  Each service is    *)
(* taken with the statistics locks that its own calls hold: so a step of   *)
(* one is a step of Engagement or WatchHistory alone, whose lemmas apply,  *)
(* and leaves to be shown that it does not disturb the other.              *)
(***************************************************************************)
EXTENDS SharedStats, FiniteSetTheorems, SequenceTheorems, TLAPS

\* The statistics locks of the mutations, and those of the reports.
favLocks == [v \in Videos |-> IF statsLock[v] \in Mutations THEN statsLock[v] ELSE None]
watchLocks == [v \in Videos |-> IF statsLock[v] \in Reports THEN statsLock[v] ELSE None]

EP == INSTANCE EngagementProofs WITH
        Calls <- Mutations, input <- favInput, pc <- favPc, outbox <- favOutbox,
        pend <- favPend, reply <- favReply, statsLock <- favLocks
WP == INSTANCE WatchHistoryProofs WITH
        Calls <- Reports, input <- watchInput, pc <- watchPc, outbox <- watchOutbox,
        pend <- watchPend, reply <- watchReply, statsLock <- watchLocks

LocksTyped == statsLock \in [Videos -> Mutations \cup Reports \cup {None}]

\* No call is the absence of one.
LEMMA NoCallIsNone == None \notin Mutations /\ None \notin Reports /\ Mutations \cap Reports = {}
  BY SharedAssumption

\* What the lemmas of the two services assume of their constants.
LEMMA Assumptions ==
    /\ ClientTimes \subseteq Nat /\ None \notin Mutations \cup EP!StatsRows \cup EP!Events
    /\ Ratios \subseteq Nat /\ Totals \subseteq Int /\ WP!IsFiniteSet(Users)
    /\ None \notin Reports \cup WP!Rows \cup WP!Events \cup WP!StatsRows
<1>1. E!Kinds = Kinds /\ EP!Kinds = Kinds /\ WP!Kinds = Kinds
      /\ E!FavoriteActions = FavoriteActions /\ EP!FavoriteActions = FavoriteActions
  BY DEF E!Kinds, EP!Kinds, WP!Kinds, Kinds, E!FavoriteActions, EP!FavoriteActions, FavoriteActions
<1>2. E!StatsRows = StatsRows /\ EP!StatsRows = StatsRows /\ WP!StatsRows = StatsRows
  BY <1>1 DEF E!StatsRows, EP!StatsRows, WP!StatsRows, StatsRows, E!Counters, EP!Counters, WP!Counters,
     Counters
<1>3. E!Events = EP!Events
  BY <1>1, <1>2 DEF E!Events, EP!Events
<1>4. W!Rows = WP!Rows /\ W!Events = WP!Events
  BY DEF W!Rows, WP!Rows, W!Events, WP!Events
<1>5. WP!IsFiniteSet(Users)
  BY SharedAssumption DEF WP!IsFiniteSet, IsFiniteSet
<1> QED
  BY <1>2, <1>3, <1>4, <1>5, SharedAssumption

\* The lock a mutation takes or releases is its own.
LEMMA MutationLocks ==
    ASSUME LocksTyped, NEW c \in Mutations
    PROVE  /\ \A v \in Videos : /\ favLocks[v] = c <=> statsLock[v] = c
                                /\ statsLock[v] \in {None, c} => favLocks[v] \in {None, c}
           /\ E!ReleaseLocks(c) => EP!ReleaseLocks(c) /\ watchLocks' = watchLocks /\ LocksTyped'
           /\ \A v \in Videos : statsLock[v] \in {None, c} /\ statsLock' = [statsLock EXCEPT ![v] = c] =>
                favLocks' = [favLocks EXCEPT ![v] = c] /\ watchLocks' = watchLocks /\ LocksTyped'
           /\ UNCHANGED statsLock =>
                favLocks' = favLocks /\ watchLocks' = watchLocks /\ LocksTyped'
<1>1. ASSUME E!ReleaseLocks(c) PROVE EP!ReleaseLocks(c) /\ watchLocks' = watchLocks /\ LocksTyped'
  BY <1>1, NoCallIsNone DEF E!ReleaseLocks, EP!ReleaseLocks, favLocks, watchLocks, LocksTyped,
     E!Keys, EP!Keys, E!Kinds, EP!Kinds
<1>2. ASSUME NEW v \in Videos, statsLock[v] \in {None, c}, statsLock' = [statsLock EXCEPT ![v] = c]
      PROVE  favLocks' = [favLocks EXCEPT ![v] = c] /\ watchLocks' = watchLocks /\ LocksTyped'
  BY <1>2, NoCallIsNone DEF favLocks, watchLocks, LocksTyped
<1> QED
  BY <1>1, <1>2, NoCallIsNone DEF favLocks, watchLocks, LocksTyped

\* A step of a mutation is one of Engagement alone.
LEMMA MutationSteps ==
    ASSUME LocksTyped, EP!TypeOK, NEW c \in Mutations,
           E!Proceed(c) \/ E!Rollback(c) \/ E!ReadFails(c)
    PROVE  /\ EP!Proceed(c) \/ EP!Rollback(c) \/ EP!ReadFails(c)
           /\ watchLocks' = watchLocks /\ LocksTyped'
<1> USE DEF E!Advance, EP!Advance, E!Program, EP!Program, E!Video, EP!Video, E!Key, EP!Key
<1>1. CASE E!Begin(c)
  BY <1>1, MutationLocks DEF E!Begin, EP!Begin, EP!Proceed
<1>2. CASE E!UpsertEngagement(c)
  BY <1>2, MutationLocks DEF E!UpsertEngagement, EP!UpsertEngagement, E!WriteEngagement,
     EP!WriteEngagement, EP!Proceed
<1>3. CASE E!SoftDeleteEngagement(c)
  BY <1>3, MutationLocks DEF E!SoftDeleteEngagement, EP!SoftDeleteEngagement, E!WriteEngagement,
     EP!WriteEngagement, EP!Proceed
<1>4. CASE E!BumpStats(c)
  <2> DEFINE add == E!Increment(stats[E!Video(c)], E!EngagementDelta(favInput[c].kind, favInput[c].action))
  <2>1. add = EP!Increment(stats[E!Video(c)], EP!EngagementDelta(favInput[c].kind, favInput[c].action))
    BY DEF E!Increment, EP!Increment, E!EngagementDelta, EP!EngagementDelta, E!ZeroStats, EP!ZeroStats,
           E!Counters, EP!Counters, E!Kinds, EP!Kinds
  <2>2. favPend' = [favPend EXCEPT ![c].stats = add]
    BY <1>4 DEF E!BumpStats
  <2> HIDE DEF add
  <2>3. favPend' = [favPend EXCEPT ![c].stats =
                      EP!Increment(stats[E!Video(c)], EP!EngagementDelta(favInput[c].kind, favInput[c].action))]
    BY <2>1, <2>2
  <2>4. /\ favLocks[E!Video(c)] \in {None, c} /\ favLocks' = [favLocks EXCEPT ![E!Video(c)] = c]
        /\ watchLocks' = watchLocks /\ LocksTyped'
    BY <1>4, MutationLocks, EP!KeyType, Assumptions DEF E!BumpStats
  <2> QED
    BY <1>4, <2>3, <2>4 DEF E!BumpStats, EP!BumpStats, EP!Proceed
<1>5. CASE E!FetchStats(c)
  <2> DEFINE seen == IF statsLock[E!Video(c)] = c THEN favPend[c].stats ELSE stats[E!Video(c)]
  <2>1. seen = IF favLocks[E!Video(c)] = c THEN favPend[c].stats ELSE stats[E!Video(c)]
    BY MutationLocks, EP!KeyType, Assumptions
  <2>2. \/ favPend' = [favPend EXCEPT ![c].snapshot = seen] /\ E!Advance(c)
        \/ favPend' = favPend /\ favPc' = [favPc EXCEPT ![c] = "doomed"]
    BY <1>5 DEF E!FetchStats
  <2> HIDE DEF seen
  <2>3. \/ /\ favPend' = [favPend EXCEPT ![c].snapshot =
                           IF favLocks[E!Video(c)] = c THEN favPend[c].stats ELSE stats[E!Video(c)]]
           /\ E!Advance(c)
        \/ favPend' = favPend /\ favPc' = [favPc EXCEPT ![c] = "doomed"]
    BY <2>1, <2>2
  <2> QED
    BY <1>5, <2>3, MutationLocks DEF E!FetchStats, EP!FetchStats, EP!Proceed
<1>6. CASE E!EnqueueEvent(c)
  BY <1>6, MutationLocks DEF E!EnqueueEvent, EP!EnqueueEvent, E!EventOf, EP!EventOf, EP!Proceed
<1>7. CASE E!Commit(c)
  BY <1>7, MutationLocks DEF E!Commit, EP!Commit, EP!Proceed
<1>8. CASE E!Rollback(c)
  BY <1>8, MutationLocks DEF E!Rollback, EP!Rollback, E!InTx, EP!InTx, E!NoWrites, EP!NoWrites,
     E!ZeroStats, EP!ZeroStats, E!Counters, EP!Counters, E!Kinds, EP!Kinds
<1>9. CASE E!ReadLike(c) \/ E!ReadBookmark(c)
  BY <1>9, MutationLocks DEF E!ReadLike, EP!ReadLike, E!ReadBookmark, EP!ReadBookmark,
     E!ReadFavorite, EP!ReadFavorite, E!IsSet, EP!IsSet, EP!Proceed
<1>10. CASE E!ReadStats(c)
  BY <1>10, MutationLocks DEF E!ReadStats, EP!ReadStats, EP!Proceed
<1>11. CASE E!ReadFails(c)
  BY <1>11, MutationLocks DEF E!ReadFails, EP!ReadFails, E!Responding, EP!Responding
<1> QED
  BY <1>1, <1>2, <1>3, <1>4, <1>5, <1>6, <1>7, <1>8, <1>9, <1>10, <1>11 DEF E!Proceed

\* The lock a report takes or releases is its own.
LEMMA ReportLocks ==
    ASSUME LocksTyped, NEW c \in Reports
    PROVE  /\ \A v \in Videos : statsLock[v] = None => watchLocks[v] = None
           /\ W!ReleaseLocks(c) => WP!ReleaseLocks(c) /\ favLocks' = favLocks /\ LocksTyped'
           /\ \A v \in Videos : statsLock[v] = None /\ statsLock' = [statsLock EXCEPT ![v] = c] =>
                watchLocks' = [watchLocks EXCEPT ![v] = c] /\ favLocks' = favLocks /\ LocksTyped'
           /\ UNCHANGED statsLock =>
                favLocks' = favLocks /\ watchLocks' = watchLocks /\ LocksTyped'
<1>1. ASSUME W!ReleaseLocks(c) PROVE WP!ReleaseLocks(c) /\ favLocks' = favLocks /\ LocksTyped'
  BY <1>1, NoCallIsNone DEF W!ReleaseLocks, WP!ReleaseLocks, favLocks, watchLocks, LocksTyped,
     W!Keys, WP!Keys
<1>2. ASSUME NEW v \in Videos, statsLock[v] = None, statsLock' = [statsLock EXCEPT ![v] = c]
      PROVE  watchLocks' = [watchLocks EXCEPT ![v] = c] /\ favLocks' = favLocks /\ LocksTyped'
  BY <1>2, NoCallIsNone DEF favLocks, watchLocks, LocksTyped
<1> QED
  BY <1>1, <1>2, NoCallIsNone DEF favLocks, watchLocks, LocksTyped

\* A step of a report is one of WatchHistory alone.
LEMMA ReportSteps ==
    ASSUME LocksTyped, WP!TypeOK, NEW c \in Reports,
           W!Proceed(c) \/ W!Rollback(c) \/ W!ReadFails(c)
    PROVE  /\ WP!Proceed(c) \/ WP!Rollback(c) \/ WP!ReadFails(c)
           /\ favLocks' = favLocks /\ LocksTyped'
<1> USE DEF W!Advance, WP!Advance, W!Video, WP!Video, W!Key, WP!Key
<1>1. CASE W!Load(c)
  BY <1>1, ReportLocks DEF W!Load, WP!Load, WP!Proceed
<1>2. CASE W!Upsert(c)
  <2>1. W!Written(c) = WP!Written(c)
    BY DEF W!Written, WP!Written, W!SecondsDelta, WP!SecondsDelta
  <2>2. watchPend' = [watchPend EXCEPT ![c].row = WP!Written(c)]
    BY <1>2, <2>1 DEF W!Upsert
  <2> QED
    BY <1>2, <2>2, ReportLocks DEF W!Upsert, WP!Upsert, WP!Proceed
<1>3. CASE W!BumpStats(c)
  <2>1. W!WatchDelta(c) = WP!WatchDelta(c) /\ W!ZeroStats = WP!ZeroStats
    BY DEF W!WatchDelta, WP!WatchDelta, W!WatcherDelta, WP!WatcherDelta, W!Qualified, WP!Qualified,
           W!Threshold, WP!Threshold, W!SecondsDelta, WP!SecondsDelta, W!ZeroStats, WP!ZeroStats,
           W!Counters, WP!Counters, W!Kinds, WP!Kinds
  <2>2. W!Increment(stats[W!Video(c)], W!WatchDelta(c)) = WP!Increment(stats[W!Video(c)], WP!WatchDelta(c))
    BY <2>1 DEF W!Increment, WP!Increment, W!Counters, WP!Counters, W!Kinds, WP!Kinds
  <2>3. CASE WP!WatchDelta(c) = WP!ZeroStats /\ UNCHANGED <<statsLock, watchPend>>
    BY <1>3, <2>3, ReportLocks DEF W!BumpStats, WP!BumpStats, WP!Proceed
  <2>4. CASE /\ WP!WatchDelta(c) # WP!ZeroStats /\ statsLock[W!Video(c)] = None
             /\ statsLock' = [statsLock EXCEPT ![W!Video(c)] = c]
             /\ watchPend' = [watchPend EXCEPT ![c].stats =
                                WP!Increment(stats[W!Video(c)], WP!WatchDelta(c))]
    <3>1. /\ watchLocks[W!Video(c)] = None /\ watchLocks' = [watchLocks EXCEPT ![W!Video(c)] = c]
          /\ favLocks' = favLocks /\ LocksTyped'
      BY <2>4, ReportLocks, WP!KeyType, Assumptions
    <3> QED
      BY <1>3, <2>4, <3>1 DEF W!BumpStats, WP!BumpStats, WP!Proceed
  <2> QED
    BY <1>3, <2>1, <2>2, <2>3, <2>4 DEF W!BumpStats
<1>4. CASE W!EnqueueEvent(c)
  BY <1>4, ReportLocks DEF W!EnqueueEvent, WP!EnqueueEvent, W!EventOf, WP!EventOf, WP!Proceed,
     W!MayEmit, WP!MayEmit, W!MayStaySilent, WP!MayStaySilent, W!Qualified, WP!Qualified,
     W!Threshold, WP!Threshold
<1>5. CASE W!Commit(c)
  BY <1>5, ReportLocks DEF W!Commit, WP!Commit, WP!Proceed
<1>6. CASE W!Rollback(c)
  BY <1>6, ReportLocks DEF W!Rollback, WP!Rollback, W!InTx, WP!InTx, W!NoWrites, WP!NoWrites
<1>7. CASE W!ReadStats(c)
  BY <1>7, ReportLocks DEF W!ReadStats, WP!ReadStats, WP!Proceed
<1>8. CASE W!ReadFails(c)
  BY <1>8, ReportLocks DEF W!ReadFails, WP!ReadFails
<1> QED
  BY <1>1, <1>2, <1>3, <1>4, <1>5, <1>6, <1>7, <1>8 DEF W!Proceed

\* The operators on statistics are the same on every side.
LEMMA SameRows ==
    /\ EP!Kinds = Kinds /\ EP!FavoriteActions = FavoriteActions
    /\ EP!Counters = Counters /\ WP!Counters = Counters
    /\ EP!StatsRows = StatsRows /\ WP!StatsRows = StatsRows
    /\ WP!ZeroStats = ZeroStats
<1>1. /\ EP!Kinds = Kinds /\ WP!Kinds = Kinds /\ EP!FavoriteActions = FavoriteActions
  BY DEF EP!Kinds, WP!Kinds, Kinds, EP!FavoriteActions, FavoriteActions
<1>2. EP!Counters = Counters /\ WP!Counters = Counters
  BY <1>1 DEF EP!Counters, WP!Counters, Counters
<1> QED
  BY <1>1, <1>2 DEF EP!StatsRows, WP!StatsRows, StatsRows, WP!ZeroStats, ZeroStats

\* What each service keeps true by itself.
FavInv == EP!TypeOK /\ EP!AddedUnderLock /\ EP!RowsMarked /\ EP!RowsFollowEvents
WatchInv == WP!SecondsInv /\ WP!WatchersExactUnlessOvertaken
ServicesInv == LocksTyped /\ FavInv /\ WatchInv

\* A commit of a mutation, as the statistics and the log of its video see it.
Posts(v, e) ==
    /\ e \in EP!Events /\ e.kind \in Kinds /\ e.action \in FavoriteActions
    /\ statsLock[v] \in Mutations
    /\ favOutbox' = [favOutbox EXCEPT ![v] = Append(favOutbox[v], e)]
    /\ stats' = [stats EXCEPT ![v] = e.stats]
    /\ e.stats \in StatsRows
    /\ \A n \in Counters : e.stats[n] = stats[v][n] + EngagementDelta(e.kind, e.action)[n]

\* A step of a mutation posts its event, or leaves statistics and events alone.
LEMMA MutationPosts ==
    ASSUME ServicesInv, NEW c \in Mutations, E!Proceed(c) \/ E!Rollback(c) \/ E!ReadFails(c)
    PROVE  \/ UNCHANGED <<stats, favOutbox>>
           \/ \E v \in Videos, e \in EP!Events : Posts(v, e)
<1>1. [EP!Next]_(EP!vars)
  BY MutationSteps DEF EP!Next, ServicesInv, FavInv
<1>2. CASE UNCHANGED <<stats, favOutbox, engagements>>
  BY <1>2
<1>3. ASSUME NEW d \in Mutations, EP!Commit(d) PROVE \E v \in Videos, e \in EP!Events : Posts(v, e)
  <2> DEFINE v == EP!Video(d)
             e == EP!EventOf(d)
             delta == EP!EngagementDelta(e.kind, e.action)
  <2>1. /\ e \in EP!Events
        /\ favOutbox' = [favOutbox EXCEPT ![v] = Append(favOutbox[v], e)]
        /\ stats' = [stats EXCEPT ![v] = e.stats]
    BY <1>3, EP!CommitAppends, Assumptions DEF ServicesInv, FavInv
  <2>2. v \in Videos /\ favInput[d].kind \in EP!Kinds /\ favInput[d].action \in EP!FavoriteActions
        /\ favPend[d] \in EP!Pending
    BY DEF ServicesInv, FavInv, EP!TypeOK, EP!Inputs, EP!Video
  <2>3. e.kind \in Kinds /\ e.action \in FavoriteActions
    BY <2>2, SameRows DEF EP!EventOf
  <2>4. EP!AddsUnderLock(d) /\ favPc[d] = "commit"
    BY <1>3 DEF EP!Commit, ServicesInv, FavInv, EP!AddedUnderLock
  <2>5. /\ favLocks[v] = d /\ e.stats = favPend[d].stats
        /\ e.stats = EP!Increment(stats[v], EP!EngagementDelta(favInput[d].kind, favInput[d].action))
    BY <2>4 DEF EP!AddsUnderLock, EP!EventOf
  <2>6. statsLock[v] \in Mutations
    BY <2>2, <2>5, NoCallIsNone DEF favLocks
  <2>7. e.stats \in StatsRows
    BY <2>2, <2>5, SameRows DEF EP!Pending
  <2>8. \A n \in Counters : e.stats[n] = stats[v][n] + EngagementDelta(e.kind, e.action)[n]
    <3>1. e.kind = favInput[d].kind /\ e.action = favInput[d].action
      BY DEF EP!EventOf
    <3>2. EP!EngagementDelta(e.kind, e.action) = EngagementDelta(e.kind, e.action)
      BY DEF EP!EngagementDelta, EngagementDelta, EP!ZeroStats, ZeroStats, EP!Counters, Counters,
             EP!Kinds, Kinds
    <3> QED
      BY <2>5, <3>1, <3>2, SameRows DEF EP!Increment
  <2> QED
    BY <2>1, <2>2, <2>3, <2>6, <2>7, <2>8 DEF Posts
<1> QED
  BY <1>1, <1>2, <1>3, EP!OtherStepsKeepStats, Assumptions

\* A step of a report leaves the likes, the bookmarks and the rows that a
\* mutation holds alone, and takes no seconds back.
LEMMA ReportAdds ==
    ASSUME ServicesInv, NEW c \in Reports, W!Proceed(c) \/ W!Rollback(c) \/ W!ReadFails(c),
           NEW v \in Videos
    PROVE  /\ stats'[v]["seconds"] >= stats[v]["seconds"]
           /\ \A kind \in Kinds : stats'[v][kind] = stats[v][kind]
           /\ statsLock[v] \in Mutations => stats'[v] = stats[v]
<1>1. [WP!Next]_(WP!vars)
  BY ReportSteps DEF WP!Next, ServicesInv, WatchInv, WP!SecondsInv, WP!LockInv
<1>2. WP!LockInv /\ stats[v] \in StatsRows
  BY SameRows DEF ServicesInv, WatchInv, WP!SecondsInv, WP!LockInv, WP!TypeOK
<1>3. CASE UNCHANGED stats
  BY <1>2, <1>3 DEF StatsRows, Counters
<1>4. ASSUME NEW d \in Reports, WP!Commit(d)
      PROVE  /\ stats'[v]["seconds"] >= stats[v]["seconds"]
             /\ \A kind \in Kinds : stats'[v][kind] = stats[v][kind]
             /\ statsLock[v] \in Mutations => stats'[v] = stats[v]
  <2>1. \A n \in Counters : /\ stats[v][n] \in Int
                            /\ stats'[v][n] = stats[v][n] + (IF v = WP!Video(d) THEN WP!WatchDelta(d)[n] ELSE 0)
    BY <1>2, <1>4, WP!CommitAdds, SameRows, Assumptions
  <2>2. WP!WatchDelta(d)["seconds"] \in Nat
    <3>1. existing[d] \in WP!Rows \cup {None} /\ watchInput[d].total \in Int
      BY <1>2, SharedAssumption DEF WP!LockInv, WP!TypeOK, WP!Inputs
    <3> QED
      BY <3>1, WP!SecondsType, WP!WatchDeltaParts, Assumptions
  <2>3. ASSUME NEW kind \in Kinds PROVE WP!WatchDelta(d)[kind] = 0
    BY SameRows DEF WP!WatchDelta, Kinds, WP!ZeroStats, Counters, ZeroStats
  <2>4. ASSUME statsLock[v] \in Mutations PROVE stats'[v] = stats[v]
    <3>1. WP!AddsUnderLock(d) /\ watchPc[d] = "commit" /\ WP!Video(d) \in Videos
          /\ stats \in [Videos -> WP!StatsRows]
      BY <1>2, <1>4, WP!KeyType, Assumptions DEF WP!Commit, WP!LockInv, WP!AddedUnderLock, WP!TypeOK
    <3>2. watchLocks[v] # d
      BY <2>4, NoCallIsNone DEF watchLocks
    <3>3. v = WP!Video(d) => watchPend[d].stats = None
      BY <3>1, <3>2 DEF WP!AddsUnderLock
    <3> QED
      BY <1>4, <3>1, <3>3 DEF WP!Commit
  <2> QED
    BY <2>1, <2>2, <2>3, <2>4 DEF Counters, Kinds
<1> QED
  BY <1>1, <1>3, <1>4, WP!OnlyCommits, Assumptions

\* A step of a mutation keeps what either service keeps true.
LEMMA MutationKeeps ==
    ASSUME ServicesInv, NEW c \in Mutations, E!Proceed(c) \/ E!Rollback(c) \/ E!ReadFails(c),
           UNCHANGED watchVars, counted \subseteq counted', counted' \subseteq Videos
    PROVE  ServicesInv'
<1>1. [EP!Next]_(EP!vars) /\ watchLocks' = watchLocks /\ LocksTyped'
  BY MutationSteps DEF EP!Next, ServicesInv, FavInv
<1>2. FavInv'
  BY <1>1, EP!TypeStep, EP!AddedUnderLockStep, EP!RowsMarkedStep, EP!RowsFollowStep, Assumptions
  DEF ServicesInv, FavInv
<1>3. stats' \in [Videos -> WP!StatsRows]
  BY <1>2, SameRows DEF FavInv, EP!TypeOK
<1>4. \A v \in Videos :
        /\ \A n \in {"watchers", "seconds"} : stats'[v][n] = stats[v][n]
        /\ statsLock[v] \notin Mutations => stats'[v] = stats[v]
  <2>1. CASE UNCHANGED stats
    BY <2>1
  <2>2. ASSUME NEW w \in Videos, NEW e \in EP!Events, Posts(w, e)
        PROVE  \A v \in Videos :
                 /\ \A n \in {"watchers", "seconds"} : stats'[v][n] = stats[v][n]
                 /\ statsLock[v] \notin Mutations => stats'[v] = stats[v]
    <3>1. stats \in [Videos -> StatsRows]
      BY SameRows DEF ServicesInv, FavInv, EP!TypeOK
    <3>2. ASSUME NEW n \in {"watchers", "seconds"} PROVE e.stats[n] = stats[w][n]
      <4>1. EngagementDelta(e.kind, e.action)[n] = 0 /\ stats[w][n] \in Int
        BY <2>2, <3>1 DEF EngagementDelta, ZeroStats, Counters, Kinds, Posts, StatsRows
      <4> QED
        BY <2>2, <4>1 DEF Posts, Counters
    <3> QED
      BY <2>2, <3>1, <3>2 DEF Posts
  <2> QED
    BY <2>1, <2>2, MutationPosts
<1>5. WP!TypeOK' /\ WP!WrittenUnderLock'
  BY <1>1, <1>3 DEF ServicesInv, WatchInv, WP!SecondsInv, WP!LockInv, WP!TypeOK, watchVars,
     WP!WrittenUnderLock, WP!WritesUnderLock, WP!Written, WP!Key, WP!EventOf
<1>6. ASSUME NEW d \in Reports PROVE WP!AddsUnderLock(d)'
  <2>1. WP!AddsUnderLock(d) /\ WP!Video(d) \in Videos
    BY WP!KeyType, Assumptions DEF ServicesInv, WatchInv, WP!SecondsInv, WP!LockInv, WP!AddedUnderLock
  <2>2. watchLocks[WP!Video(d)] = d => stats'[WP!Video(d)] = stats[WP!Video(d)]
    BY <1>4, <2>1, NoCallIsNone DEF watchLocks
  <2> QED
    BY <1>1, <2>1, <2>2 DEF WP!AddsUnderLock, WP!WatchDelta, WP!Video, watchVars
<1>7. WP!RowsStay' /\ WP!GainsOnly'
  BY DEF ServicesInv, WatchInv, WP!SecondsInv, WP!RowsStay, WP!RowStays, WP!GainsOnly, WP!Key, watchVars
<1>8. WP!SecondsAgree'
  BY <1>4 DEF ServicesInv, WatchInv, WP!SecondsInv, WP!SecondsAgree, WP!SecondsOf, watchVars
<1>9. WP!WatchersExactUnlessOvertaken'
  BY <1>4 DEF ServicesInv, WatchInv, WP!WatchersExactUnlessOvertaken, WP!Watchers, watchVars
<1> QED
  BY <1>1, <1>2, <1>5, <1>6, <1>7, <1>8, <1>9
  DEF ServicesInv, WatchInv, WP!SecondsInv, WP!LockInv, WP!AddedUnderLock

\* And so does a step of a report.
LEMMA ReportKeeps ==
    ASSUME ServicesInv, NEW c \in Reports, W!Proceed(c) \/ W!Rollback(c) \/ W!ReadFails(c),
           UNCHANGED favVars
    PROVE  ServicesInv'
<1>1. [WP!Next]_(WP!vars) /\ favLocks' = favLocks /\ LocksTyped'
  BY ReportSteps DEF WP!Next, ServicesInv, WatchInv, WP!SecondsInv, WP!LockInv
<1>2. WatchInv'
  BY <1>1, WP!SecondsInvStep, WP!WatchersStep, Assumptions DEF ServicesInv, WatchInv, WP!SecondsInv
<1>3. stats' \in [Videos -> EP!StatsRows]
  BY <1>2, SameRows DEF WatchInv, WP!SecondsInv, WP!LockInv, WP!TypeOK
<1>4. EP!TypeOK'
  BY <1>1, <1>3 DEF ServicesInv, FavInv, EP!TypeOK, favVars
<1>5. ASSUME NEW d \in Mutations PROVE EP!AddsUnderLock(d)'
  <2>1. EP!AddsUnderLock(d) /\ EP!Video(d) \in Videos
    BY EP!KeyType, Assumptions DEF ServicesInv, FavInv, EP!AddedUnderLock
  <2>2. favLocks[EP!Video(d)] = d => stats'[EP!Video(d)] = stats[EP!Video(d)]
    BY <2>1, NoCallIsNone, ReportAdds DEF favLocks
  <2> QED
    BY <1>1, <2>1, <2>2 DEF EP!AddsUnderLock, EP!Video, EP!EventOf, favVars
<1>6. EP!RowsMarked' /\ EP!RowsFollowEvents'
  BY DEF ServicesInv, FavInv, EP!RowsMarked, EP!MarksRow, EP!Key, EP!RowsFollowEvents,
     EP!EventsOfKey, EP!IsLast, favVars
<1> QED
  BY <1>1, <1>2, <1>4, <1>5, <1>6 DEF ServicesInv, FavInv, EP!AddedUnderLock

\* So no step of the whole breaks it.
LEMMA ServicesStep == ServicesInv /\ [Next]_vars => ServicesInv'
<1> SUFFICES ASSUME ServicesInv, [Next]_vars PROVE ServicesInv'
  OBVIOUS
<1>1. ASSUME NEW c \in Mutations, MutationProceeds(c) \/ MutationFails(c) PROVE ServicesInv'
  <2>1. counted \subseteq Videos
    BY DEF ServicesInv, WatchInv, WP!SecondsInv, WP!LockInv, WP!TypeOK
  <2>2. counted \subseteq counted' /\ counted' \subseteq Videos
    BY <1>1, <2>1 DEF MutationProceeds, MutationFails
  <2> QED
    BY <1>1, <2>2, MutationKeeps DEF MutationProceeds, MutationFails
<1>2. ASSUME NEW c \in Reports, ReportProceeds(c) \/ ReportFails(c) PROVE ServicesInv'
  BY <1>2, ReportKeeps DEF ReportProceeds, ReportFails
<1>3. CASE UNCHANGED <<stats, statsLock, counted, favVars, watchVars>>
  <2>1. favLocks' = favLocks /\ watchLocks' = watchLocks /\ LocksTyped'
    BY <1>3 DEF favLocks, watchLocks, LocksTyped, ServicesInv
  <2>2. UNCHANGED EP!vars /\ UNCHANGED WP!vars
    BY <1>3, <2>1 DEF EP!vars, WP!vars, favVars, watchVars
  <2> QED
    BY <2>1, <2>2, EP!TypeStep, EP!AddedUnderLockStep, EP!RowsMarkedStep, EP!RowsFollowStep,
       WP!SecondsInvStep, WP!WatchersStep, Assumptions
    DEF ServicesInv, FavInv, WatchInv, WP!SecondsInv
<1> QED
  BY <1>1, <1>2, <1>3 DEF Next, Ask, ReadNext, QueryFails, Done, vars

\* It holds of the initial states.
LEMMA ServicesInit == Init => ServicesInv
<1> SUFFICES ASSUME Init PROVE ServicesInv
  OBVIOUS
<1>1. LocksTyped /\ favLocks = [v \in Videos |-> None] /\ watchLocks = [v \in Videos |-> None]
  BY NoCallIsNone DEF Init, E!Init, LocksTyped, favLocks, watchLocks
<1>2. EP!Init
  BY <1>1 DEF Init, E!Init, EP!Init, E!Inputs, EP!Inputs, E!Keys, EP!Keys, E!NoWrites, EP!NoWrites,
     E!ZeroStats, EP!ZeroStats, E!Counters, EP!Counters, E!Kinds, EP!Kinds,
     E!FavoriteActions, EP!FavoriteActions
<1>3. WP!Init
  BY <1>1 DEF Init, W!Init, WP!Init, W!Inputs, WP!Inputs, W!Keys, WP!Keys, W!NoWrites, WP!NoWrites,
     W!ZeroStats, WP!ZeroStats, W!Counters, WP!Counters, W!Kinds, WP!Kinds
<1> QED
  BY <1>1, <1>2, <1>3, EP!TypeInit, EP!AddedUnderLockInit, EP!RowsInit, WP!SecondsInvInit,
     WP!WatchersInit, Assumptions DEF ServicesInv, FavInv, WatchInv

\* And of every state.
LEMMA ServicesCorrect == Spec => []ServicesInv
  BY ServicesInit, ServicesStep, PTL DEF Spec

\* The events that Posted counts.
EventsWith(v, kind, i, action) ==
    {j \in 1 .. i : favOutbox[v][j].kind = kind /\ favOutbox[v][j].action = action}

\* A sum over events is an integer, that of no event is zero.
LEMMA PostedType ==
    ASSUME NEW v, NEW kind, NEW i \in Nat
    PROVE  /\ \A action : /\ IsFiniteSet(EventsWith(v, kind, i, action))
                          /\ Cardinality(EventsWith(v, kind, i, action)) \in Nat
           /\ Posted(v, kind, i) = Cardinality(EventsWith(v, kind, i, "add"))
                                   - Cardinality(EventsWith(v, kind, i, "remove"))
           /\ Posted(v, kind, i) \in Int
           /\ Posted(v, kind, 0) = 0
<1>1. ASSUME NEW action
      PROVE  /\ IsFiniteSet(EventsWith(v, kind, i, action))
             /\ Cardinality(EventsWith(v, kind, i, action)) \in Nat
  <2>1. IsFiniteSet(1 .. i)
    BY FS_Interval
  <2>2. EventsWith(v, kind, i, action) \subseteq 1 .. i
    BY DEF EventsWith
  <2> QED
    BY <2>1, <2>2, FS_Subset, FS_CardinalityType
<1>2. \A k : Posted(v, kind, k) = Cardinality(EventsWith(v, kind, k, "add"))
                                  - Cardinality(EventsWith(v, kind, k, "remove"))
  BY DEF Posted, EventsWith
<1>3. \A action : EventsWith(v, kind, 0, action) = {}
  BY DEF EventsWith
<1>4. Posted(v, kind, 0) = 0
  BY <1>2, <1>3, FS_EmptySet
<1> QED
  BY <1>1, <1>2, <1>4

\* An event adds its delta to the sum, and changes no sum before it.
LEMMA PostedStep ==
    ASSUME favOutbox \in [Videos -> Seq(EP!Events)], NEW v \in Videos, NEW e, Posts(v, e),
           NEW w \in Videos, NEW kind \in Kinds
    PROVE  /\ Len(favOutbox[w]) \in Nat
           /\ Len(favOutbox'[w]) = Len(favOutbox[w]) + (IF w = v THEN 1 ELSE 0)
           /\ \A i \in 1 .. Len(favOutbox[w]) : favOutbox'[w][i] = favOutbox[w][i]
           /\ \A i \in 0 .. Len(favOutbox[w]) : Posted(w, kind, i)' = Posted(w, kind, i)
           /\ \A n : n = Len(favOutbox[v]) =>
                Posted(v, kind, n + 1)' = Posted(v, kind, n) + EngagementDelta(e.kind, e.action)[kind]
           /\ favOutbox'[v][Len(favOutbox[v]) + 1] = e
<1>1. /\ Len(favOutbox[w]) \in Nat
      /\ Len(favOutbox'[w]) = Len(favOutbox[w]) + (IF w = v THEN 1 ELSE 0)
      /\ \A i \in 1 .. Len(favOutbox[w]) : favOutbox'[w][i] = favOutbox[w][i]
  BY DEF Posts
<1>2. ASSUME NEW i \in 0 .. Len(favOutbox[w]) PROVE Posted(w, kind, i)' = Posted(w, kind, i)
  <2>1. \A action : EventsWith(w, kind, i, action)' = EventsWith(w, kind, i, action)
    BY <1>1 DEF EventsWith
  <2> QED
    BY <2>1 DEF Posted, EventsWith
<1> PICK n : n = Len(favOutbox[v])
  OBVIOUS
<1> DEFINE old(action) == EventsWith(v, kind, n, action)
           new(action) == EventsWith(v, kind, n + 1, action)'
<1>3. /\ n \in Nat /\ favOutbox'[v][n + 1] = e
      /\ \A i \in 1 .. n : favOutbox'[v][i] = favOutbox[v][i]
  BY DEF Posts
<1>4. ASSUME NEW action
      PROVE  Cardinality(new(action)) = Cardinality(old(action))
               + (IF e.kind = kind /\ e.action = action THEN 1 ELSE 0)
  <2>1. new(action) = IF e.kind = kind /\ e.action = action THEN old(action) \cup {n + 1} ELSE old(action)
    BY <1>3 DEF EventsWith
  <2>2. n + 1 \notin old(action)
    BY <1>3 DEF EventsWith
  <2>3. IsFiniteSet(old(action)) /\ Cardinality(old(action)) \in Nat
    BY <1>3, PostedType
  <2> HIDE DEF old, new
  <2>4. Cardinality(old(action) \cup {n + 1}) = Cardinality(old(action)) + 1
    BY <2>2, <2>3, FS_AddElement
  <2> QED
    BY <2>1, <2>3, <2>4
<1>5. Posted(v, kind, n + 1)' = Cardinality(new("add")) - Cardinality(new("remove"))
  BY DEF Posted, EventsWith
<1>6. /\ Posted(v, kind, n) = Cardinality(old("add")) - Cardinality(old("remove"))
      /\ \A action : Cardinality(old(action)) \in Nat
  BY <1>3, PostedType
<1>7. EngagementDelta(e.kind, e.action)[kind]
        = IF e.kind # kind THEN 0 ELSE IF e.action = "add" THEN 1 ELSE -1
  BY DEF Posts, EngagementDelta, ZeroStats, Counters, Kinds
<1>8. e.action = "add" \/ e.action = "remove"
  BY DEF Posts, FavoriteActions
<1> HIDE DEF old, new
<1>9. Posted(v, kind, n + 1)' = Posted(v, kind, n) + EngagementDelta(e.kind, e.action)[kind]
  BY <1>4, <1>5, <1>6, <1>7, <1>8
<1> QED
  BY <1>1, <1>2, <1>3, <1>9

\* The rows and the events of a video are the sums StatsAreSums speaks of.
Sums(v) ==
    /\ \A kind \in Kinds : stats[v][kind] = Posted(v, kind, Len(favOutbox[v]))
    /\ v \notin counted => Len(favOutbox[v]) = 0
    /\ \A i \in DOMAIN favOutbox[v] :
         LET row == favOutbox[v][i].stats IN
         /\ row \in StatsRows
         /\ \A kind \in Kinds : row[kind] = Posted(v, kind, i)
         /\ \A j \in i .. Len(favOutbox[v]) : row["seconds"] <= favOutbox[v][j].stats["seconds"]
         /\ row["seconds"] <= stats[v]["seconds"]
AllSums == \A v \in Videos : Sums(v)

\* A commit of a mutation adds the next sum.
LEMMA PostsKeepsSums ==
    ASSUME ServicesInv, ServicesInv', AllSums, NEW v \in Videos, NEW e, Posts(v, e),
           counted' = counted \cup {w \in Videos : favOutbox'[w] # favOutbox[w]}
    PROVE  AllSums'
<1> SUFFICES ASSUME NEW w \in Videos PROVE Sums(w)'
  BY DEF AllSums
<1>0. /\ favOutbox \in [Videos -> Seq(EP!Events)] /\ stats \in [Videos -> StatsRows]
      /\ \A n \in Counters : stats[v][n] \in Int
  BY SameRows DEF ServicesInv, FavInv, EP!TypeOK, StatsRows
<1>1. Sums(w)
  BY DEF AllSums
<1>2. CASE w # v
  <2>1. favOutbox'[w] = favOutbox[w] /\ stats'[w] = stats[w]
    BY <1>0, <1>2 DEF Posts
  <2>2. Len(favOutbox[w]) \in Nat /\ DOMAIN favOutbox[w] = 1 .. Len(favOutbox[w])
    BY <1>0
  <2>3. \A kind \in Kinds : \A i \in 0 .. Len(favOutbox[w]) : Posted(w, kind, i)' = Posted(w, kind, i)
    BY <1>0, PostedStep
  <2> QED
    BY <1>1, <2>1, <2>2, <2>3 DEF Sums
<1>3. CASE w = v
  <2>0. v \in counted'
    <3>1. Len(favOutbox'[v]) = Len(favOutbox[v]) + 1 /\ Len(favOutbox[v]) \in Nat
      BY <1>0 DEF Posts
    <3>2. favOutbox'[v] # favOutbox[v]
      BY <3>1
    <3> QED
      BY <3>2
  <2> PICK n : n = Len(favOutbox[v])
    OBVIOUS
  <2>1. /\ n \in Nat /\ DOMAIN favOutbox[v] = 1 .. n /\ Len(favOutbox'[v]) = n + 1
        /\ DOMAIN favOutbox'[v] = 1 .. n + 1
        /\ favOutbox'[v][n + 1] = e /\ \A i \in 1 .. n : favOutbox'[v][i] = favOutbox[v][i]
        /\ stats'[v] = e.stats
    BY <1>0 DEF Posts
  <2>2. ASSUME NEW kind \in Kinds
        PROVE  /\ \A i \in 1 .. n : Posted(v, kind, i)' = Posted(v, kind, i)
               /\ e.stats[kind] = Posted(v, kind, n + 1)'
    <3>1. stats[v][kind] = Posted(v, kind, n)
      BY <1>1, <1>3 DEF Sums
    <3>2. e.stats[kind] = stats[v][kind] + EngagementDelta(e.kind, e.action)[kind]
      BY DEF Posts, Counters
    <3>3. \A i \in 0 .. n : Posted(v, kind, i)' = Posted(v, kind, i)
      BY <1>0, PostedStep
    <3>4. Posted(v, kind, n + 1)' = Posted(v, kind, n) + EngagementDelta(e.kind, e.action)[kind]
      BY <1>0, PostedStep
    <3> QED
      BY <2>1, <3>1, <3>2, <3>3, <3>4
  <2>3. e.stats["seconds"] = stats[v]["seconds"] /\ stats[v]["seconds"] \in Int
    BY <1>0 DEF Posts, EngagementDelta, ZeroStats, Counters, Kinds
  <2>4. \A i \in 1 .. n : favOutbox[v][i].stats["seconds"] <= e.stats["seconds"]
    BY <1>1, <1>3, <2>1, <2>3 DEF Sums
  <2>5. \A i \in 1 .. n : \A j \in i .. n : favOutbox[v][i].stats["seconds"] <= favOutbox[v][j].stats["seconds"]
    BY <1>1, <1>3, <2>1 DEF Sums
  <2> QED
    <3>1. ASSUME NEW i \in 1 .. n + 1
          PROVE  /\ favOutbox'[v][i].stats \in StatsRows
                 /\ \A kind \in Kinds : favOutbox'[v][i].stats[kind] = Posted(v, kind, i)'
                 /\ \A j \in i .. n + 1 : favOutbox'[v][i].stats["seconds"] <= favOutbox'[v][j].stats["seconds"]
                 /\ favOutbox'[v][i].stats["seconds"] <= stats'[v]["seconds"]
      <4>1. CASE i = n + 1
        <5>1. favOutbox'[v][i] = e /\ e.stats["seconds"] <= e.stats["seconds"]
          BY <2>1, <2>3, <4>1
        <5>2. \A j \in i .. n + 1 : favOutbox'[v][j] = e
          BY <2>1, <4>1
        <5> QED
          BY <2>1, <2>2, <4>1, <5>1, <5>2 DEF Posts
      <4>2. CASE i \in 1 .. n
        <5>1. /\ favOutbox[v][i].stats \in StatsRows
              /\ \A kind \in Kinds : favOutbox[v][i].stats[kind] = Posted(v, kind, i)
          BY <1>1, <1>3, <2>1, <4>2 DEF Sums
        <5>2. ASSUME NEW j \in i .. n + 1
              PROVE  favOutbox'[v][i].stats["seconds"] <= favOutbox'[v][j].stats["seconds"]
          <6>1. CASE j = n + 1
            BY <2>1, <2>4, <4>2, <6>1
          <6>2. CASE j \in i .. n
            <7>1. favOutbox'[v][i] = favOutbox[v][i] /\ favOutbox'[v][j] = favOutbox[v][j]
              BY <2>1, <4>2, <6>2
            <7> QED
              BY <2>5, <4>2, <6>2, <7>1
          <6> QED
            BY <2>1, <4>2, <6>1, <6>2
        <5>3. favOutbox'[v][i] = favOutbox[v][i] /\ favOutbox[v][i].stats["seconds"] <= stats'[v]["seconds"]
          BY <2>1, <2>4, <4>2
        <5> QED
          BY <2>2, <4>2, <5>1, <5>2, <5>3
      <4> QED
        BY <2>1, <4>1, <4>2
    <3> QED
      BY <1>3, <2>0, <2>1, <2>2, <3>1 DEF Sums
<1> QED
  BY <1>2, <1>3

\* A report changes no sum of events, and only adds seconds.
LEMMA ReportKeepsSums ==
    ASSUME ServicesInv, ServicesInv', AllSums, NEW c \in Reports,
           W!Proceed(c) \/ W!Rollback(c) \/ W!ReadFails(c), UNCHANGED favVars
    PROVE  AllSums'
<1> SUFFICES ASSUME NEW v \in Videos PROVE Sums(v)'
  BY DEF AllSums
<1>0. counted \subseteq counted'
  BY ReportSteps DEF ServicesInv, WatchInv, WP!SecondsInv, WP!LockInv, WP!Proceed, WP!Load, WP!Upsert,
     WP!BumpStats, WP!EnqueueEvent, WP!Commit, WP!ReadStats, WP!Rollback, WP!ReadFails
<1>1. /\ favOutbox' = favOutbox /\ Sums(v) /\ favOutbox[v] \in Seq(EP!Events)
      /\ stats[v]["seconds"] \in Int /\ stats'[v]["seconds"] \in Int
  BY SameRows DEF AllSums, favVars, ServicesInv, FavInv, EP!TypeOK, StatsRows, Counters
<1>2. /\ stats'[v]["seconds"] >= stats[v]["seconds"]
      /\ \A kind \in Kinds : stats'[v][kind] = stats[v][kind]
  BY ReportAdds
<1>3. \A kind, i : Posted(v, kind, i)' = Posted(v, kind, i)
  BY <1>1 DEF Posted
<1>4. ASSUME NEW i \in DOMAIN favOutbox[v]
      PROVE  favOutbox[v][i].stats["seconds"] <= stats'[v]["seconds"]
  <2>1. favOutbox[v][i].stats["seconds"] <= stats[v]["seconds"]
    BY <1>1 DEF Sums
  <2>2. favOutbox[v][i].stats["seconds"] \in Int
    BY <1>1 DEF Sums, StatsRows, Counters
  <2> QED
    BY <1>1, <1>2, <2>1, <2>2
<1> QED
  BY <1>0, <1>1, <1>2, <1>3, <1>4 DEF Sums

\* Every step keeps the sums.
LEMMA SumsStep == ServicesInv /\ AllSums /\ [Next]_vars => AllSums'
<1> SUFFICES ASSUME ServicesInv, AllSums, [Next]_vars PROVE AllSums'
  OBVIOUS
<1>0. ServicesInv'
  BY ServicesStep
<1>1. ASSUME NEW c \in Mutations, MutationProceeds(c) \/ MutationFails(c) PROVE AllSums'
  <2>1. CASE UNCHANGED <<stats, favOutbox>> /\ counted \subseteq counted'
    BY <2>1 DEF AllSums, Sums, Posted
  <2>2. /\ counted \subseteq counted'
        /\ favOutbox' # favOutbox =>
             counted' = counted \cup {w \in Videos : favOutbox'[w] # favOutbox[w]}
    BY <1>1 DEF MutationProceeds, MutationFails, E!Rollback, E!ReadFails
  <2>3. ASSUME NEW v \in Videos, NEW e, Posts(v, e) PROVE favOutbox' # favOutbox
    <3>1. favOutbox \in [Videos -> Seq(EP!Events)]
      BY DEF ServicesInv, FavInv, EP!TypeOK
    <3>2. Len(favOutbox'[v]) = Len(favOutbox[v]) + 1 /\ Len(favOutbox[v]) \in Nat
      BY <2>3, <3>1 DEF Posts
    <3> QED
      BY <3>2
  <2> QED
    BY <1>0, <1>1, <2>1, <2>2, <2>3, MutationPosts, PostsKeepsSums DEF MutationProceeds, MutationFails
<1>2. ASSUME NEW c \in Reports, ReportProceeds(c) \/ ReportFails(c) PROVE AllSums'
  BY <1>0, <1>2, ReportKeepsSums DEF ReportProceeds, ReportFails
<1>3. CASE UNCHANGED <<stats, counted, favVars>>
  BY <1>3 DEF AllSums, Sums, Posted, favVars
<1> QED
  BY <1>1, <1>2, <1>3 DEF Next, Ask, ReadNext, QueryFails, Done, vars

\* There is nothing to sum at first.
LEMMA SumsInit == Init => AllSums
<1> SUFFICES ASSUME Init, NEW v \in Videos PROVE Sums(v)
  BY DEF AllSums
<1>1. favOutbox[v] = <<>> /\ \A kind \in Kinds : stats[v][kind] = 0
  BY DEF Init, E!Init, E!ZeroStats, E!Counters, E!Kinds, Kinds
<1>2. Len(favOutbox[v]) = 0 /\ DOMAIN favOutbox[v] = {}
  BY <1>1
<1> QED
  BY <1>1, <1>2, PostedType DEF Sums

\* The two services agree on what SharedStats asks of the reports.
LEMMA SameWatchers ==
    /\ WP!SecondsAgree => W!SecondsAgree
    /\ WP!WatchersExactUnlessOvertaken => W!WatchersExactUnlessOvertaken
<1>1. \A v \in Videos : WP!SecondsOf(v) = W!SecondsOf(v)
  BY DEF WP!SecondsOf, W!SecondsOf, WP!TotalOf, W!TotalOf
<1>2. \A f : WP!SumOf(f, Users) = W!SumOf(f, Users)
  BY DEF WP!SumOf, W!SumOf, WP!MapThenSumSet, W!MapThenSumSet, WP!MapThenFoldSet, W!MapThenFoldSet
<1>3. \A v \in Videos : WP!Watchers(v) = W!Watchers(v)
  BY DEF WP!Watchers, W!Watchers, WP!Qualified, W!Qualified, WP!Threshold, W!Threshold,
         WP!Cardinality, W!Cardinality
<1> QED
  BY <1>1, <1>2, <1>3 DEF WP!SecondsAgree, W!SecondsAgree, WP!WatchersExactUnlessOvertaken,
     W!WatchersExactUnlessOvertaken

\* The additions of the two services do not disturb each other: rows and events
\* are the sums of what was committed, under every interleaving of any number of
\* mutations and reports.
THEOREM StatsAreSumsCorrect == Spec => []StatsAreSums
<1>1. ServicesInv /\ AllSums => StatsAreSums
  BY SameWatchers DEF ServicesInv, WatchInv, WP!SecondsInv, AllSums, Sums, StatsAreSums
<1>2. Spec => []AllSums
  BY SumsInit, SumsStep, ServicesCorrect, PTL DEF Spec
<1> QED
  BY <1>1, <1>2, ServicesCorrect, PTL

-------------------------------------------------------------------------------
\* What the reader reads, and in which order.
LEMMA ReadsShape ==
    /\ Len(Reads) \in Nat \ {0}
    /\ Reads[1].of = "stats"
    /\ \A k \in 2 .. Len(Reads) :
         /\ Reads[k].of \in Kinds /\ Reads[k].video \in Videos
         /\ Reads[k] = [of |-> Reads[k].of, video |-> Reads[k].video]
    /\ \A i \in DOMAIN Batch, kind \in Kinds :
         \E k \in 2 .. Len(Reads) : Reads[k] = [of |-> kind, video |-> Batch[i]]
<1> DEFINE n == Len(Batch)
           states == [k \in 1 .. 2 * n |-> [of |-> IF k % 2 = 1 THEN "like" ELSE "bookmark",
                                             video |-> Batch[(k + 1) \div 2]]]
           stat == <<[of |-> "stats", video |-> None]>>
<1>1. n \in Nat /\ DOMAIN Batch = 1 .. n /\ \A i \in 1 .. n : Batch[i] \in Videos
  BY SharedAssumption
<1>2. \A k \in 1 .. 2 * n : states[k].of \in Kinds /\ states[k].video \in Videos
                            /\ states[k] = [of |-> states[k].of, video |-> states[k].video]
  BY <1>1 DEF Kinds
<1>3. ASSUME NEW i \in 1 .. n
      PROVE  /\ 2 * i - 1 \in 1 .. 2 * n /\ states[2 * i - 1] = [of |-> "like", video |-> Batch[i]]
             /\ 2 * i \in 1 .. 2 * n /\ states[2 * i] = [of |-> "bookmark", video |-> Batch[i]]
  <2>1. /\ i \in Int /\ 2 * i - 1 \in 1 .. 2 * n /\ 2 * i \in 1 .. 2 * n
        /\ (2 * i - 1) % 2 = 1 /\ (2 * i) % 2 # 1
        /\ ((2 * i - 1) + 1) \div 2 = i /\ (2 * i + 1) \div 2 = i
    BY <1>1
  <2> QED
    BY <2>1
<1>4. states \in Seq([of : Kinds \cup {"stats"}, video : Videos \cup {None}]) /\ Len(states) = 2 * n
  <2>1. DOMAIN states = 1 .. 2 * n /\ 2 * n \in Nat
    BY <1>1
  <2>2. \A k \in 1 .. 2 * n : states[k] \in [of : Kinds \cup {"stats"}, video : Videos \cup {None}]
    BY <1>2
  <2>3. states = [k \in 1 .. 2 * n |-> states[k]]
    OBVIOUS
  <2> HIDE DEF states
  <2> QED
    BY <2>1, <2>2, <2>3
<1>5. /\ Len(Reads) = 2 * n + 1 /\ Reads[1] = [of |-> "stats", video |-> None]
      /\ \A k \in 2 .. 2 * n + 1 : Reads[k] = states[k - 1]
  <2>1. Reads = stat \o states
    BY DEF Reads, StatsRead, StateReads
  <2> DEFINE R == [of : Kinds \cup {"stats"}, video : Videos \cup {None}]
  <2>2. stat \in Seq(R) /\ Len(stat) = 1 /\ stat[1] = [of |-> "stats", video |-> None]
    OBVIOUS
  <2> HIDE DEF states, stat
  <2>3. states \in Seq(R) /\ Len(states) = 2 * n
    BY <1>4
  <2> HIDE DEF R
  <2>4. /\ Len(stat \o states) = Len(stat) + Len(states)
        /\ \A k \in 1 .. Len(stat) + Len(states) :
             (stat \o states)[k] = IF k <= Len(stat) THEN stat[k] ELSE states[k - Len(stat)]
    BY <2>2, <2>3, ConcatProperties
  <2> QED
    BY <1>1, <2>1, <2>2, <2>3, <2>4
<1> HIDE DEF states
<1>6. ASSUME NEW i \in 1 .. n, NEW kind \in Kinds
      PROVE  \E k \in 2 .. Len(Reads) : Reads[k] = [of |-> kind, video |-> Batch[i]]
  <2>1. CASE kind = "like"
    <3>1. 2 * i \in 2 .. Len(Reads) /\ Reads[2 * i] = states[2 * i - 1]
      BY <1>1, <1>5
    <3> QED
      BY <1>3, <2>1, <3>1
  <2>2. CASE kind = "bookmark"
    <3>1. 2 * i + 1 \in 2 .. Len(Reads) /\ Reads[2 * i + 1] = states[2 * i]
      BY <1>1, <1>5
    <3> QED
      BY <1>3, <2>2, <3>1
  <2> QED
    BY <2>1, <2>2 DEF Kinds
<1>7. \A k \in 2 .. Len(Reads) : k - 1 \in 1 .. 2 * n /\ Reads[k] = states[k - 1]
  BY <1>1, <1>5
<1> HIDE DEF stat
<1>8. Len(Reads) \in Nat \ {0} /\ Reads[1].of = "stats"
  BY <1>1, <1>5
<1>9. ASSUME NEW k \in 2 .. Len(Reads)
      PROVE  /\ Reads[k].of \in Kinds /\ Reads[k].video \in Videos
             /\ Reads[k] = [of |-> Reads[k].of, video |-> Reads[k].video]
  <2>1. k - 1 \in 1 .. 2 * n /\ Reads[k] = states[k - 1]
    BY <1>7
  <2> HIDE DEF n
  <2> QED
    BY <1>2, <2>1
<1>10. \A i \in DOMAIN Batch, kind \in Kinds :
          \E k \in 2 .. Len(Reads) : Reads[k] = [of |-> kind, video |-> Batch[i]]
  BY <1>1, <1>6
<1> QED
  BY <1>8, <1>9, <1>10

\* What the reader has read of a video fits the first i events of it: the
\* statistics are their sums, and no like they contain is missing in vain.
StateRead(v, kind) == \E k \in 2 .. done : Reads[k] = [of |-> kind, video |-> v]
SeenAt(v, i) ==
    \A kind \in Kinds :
        /\ IF summary[v].stats = None THEN i = 0 ELSE summary[v].stats[kind] = Posted(v, kind, i)
        /\ "add" \in ActionsOf(v, kind, i) /\ StateRead(v, kind) /\ ~summary[v].favorite[kind] =>
              "remove" \in ActionsOf(v, kind, Len(favOutbox[v]))

Summaries == [Videos -> [stats : StatsRows \cup {None}, favorite : [Kinds -> BOOLEAN]]]

\* How far the reader is, and that he has read of some moment since he asked.
ReaderInv ==
    /\ done \in Nat /\ done <= Len(Reads)
    /\ query = "asking" => done = 0
    /\ query = "reading" => done < Len(Reads)
    /\ query = "answered" => done = Len(Reads)
    /\ summary \in Summaries
    /\ \A v \in Videos : asked[v] \in Nat /\ asked[v] <= Len(favOutbox[v])
    /\ done > 0 => \A v \in Videos : \E i \in asked[v] .. Len(favOutbox[v]) : SeenAt(v, i)

\* A favorite that some event sets and that is not set has an event that
\* removes it.
LEMMA RemovedSince ==
    ASSUME ServicesInv, NEW v \in Videos, NEW kind \in Kinds, NEW i \in 0 .. Len(favOutbox[v]),
           "add" \in ActionsOf(v, kind, i), engagements[<<Reader, v, kind>>] # "active"
    PROVE  "remove" \in ActionsOf(v, kind, Len(favOutbox[v]))
<1> DEFINE key == <<Reader, v, kind>>
           S == EP!EventsOfKey(key)
           n == Len(favOutbox[v])
<1>1. key \in EP!Keys /\ key[1] = Reader /\ key[2] = v /\ key[3] = kind
  BY SharedAssumption, SameRows DEF EP!Keys
<1>2. favOutbox[v] \in Seq(EP!Events) /\ n \in Nat /\ DOMAIN favOutbox[v] = 1 .. n
      /\ engagements[key] \in {"absent", "active", "deleted"}
  BY <1>1 DEF ServicesInv, FavInv, EP!TypeOK
<1>3. S = {j \in 1 .. n : favOutbox[v][j].user = Reader /\ favOutbox[v][j].kind = kind}
  BY <1>1, <1>2 DEF EP!EventsOfKey
<1>4. PICK a \in S : favOutbox[v][a].action = "add"
  BY <1>2, <1>3 DEF ActionsOf
<1> HIDE DEF key, S
<1>5. PICK m \in S : \A j \in S : j <= m
  <2> DEFINE From(x) == {j \in S : j >= x}
             F == {From(x) : x \in S}
  <2>1. WP!IsFiniteSet(S)
    <3>1. IsFiniteSet(S)
      <4>1. IsFiniteSet(1 .. n)
        BY <1>2, FS_Interval
      <4> QED
        BY <1>3, <4>1, FS_Subset
    <3> QED
      BY <3>1 DEF WP!IsFiniteSet, IsFiniteSet
  <2>2. F \in SUBSET SUBSET S /\ F # {}
    BY <1>4
  <2>3. PICK T \in F : \A U \in F : U \subseteq T => U = T
    <3> HIDE DEF F
    <3> QED
      BY <2>1, <2>2, WP!SmallestSubset, Assumptions
  <2>4. PICK m \in S : T = From(m)
    OBVIOUS
  <2>5. ASSUME NEW j \in S, j > m PROVE FALSE
    <3>1. j \in Nat /\ m \in Nat /\ S \subseteq Nat
      BY <1>3
    <3>2. From(j) \in F
      OBVIOUS
    <3>3. \A x \in S : x >= j => x >= m
      BY <2>5, <3>1
    <3>4. From(j) \subseteq From(m)
      BY <3>3
    <3>5. m \in From(m) /\ m \notin From(j)
      BY <2>5, <3>1
    <3> HIDE DEF From, F
    <3> QED
      BY <2>3, <2>4, <3>2, <3>4, <3>5
  <2>6. \A j \in S : j \in Nat /\ m \in Nat
    BY <1>3
  <2> QED
    BY <2>5, <2>6
<1>6. EP!IsLast(key, m) /\ m \in DOMAIN favOutbox[v]
  BY <1>2, <1>3, <1>5 DEF EP!IsLast, S
<1>7. engagements[key] = "deleted"
  <2>1. (engagements[key] = "absent") <=> \A j \in S : favOutbox[v][j].action = "remove"
    BY <1>1 DEF ServicesInv, FavInv, EP!RowsFollowEvents, S
  <2> QED
    BY <1>2, <1>4, <2>1 DEF key
<1>8. favOutbox[v][m].action = "remove"
  BY <1>1, <1>6, <1>7 DEF ServicesInv, FavInv, EP!RowsFollowEvents
<1> QED
  BY <1>2, <1>3, <1>5, <1>8 DEF ActionsOf

\* Events that were read about stay where they are.
LEMMA ActionsKept ==
    ASSUME ServicesInv, NEW v \in Videos, NEW e, Posts(v, e), NEW w \in Videos, NEW kind \in Kinds
    PROVE  /\ \A i \in 0 .. Len(favOutbox[w]) : ActionsOf(w, kind, i)' = ActionsOf(w, kind, i)
           /\ \A i \in 0 .. Len(favOutbox[w]), j \in 0 .. Len(favOutbox'[w]) :
                i <= j => ActionsOf(w, kind, i) \subseteq ActionsOf(w, kind, j)'
<1>0. favOutbox \in [Videos -> Seq(EP!Events)]
  BY DEF ServicesInv, FavInv, EP!TypeOK
<1>1. /\ Len(favOutbox[w]) \in Nat /\ Len(favOutbox'[w]) >= Len(favOutbox[w]) /\ Len(favOutbox'[w]) \in Nat
      /\ \A i \in 1 .. Len(favOutbox[w]) : favOutbox'[w][i] = favOutbox[w][i]
  BY <1>0, PostedStep
<1>2. ASSUME NEW i \in 0 .. Len(favOutbox[w]) PROVE ActionsOf(w, kind, i)' = ActionsOf(w, kind, i)
  <2> DEFINE Mine(log) == {j \in 1 .. i : log[j].user = Reader /\ log[j].kind = kind}
  <2>1. \A j \in 1 .. i : favOutbox'[w][j] = favOutbox[w][j]
    BY <1>1
  <2>2. Mine(favOutbox'[w]) = Mine(favOutbox[w])
    BY <2>1
  <2> QED
    BY <2>1, <2>2 DEF ActionsOf
<1>3. ASSUME NEW i \in 0 .. Len(favOutbox[w]), NEW j \in 0 .. Len(favOutbox'[w]), i <= j
      PROVE  ActionsOf(w, kind, i) \subseteq ActionsOf(w, kind, j)'
  <2>1. \A k \in 1 .. i : k \in 1 .. j /\ favOutbox'[w][k] = favOutbox[w][k]
    BY <1>1, <1>3
  <2> QED
    BY <2>1 DEF ActionsOf
<1> QED
  BY <1>2, <1>3

\* A commit of a mutation leaves what was seen where it was seen.
LEMMA SeenKept ==
    ASSUME ServicesInv, NEW v \in Videos, NEW e, Posts(v, e), UNCHANGED queryVars,
           NEW w \in Videos, NEW i \in 0 .. Len(favOutbox[w]), SeenAt(w, i)
    PROVE  SeenAt(w, i)' /\ i \in 0 .. Len(favOutbox'[w])
<1>0. favOutbox \in [Videos -> Seq(EP!Events)]
  BY DEF ServicesInv, FavInv, EP!TypeOK
<1>1. Len(favOutbox[w]) \in Nat /\ Len(favOutbox'[w]) \in Nat /\ Len(favOutbox'[w]) >= Len(favOutbox[w])
  BY <1>0 DEF Posts
<1>2. ASSUME NEW kind \in Kinds
      PROVE  /\ Posted(w, kind, i)' = Posted(w, kind, i)
             /\ ActionsOf(w, kind, i)' = ActionsOf(w, kind, i)
             /\ ActionsOf(w, kind, Len(favOutbox[w])) \subseteq ActionsOf(w, kind, Len(favOutbox[w]))'
             /\ StateRead(w, kind)' = StateRead(w, kind)
  <2>1. Posted(w, kind, i)' = Posted(w, kind, i)
    BY <1>0, PostedStep
  <2>2. StateRead(w, kind)' = StateRead(w, kind)
    BY DEF StateRead, queryVars
  <2>3. PICK n, m : n = Len(favOutbox[w]) /\ m = Len(favOutbox'[w])
    OBVIOUS
  <2>4. ActionsOf(w, kind, n) \subseteq ActionsOf(w, kind, m)'
    BY <1>1, <2>3, ActionsKept
  <2>5. ActionsOf(w, kind, m)' = ActionsOf(w, kind, Len(favOutbox[w]))'
    BY <2>3
  <2> QED
    BY <1>1, <2>1, <2>2, <2>3, <2>4, <2>5, ActionsKept
<1> QED
  BY <1>1, <1>2 DEF SeenAt, queryVars

\* The first read has the statistics of the present moment.
LEMMA StatsRead1 ==
    ASSUME ServicesInv, AllSums, ReaderInv, ReadNext, done = 0
    PROVE  ReaderInv'
<1>1. Reads[done + 1].of = "stats" /\ Len(Reads) \in Nat \ {0}
  BY ReadsShape
<1>2. /\ summary' = [v \in Videos |->
                       [summary[v] EXCEPT !.stats = IF v \in counted THEN stats[v] ELSE None]]
      /\ done' = 1 /\ UNCHANGED <<stats, favOutbox, asked>>
      /\ query' = IF done' = Len(Reads) THEN "answered" ELSE "reading"
  BY <1>1 DEF ReadNext, favVars
<1>3. stats \in [Videos -> StatsRows]
  BY SameRows DEF ServicesInv, FavInv, EP!TypeOK
<1>4. summary' \in Summaries
  BY <1>2, <1>3 DEF ReaderInv, Summaries
<1>5. ASSUME NEW v \in Videos
      PROVE  \E i \in asked'[v] .. Len(favOutbox'[v]) : SeenAt(v, i)'
  <2>1. PICK n : n = Len(favOutbox[v])
    OBVIOUS
  <2>2. n \in asked'[v] .. Len(favOutbox'[v])
    <3>1. n \in Nat
      BY <2>1 DEF ServicesInv, FavInv, EP!TypeOK
    <3> QED
      BY <1>2, <2>1, <3>1 DEF ReaderInv
  <2>30. ASSUME NEW kind \in Kinds
         PROVE  ~StateRead(v, kind)'
    <3>1. done' = 1
      BY <1>2
    <3>2. \A k \in 2 .. done' : FALSE
      BY <3>1
    <3> QED
      BY <3>2 DEF StateRead
  <2>3. ASSUME NEW kind \in Kinds
        PROVE  /\ ~StateRead(v, kind)'
               /\ IF summary'[v].stats = None THEN n = 0 ELSE summary'[v].stats[kind] = Posted(v, kind, n)'
    <3>1. stats[v][kind] = Posted(v, kind, n)
      BY <2>1 DEF AllSums, Sums
    <3>2. Posted(v, kind, n)' = Posted(v, kind, n)
      BY <1>2 DEF Posted
    <3>3. CASE v \in counted
      <4>1. summary'[v].stats = stats[v]
        BY <1>2, <3>3 DEF ReaderInv, Summaries
      <4>2. stats[v] # None
        BY <1>3, SharedAssumption DEF StatsRows
      <4> QED
        BY <3>1, <3>2, <4>1, <4>2, <2>30
    <3>4. CASE v \notin counted
      <4>1. summary'[v].stats = None
        BY <1>2, <3>4 DEF ReaderInv, Summaries
      <4>2. n = 0
        BY <2>1, <3>4 DEF AllSums, Sums
      <4> QED
        BY <4>1, <4>2, <2>30
    <3> QED
      BY <3>3, <3>4
  <2> QED
    BY <2>2, <2>3 DEF SeenAt
<1>6. \A v \in Videos : asked'[v] \in Nat /\ asked'[v] <= Len(favOutbox'[v])
  BY <1>2 DEF ReaderInv
<1>7. /\ done' \in Nat /\ done' <= Len(Reads) /\ query' # "asking"
      /\ query' = "reading" => done' < Len(Reads)
      /\ query' = "answered" => done' = Len(Reads)
  <2>1. Len(Reads) \in Nat /\ Len(Reads) >= 1 /\ done' = 1
    BY <1>1, <1>2
  <2>2. \/ query' = "answered" /\ done' = Len(Reads)
        \/ query' = "reading" /\ done' # Len(Reads)
    BY <1>2
  <2>3. /\ done' \in Nat /\ done' <= Len(Reads)
        /\ done' # Len(Reads) => done' < Len(Reads)
    <3>1. \A n \in Nat : n >= 1 => 1 <= n /\ (1 # n => 1 < n)
      OBVIOUS
    <3> QED
      BY <2>1, <3>1, Zenon
  <2> QED
    BY <2>2, <2>3
<1> QED
  BY <1>4, <1>5, <1>6, <1>7 DEF ReaderInv

\* Each later read is of a state that is no older than the statistics.
LEMMA StateReadK ==
    ASSUME ServicesInv, ReaderInv, ReadNext, done > 0
    PROVE  ReaderInv'
<1> DEFINE read == Reads[done + 1]
           set == engagements[<<Reader, read.video, read.of>>] = "active"
           old == summary[read.video]
<1>1. /\ done \in Nat /\ Len(Reads) \in Nat /\ done + 1 \in 2 .. Len(Reads)
      /\ read.of \in Kinds /\ read.video \in Videos
      /\ read = [of |-> read.of, video |-> read.video]
  <2>1. query = "reading"
    BY DEF ReadNext
  <2>2. done \in Nat /\ Len(Reads) \in Nat /\ done < Len(Reads)
    BY <2>1, ReadsShape DEF ReaderInv
  <2>3. done + 1 \in 2 .. Len(Reads)
    BY <2>2
  <2> QED
    BY <2>2, <2>3, ReadsShape
<1>2. /\ summary' = [summary EXCEPT ![read.video].favorite[read.of] = set]
      /\ done' = done + 1 /\ UNCHANGED <<stats, favOutbox, asked>>
      /\ query' = IF done' = Len(Reads) THEN "answered" ELSE "reading"
  BY <1>1 DEF ReadNext, favVars, Kinds
<1>3. /\ summary' \in Summaries
      /\ \A v \in Videos : summary'[v].stats = summary[v].stats
      /\ \A v \in Videos, kind \in Kinds :
           summary'[v].favorite[kind] = IF v = read.video /\ kind = read.of THEN set
                                        ELSE summary[v].favorite[kind]
  <2>1. summary \in Summaries /\ old.favorite \in [Kinds -> BOOLEAN] /\ set \in BOOLEAN
    BY <1>1 DEF ReaderInv, Summaries
  <2>2. summary' = [summary EXCEPT ![read.video] =
                      [old EXCEPT !.favorite = [old.favorite EXCEPT ![read.of] = set]]]
    BY <1>2
  <2> HIDE DEF set, read, old
  <2> DEFINE f == [old.favorite EXCEPT ![read.of] = set]
  <2>3. /\ f \in [Kinds -> BOOLEAN]
        /\ \A kind \in Kinds : f[kind] = IF kind = read.of THEN set ELSE old.favorite[kind]
    BY <1>1, <2>1
  <2> HIDE DEF f
  <2>4. /\ [old EXCEPT !.favorite = f] \in [stats : StatsRows \cup {None}, favorite : [Kinds -> BOOLEAN]]
        /\ [old EXCEPT !.favorite = f].stats = old.stats /\ [old EXCEPT !.favorite = f].favorite = f
    BY <1>1, <2>1, <2>3 DEF old, Summaries
  <2>5. summary' = [summary EXCEPT ![read.video] = [old EXCEPT !.favorite = f]]
    BY <2>2 DEF f
  <2> DEFINE new == [old EXCEPT !.favorite = f]
  <2> HIDE DEF new
  <2>6. /\ new \in [stats : StatsRows \cup {None}, favorite : [Kinds -> BOOLEAN]]
        /\ new.stats = old.stats /\ new.favorite = f
        /\ summary' = [summary EXCEPT ![read.video] = new]
    BY <2>4, <2>5 DEF new
  <2> QED
    BY <1>1, <2>1, <2>3, <2>6 DEF Summaries, old
<1> HIDE DEF old
<1>4. ASSUME NEW v \in Videos
      PROVE  \E i \in asked'[v] .. Len(favOutbox'[v]) : SeenAt(v, i)'
  <2>1. PICK i \in asked[v] .. Len(favOutbox[v]) : SeenAt(v, i)
    BY DEF ReaderInv
  <2>2. i \in 0 .. Len(favOutbox[v])
    <3>1. asked[v] \in Nat /\ Len(favOutbox[v]) \in Nat
      BY DEF ReaderInv, ServicesInv, FavInv, EP!TypeOK
    <3> QED
      BY <3>1
  <2>3. ASSUME NEW kind \in Kinds
        PROVE  /\ IF summary'[v].stats = None THEN i = 0
                  ELSE summary'[v].stats[kind] = Posted(v, kind, i)'
               /\ "add" \in ActionsOf(v, kind, i)' /\ StateRead(v, kind)' /\ ~summary'[v].favorite[kind] =>
                     "remove" \in ActionsOf(v, kind, Len(favOutbox[v]))'
    <3>1. Posted(v, kind, i)' = Posted(v, kind, i)
      BY <1>2 DEF Posted
    <3>2. /\ ActionsOf(v, kind, i)' = ActionsOf(v, kind, i)
          /\ ActionsOf(v, kind, Len(favOutbox[v]))' = ActionsOf(v, kind, Len(favOutbox[v]))
      BY <1>2 DEF ActionsOf
    <3>3. CASE v = read.video /\ kind = read.of
      <4>1. summary'[v].favorite[kind] = set
        BY <1>3, <3>3
      <4> QED
        BY <1>3, <2>1, <2>2, <3>1, <3>2, <3>3, <4>1, RemovedSince DEF SeenAt
    <3>4. CASE ~(v = read.video /\ kind = read.of)
      <4>1. StateRead(v, kind)' => StateRead(v, kind)
        <5> SUFFICES ASSUME NEW k \in 2 .. done + 1, Reads[k] = [of |-> kind, video |-> v]
                     PROVE  k \in 2 .. done
          BY <1>2 DEF StateRead, Reads, StatsRead, StateReads
        <5>1. k # done + 1
          BY <3>4
        <5> QED
          BY <1>1, <5>1
      <4> QED
        BY <1>3, <2>1, <3>1, <3>2, <3>4, <4>1 DEF SeenAt
    <3> QED
      BY <3>3, <3>4
  <2>4. SeenAt(v, i)'
    BY <2>3 DEF SeenAt
  <2> QED
    BY <1>2, <2>1, <2>4
<1> QED
  BY <1>1, <1>2, <1>3, <1>4 DEF ReaderInv

\* No step of anybody takes from the reader what he has.
LEMMA ReaderStep == ServicesInv /\ AllSums /\ ReaderInv /\ [Next]_vars => ReaderInv'
<1> SUFFICES ASSUME ServicesInv, AllSums, ReaderInv, [Next]_vars PROVE ReaderInv'
  OBVIOUS
<1>0. /\ Len(Reads) \in Nat \ {0}
      /\ \A v \in Videos : Len(favOutbox[v]) \in Nat
  BY ReadsShape DEF ServicesInv, FavInv, EP!TypeOK
<1>1. CASE UNCHANGED <<favOutbox, queryVars>>
  <2>1. \A v, i : SeenAt(v, i)' = SeenAt(v, i)
    BY <1>1 DEF SeenAt, Posted, ActionsOf, StateRead, queryVars
  <2> QED
    BY <1>1, <2>1 DEF ReaderInv, queryVars
<1>2. ASSUME NEW w \in Videos, NEW e, Posts(w, e), UNCHANGED queryVars PROVE ReaderInv'
  <2>1. ASSUME NEW v \in Videos PROVE Len(favOutbox'[v]) >= Len(favOutbox[v]) /\ Len(favOutbox'[v]) \in Nat
    BY <1>2 DEF Posts, ServicesInv, FavInv, EP!TypeOK
  <2>2. ASSUME NEW v \in Videos, done > 0 PROVE \E i \in asked[v] .. Len(favOutbox'[v]) : SeenAt(v, i)'
    <3>1. PICK i \in asked[v] .. Len(favOutbox[v]) : SeenAt(v, i)
      BY <2>2 DEF ReaderInv
    <3>2. i \in 0 .. Len(favOutbox[v]) /\ asked[v] \in Nat
      BY <1>0, <3>1 DEF ReaderInv
    <3>3. SeenAt(v, i)' /\ i \in 0 .. Len(favOutbox'[v])
      BY <1>2, <3>1, <3>2, SeenKept
    <3> QED
      BY <3>1, <3>2, <3>3, <1>0
  <2>3. UNCHANGED <<query, done, summary, asked>>
    BY <1>2 DEF queryVars
  <2>4. \A v \in Videos : asked[v] <= Len(favOutbox'[v])
    BY <1>0, <2>1 DEF ReaderInv
  <2> QED
    BY <2>2, <2>3, <2>4 DEF ReaderInv
<1>3. ASSUME NEW c \in Mutations, MutationProceeds(c) \/ MutationFails(c) PROVE ReaderInv'
  <2>1. UNCHANGED queryVars /\ (E!Proceed(c) \/ E!Rollback(c) \/ E!ReadFails(c))
    BY <1>3 DEF MutationProceeds, MutationFails
  <2> QED
    BY <1>1, <1>2, <2>1, MutationPosts
<1>4. ASSUME NEW c \in Reports, ReportProceeds(c) \/ ReportFails(c) PROVE ReaderInv'
  BY <1>1, <1>4 DEF ReportProceeds, ReportFails, favVars
<1>5. CASE Ask
  <2>1. /\ done = 0 /\ UNCHANGED <<favOutbox, done, summary>> /\ query' = "reading"
        /\ asked' = [v \in Videos |-> Len(favOutbox[v])]
    BY <1>5 DEF Ask, ReaderInv, favVars
  <2> QED
    BY <1>0, <2>1 DEF ReaderInv
<1>6. CASE ReadNext
  BY <1>6, StatsRead1, StateReadK DEF ReaderInv
<1>7. CASE QueryFails
  <2>1. UNCHANGED <<favOutbox, done, summary, asked>> /\ query' = "failed"
    BY <1>7 DEF QueryFails, favVars
  <2>2. \A v, i : SeenAt(v, i)' = SeenAt(v, i)
    BY <2>1 DEF SeenAt, Posted, ActionsOf, StateRead
  <2> QED
    BY <2>1, <2>2 DEF ReaderInv
<1>8. CASE UNCHANGED vars
  BY <1>1, <1>8 DEF vars, favVars
<1> QED
  BY <1>3, <1>4, <1>5, <1>6, <1>7, <1>8 DEF Next, Done

\* The reader has nothing at first.
LEMMA ReaderInit == Init => ReaderInv
<1> SUFFICES ASSUME Init PROVE ReaderInv
  OBVIOUS
<1>1. \A v \in Videos : Len(favOutbox[v]) = 0
  BY DEF Init, E!Init
<1>2. summary \in Summaries
  BY DEF Init, Summaries, StatsRows, ZeroStats
<1> QED
  BY <1>1, <1>2, ReadsShape DEF Init, ReaderInv

\* A batch answer is of a moment since the question, and its states are no older
\* than its statistics, for every batch, whatever mutations run meanwhile.
THEOREM BatchNotOlderCorrect == Spec => []BatchNotOlder
<1>1. ASSUME ReaderInv PROVE BatchNotOlder
  <2> SUFFICES ASSUME query = "answered", NEW v \in {Batch[i] : i \in DOMAIN Batch}
               PROVE  \E i \in asked[v] .. Len(favOutbox[v]) : \A kind \in Kinds :
                        /\ IF summary[v].stats = None THEN i = 0
                           ELSE summary[v].stats[kind] = Posted(v, kind, i)
                        /\ "add" \in ActionsOf(v, kind, i) /\ ~summary[v].favorite[kind] =>
                              "remove" \in ActionsOf(v, kind, Len(favOutbox[v]))
    BY DEF BatchNotOlder
  <2>1. v \in Videos /\ done = Len(Reads) /\ done > 0
    BY <1>1, ReadsShape, SharedAssumption DEF ReaderInv
  <2>2. PICK i \in asked[v] .. Len(favOutbox[v]) : SeenAt(v, i)
    BY <1>1, <2>1 DEF ReaderInv
  <2>3. \A kind \in Kinds : StateRead(v, kind)
    BY <2>1, ReadsShape DEF StateRead
  <2> QED
    BY <2>2, <2>3 DEF SeenAt
<1>2. Spec => [](ServicesInv /\ AllSums)
  BY SumsInit, SumsStep, ServicesCorrect, PTL DEF Spec
<1>3. Spec => []ReaderInv
  BY <1>2, ReaderInit, ReaderStep, PTL DEF Spec
<1> QED
  BY <1>1, <1>3, PTL
===============================================================================
