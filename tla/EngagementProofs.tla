--------------------------- MODULE EngagementProofs ---------------------------
(***************************************************************************)
(* What holds of Engagement for every set of calls, users and videos.      *)
(***************************************************************************)
EXTENDS Engagement, SequenceTheorems, TLAPS

\* The deltas and the sums of the statistics are rows of integers.
LEMMA IncrementType ==
    ASSUME NEW row \in StatsRows, NEW kind \in Kinds, NEW action \in FavoriteActions
    PROVE  Increment(row, EngagementDelta(kind, action)) \in StatsRows
  BY DEF StatsRows, Increment, EngagementDelta, ZeroStats, Counters, Kinds

\* A row of zeros is a row of integers.
LEMMA ZeroType == ZeroStats \in StatsRows
  BY DEF ZeroStats, StatsRows

\* The successor of a statement in the program of Mutate.
LEMMA ProgramSteps ==
    ASSUME NEW action
    PROVE  /\ Program(action)["begin"] = "engage"
           /\ Program(action)["engage"] = "bump"
           /\ Program(action)["bump"] = "fetch"
           /\ Program(action)["fetch"] = "enqueue"
           /\ Program(action)["enqueue"] = "commit"
  BY DEF Program

\* The rows a call works on are rows of the tables.
LEMMA KeyType ==
    ASSUME TypeOK, NEW c \in Calls
    PROVE  Key(c) \in Keys /\ Video(c) \in Videos
  BY DEF TypeOK, Inputs, Key, Keys, Video

\* Overwriting one field of a record of pending writes.
LEMMA PendingFields ==
    ASSUME NEW p \in Pending
    PROVE  /\ \A row \in {"active", "deleted"} : [p EXCEPT !.row = row] \in Pending
           /\ \A s \in StatsRows : [p EXCEPT !.stats = s] \in Pending
           /\ \A s \in StatsRows : [p EXCEPT !.snapshot = s] \in Pending
           /\ \A e \in Events : [p EXCEPT !.event = e] \in Pending
  BY DEF Pending

\* What WriteEngagement leaves behind.
LEMMA WriteEngagementType ==
    ASSUME TypeOK, NEW c \in Calls, NEW row \in {"active", "deleted"}, WriteEngagement(c, row)
    PROVE  /\ engLock' \in [Keys -> Calls \cup {None}]
           /\ pend' \in [Calls -> Pending]
  <1>1. pend[c] \in Pending
    BY DEF TypeOK
  <1>2. [pend[c] EXCEPT !.row = row] \in Pending
    BY <1>1, PendingFields
  <1> QED
    BY <1>2, KeyType DEF WriteEngagement, TypeOK

-------------------------------------------------------------------------------
\* No statement, failure or rollback leaves a variable without its type.
LEMMA TypeStep ==
    TypeOK /\ [Next]_vars => TypeOK'
<1> SUFFICES ASSUME TypeOK, [Next]_vars PROVE TypeOK'
  OBVIOUS
<1> USE DEF TypeOK, Inputs, InTx, Committed, Responding
<1>1. ASSUME NEW c \in Calls, Begin(c) PROVE TypeOK'
  <2>1. clock' \in Nat /\ occurred' \in [Calls -> Nat]
    BY <1>1, EngagementAssumption DEF Begin
  <2> QED
    BY <1>1, <2>1, ProgramSteps DEF Begin, Advance
<1>2. ASSUME NEW c \in Calls, UpsertEngagement(c) PROVE TypeOK'
  BY <1>2, ProgramSteps, WriteEngagementType DEF UpsertEngagement, Advance
<1>3. ASSUME NEW c \in Calls, SoftDeleteEngagement(c) PROVE TypeOK'
  BY <1>3, ProgramSteps, WriteEngagementType DEF SoftDeleteEngagement, Advance
<1>4. ASSUME NEW c \in Calls, BumpStats(c) PROVE TypeOK'
  <2>1. Increment(stats[Video(c)], EngagementDelta(input[c].kind, input[c].action)) \in StatsRows
    BY IncrementType, KeyType
  <2>2. pend' \in [Calls -> Pending]
    BY <1>4, <2>1, PendingFields DEF BumpStats
  <2> QED
    BY <1>4, <2>2, ProgramSteps, KeyType DEF BumpStats, Advance
<1>5. ASSUME NEW c \in Calls, FetchStats(c) PROVE TypeOK'
  <2> DEFINE seen == IF statsLock[Video(c)] = c THEN pend[c].stats ELSE stats[Video(c)]
  <2>1. seen \in StatsRows
    BY KeyType DEF Pending
  <2>2. pend' \in [Calls -> Pending]
    <3>1. [pend[c] EXCEPT !.snapshot = seen] \in Pending
      BY <2>1, PendingFields
    <3>2. pend' = pend \/ pend' = [pend EXCEPT ![c] = [pend[c] EXCEPT !.snapshot = seen]]
      BY <1>5 DEF FetchStats
    <3> QED
      BY <3>1, <3>2
  <2> QED
    BY <1>5, <2>2, ProgramSteps DEF FetchStats, Advance
<1>6. ASSUME NEW c \in Calls, EnqueueEvent(c) PROVE TypeOK'
  <2>1. EventOf(c) \in Events
    BY DEF EventOf, Events, Pending
  <2>2. pend' \in [Calls -> Pending]
    BY <1>6, <2>1, PendingFields DEF EnqueueEvent
  <2> QED
    BY <1>6, <2>2, ProgramSteps DEF EnqueueEvent, Advance
<1>7. ASSUME NEW c \in Calls, Commit(c) PROVE TypeOK'
  BY <1>7 DEF Commit, ReleaseLocks, Pending, Video, Key, Keys
<1>8. ASSUME NEW c \in Calls, Rollback(c) PROVE TypeOK'
  BY <1>8, ZeroType DEF Rollback, ReleaseLocks, Pending, NoWrites
<1>9. ASSUME NEW c \in Calls, ReadLike(c) \/ ReadBookmark(c) PROVE TypeOK'
  <2>1. PICK kind \in Kinds, from \in Responding, to \in Responding : ReadFavorite(c, kind, from, to)
    BY <1>9 DEF ReadLike, ReadBookmark, Kinds
  <2>2. reply' \in [Calls -> Replies]
    <3>1. reply[c].favorite \in [Kinds -> BOOLEAN] /\ IsSet(c, kind) \in BOOLEAN
      BY DEF Replies, IsSet
    <3>2. [reply[c].favorite EXCEPT ![kind] = IsSet(c, kind)] \in [Kinds -> BOOLEAN]
      BY <3>1
    <3>3. \A f \in [Kinds -> BOOLEAN] : [reply[c] EXCEPT !.favorite = f] \in Replies
      BY DEF Replies
    <3>4. reply' = [reply EXCEPT ![c] =
                      [reply[c] EXCEPT !.favorite = [reply[c].favorite EXCEPT ![kind] = IsSet(c, kind)]]]
      BY <2>1 DEF ReadFavorite
    <3> QED
      BY <3>2, <3>3, <3>4
  <2> QED
    BY <2>1, <2>2 DEF ReadFavorite
<1>10. ASSUME NEW c \in Calls, ReadStats(c) PROVE TypeOK'
  BY <1>10 DEF ReadStats, Replies, Video
<1>11. ASSUME NEW c \in Calls, ReadFails(c) PROVE TypeOK'
  BY <1>11 DEF ReadFails
<1>12. CASE UNCHANGED vars
  BY <1>12 DEF vars
<1> QED
  BY <1>1, <1>2, <1>3, <1>4, <1>5, <1>6, <1>7, <1>8, <1>9, <1>10, <1>11, <1>12
  DEF Next, Proceed, Done

\* The initial values have their types.
LEMMA TypeInit == Init => TypeOK
  BY ZeroType DEF Init, TypeOK, Replies, Pending, NoWrites

\* Every variable keeps its type: no mix of statements, failures and rollbacks
\* leaves a nil snapshot in a row, a lock held by nobody, or a half-built event.
THEOREM TypeCorrect == Spec => []TypeOK
<1>1. Init => TypeOK
  BY TypeInit
<1>2. TypeOK /\ [Next]_vars => TypeOK'
  BY TypeStep
<1> QED
  BY <1>1, <1>2, PTL DEF Spec

-------------------------------------------------------------------------------
\* Between its statistics statement and its end a transaction owns the row.
LEMMA AddedUnderLockStep ==
    ASSUME TypeOK, AddedUnderLock, [Next]_vars
    PROVE  AddedUnderLock'
<1> SUFFICES ASSUME NEW d \in Calls PROVE AddsUnderLock(d)'
  BY DEF AddedUnderLock
<1>0. /\ AddsUnderLock(d)
      /\ d # None
      /\ pend[d] \in Pending
      /\ Video(d) \in Videos
  BY KeyType, EngagementAssumption DEF TypeOK, AddedUnderLock
<1> USE <1>0 DEF TypeOK, AddsUnderLock, Video, EventOf
\* A step of another call that leaves the rows and the locks of d alone.
<1>1. ASSUME NEW c \in Calls, c # d, pc' = [pc EXCEPT ![c] = pc'[c]],
             pend' = [pend EXCEPT ![c] = pend'[c]], input' = input, occurred'[d] = occurred[d],
             statsLock[Video(d)] = d => statsLock'[Video(d)] = d,
             statsLock[Video(d)] = d => stats'[Video(d)] = stats[Video(d)]
      PROVE  AddsUnderLock(d)'
  BY <1>1
<1>2. ASSUME NEW c \in Calls, Begin(c) PROVE AddsUnderLock(d)'
  BY <1>2, ProgramSteps DEF Begin, Advance
<1>3. ASSUME NEW c \in Calls, UpsertEngagement(c) \/ SoftDeleteEngagement(c) PROVE AddsUnderLock(d)'
  <2>1. CASE c = d
    BY <1>3, <2>1, ProgramSteps DEF UpsertEngagement, SoftDeleteEngagement, Advance
  <2>2. CASE c # d
    BY <1>1, <1>3, <2>2 DEF UpsertEngagement, SoftDeleteEngagement, WriteEngagement, Advance
  <2> QED BY <2>1, <2>2
<1>4. ASSUME NEW c \in Calls, BumpStats(c) PROVE AddsUnderLock(d)'
  <2>1. CASE c = d
    BY <1>4, <2>1, ProgramSteps DEF BumpStats, Advance, Pending
  <2>2. CASE c # d
    BY <1>1, <1>4, <2>2, KeyType DEF BumpStats, Advance
  <2> QED BY <2>1, <2>2
<1>5. ASSUME NEW c \in Calls, FetchStats(c) PROVE AddsUnderLock(d)'
  <2>1. CASE c = d
    BY <1>5, <2>1, ProgramSteps DEF FetchStats, Advance, Pending
  <2>2. CASE c # d
    BY <1>1, <1>5, <2>2 DEF FetchStats, Advance
  <2> QED BY <2>1, <2>2
<1>6. ASSUME NEW c \in Calls, EnqueueEvent(c) PROVE AddsUnderLock(d)'
  <2>1. CASE c = d
    BY <1>6, <2>1, ProgramSteps DEF EnqueueEvent, Advance, Pending
  <2>2. CASE c # d
    BY <1>1, <1>6, <2>2 DEF EnqueueEvent, Advance
  <2> QED BY <2>1, <2>2
<1>7. ASSUME NEW c \in Calls, Commit(c) PROVE AddsUnderLock(d)'
  <2>1. CASE c = d
    BY <1>7, <2>1 DEF Commit
  <2>2. CASE c # d
    <3>1. statsLock[Video(c)] = c
      BY <1>7 DEF Commit, AddedUnderLock
    <3> QED
      BY <1>1, <1>7, <2>2, <3>1, KeyType DEF Commit, ReleaseLocks
  <2> QED BY <2>1, <2>2
<1>8. ASSUME NEW c \in Calls, Rollback(c) PROVE AddsUnderLock(d)'
  <2>1. CASE c = d
    BY <1>8, <2>1 DEF Rollback
  <2>2. CASE c # d
    BY <1>1, <1>8, <2>2 DEF Rollback, ReleaseLocks
  <2> QED BY <2>1, <2>2
<1>9. ASSUME NEW c \in Calls, ReadLike(c) \/ ReadBookmark(c) \/ ReadStats(c) \/ ReadFails(c)
      PROVE  AddsUnderLock(d)'
  BY <1>9 DEF ReadLike, ReadBookmark, ReadStats, ReadFavorite, ReadFails, Responding
<1>10. CASE UNCHANGED vars
  BY <1>10 DEF vars
<1> QED
  BY <1>2, <1>3, <1>4, <1>5, <1>6, <1>7, <1>8, <1>9, <1>10 DEF Next, Proceed, Done

\* At first no call has added anything.
LEMMA AddedUnderLockInit == Init => AddedUnderLock
  BY DEF Init, AddedUnderLock, AddsUnderLock

\* Between its statistics statement and its end a transaction owns the row
\* and its sum stays right: what SnapshotsCorrect rests on.
THEOREM AddedUnderLockCorrect == Spec => []AddedUnderLock
<1>1. Init => AddedUnderLock
  BY AddedUnderLockInit
<1> QED
  BY <1>1, AddedUnderLockStep, TypeCorrect, PTL DEF Spec

\* The one step that writes statistics or events.
LEMMA OtherStepsKeepStats ==
    ASSUME [Next]_vars
    PROVE  (\E c \in Calls : Commit(c)) \/ UNCHANGED <<stats, outbox, engagements>>
  BY DEF Next, Proceed, Done, vars, Begin, UpsertEngagement, SoftDeleteEngagement, BumpStats,
         FetchStats, EnqueueEvent, Rollback, ReadLike, ReadBookmark, ReadFavorite, ReadStats,
         ReadFails

\* A commit appends the event of the call, whose snapshot is the new row.
LEMMA CommitAppends ==
    ASSUME TypeOK, AddedUnderLock, NEW c \in Calls, Commit(c)
    PROVE  /\ EventOf(c) \in Events
           /\ outbox' = [outbox EXCEPT ![Video(c)] = Append(outbox[Video(c)], EventOf(c))]
           /\ stats' = [stats EXCEPT ![Video(c)] = EventOf(c).stats]
           /\ EventOf(c).stats = Increment(stats[Video(c)],
                                           EngagementDelta(EventOf(c).kind, EventOf(c).action))
  <1>1. /\ pend[c].event = EventOf(c)
        /\ pend[c].snapshot = pend[c].stats
        /\ pend[c].stats = Increment(stats[Video(c)], EngagementDelta(input[c].kind, input[c].action))
    BY DEF Commit, AddedUnderLock, AddsUnderLock
  <1>2. EventOf(c) \in Events
    BY DEF EventOf, Events, TypeOK, Pending, Inputs
  <1>3. pend[c].event # None
    BY <1>1, <1>2, EngagementAssumption
  <1> QED
    BY <1>1, <1>2, <1>3 DEF Commit, EventOf

\* The statistics row of every video is the running sum of its committed
\* events, and every event carries the sum at its place.
THEOREM SnapshotsCorrect == Spec => []SnapshotsFormAChain
<1>1. Init => SnapshotsFormAChain
  BY DEF Init, SnapshotsFormAChain, StatsAfter
<1>2. ASSUME TypeOK, AddedUnderLock, SnapshotsFormAChain, [Next]_vars PROVE SnapshotsFormAChain'
  <2>1. CASE UNCHANGED <<stats, outbox, engagements>>
    BY <1>2, <2>1 DEF SnapshotsFormAChain, StatsAfter
  <2>2. ASSUME NEW c \in Calls, Commit(c), NEW v \in Videos
        PROVE  /\ \A i \in 1 .. Len(outbox'[v]) :
                      outbox'[v][i].stats = Increment(StatsAfter(v, i - 1)',
                            EngagementDelta(outbox'[v][i].kind, outbox'[v][i].action))
               /\ stats'[v] = StatsAfter(v, Len(outbox[v]))'
    <3>1. CASE v # Video(c)
      <4>1. outbox'[v] = outbox[v] /\ stats'[v] = stats[v]
        BY <1>2, <2>2, <3>1, CommitAppends DEF TypeOK
      <4> QED
        BY <1>2, <4>1 DEF SnapshotsFormAChain, StatsAfter
    <3>2. CASE v = Video(c)
      <4> DEFINE log == outbox[v]
                 n == Len(log)
      <4>1. /\ log \in Seq(Events) /\ n \in Nat
            /\ outbox'[v] = Append(log, EventOf(c)) /\ stats'[v] = EventOf(c).stats
            /\ EventOf(c) \in Events
        BY <1>2, <2>2, <3>2, CommitAppends DEF TypeOK
      <4>2. /\ Len(outbox'[v]) = n + 1
            /\ outbox'[v][n + 1] = EventOf(c)
            /\ \A i \in 1 .. n : outbox'[v][i] = log[i]
        BY <4>1
      <4>3. \A i \in 0 .. n : StatsAfter(v, i)' = StatsAfter(v, i)
        BY <4>1, <4>2 DEF StatsAfter
      <4>4. ASSUME NEW i \in 1 .. n + 1
            PROVE  outbox'[v][i].stats = Increment(StatsAfter(v, i - 1)',
                            EngagementDelta(outbox'[v][i].kind, outbox'[v][i].action))
        <5>1. CASE i = n + 1
          BY <1>2, <2>2, <3>2, <4>1, <4>2, <4>3, <5>1, CommitAppends DEF SnapshotsFormAChain
        <5>2. CASE i \in 1 .. n
          BY <1>2, <4>1, <4>2, <4>3, <5>2 DEF SnapshotsFormAChain
        <5> QED BY <4>1, <5>1, <5>2
      <4>5. StatsAfter(v, Len(outbox[v]))' = outbox'[v][n + 1].stats
        BY <4>1, <4>2 DEF StatsAfter
      <4> QED BY <4>1, <4>2, <4>3, <4>4, <4>5
    <3> QED BY <3>1, <3>2
  <2> QED
    BY <1>2, <2>1, <2>2, OtherStepsKeepStats DEF SnapshotsFormAChain
<1> QED
  BY <1>1, <1>2, TypeCorrect, AddedUnderLockCorrect, PTL DEF Spec

\* Reading a log as postings commutes with appending to it.
LEMMA PostingsAppend ==
    ASSUME NEW log \in Seq(Events), NEW e \in Events
    PROVE  Postings(Append(log, e)) = Append(Postings(log), Posting(e))
<1> DEFINE S == {Posting(x) : x \in Events}
           n == Len(log)
<1>1. n \in Nat /\ Append(log, e) \in Seq(Events) /\ Len(Append(log, e)) = n + 1
  OBVIOUS
<1>2. /\ Postings(log) \in Seq(S) /\ Len(Postings(log)) = n
      /\ \A i \in 1 .. n : Postings(log)[i] = Posting(log[i])
  <2>1. \A i \in 1 .. n : log[i] \in Events
    OBVIOUS
  <2>2. Postings(log) \in [1 .. n -> S]
    BY <2>1 DEF Postings
  <2> QED
    BY <1>1, <2>2, SeqDef DEF Postings
<1>3. /\ Postings(Append(log, e)) \in Seq(S) /\ Len(Postings(Append(log, e))) = n + 1
      /\ \A i \in 1 .. n + 1 : Postings(Append(log, e))[i] = Posting(Append(log, e)[i])
  <2>1. \A i \in 1 .. n + 1 : Append(log, e)[i] \in Events
    BY <1>1
  <2>2. Postings(Append(log, e)) \in [1 .. n + 1 -> S]
    BY <1>1, <2>1 DEF Postings
  <2> QED
    BY <1>1, <2>2, SeqDef DEF Postings
<1>4. /\ Append(Postings(log), Posting(e)) \in Seq(S)
      /\ Len(Append(Postings(log), Posting(e))) = n + 1
      /\ \A i \in 1 .. n : Append(Postings(log), Posting(e))[i] = Posting(log[i])
      /\ Append(Postings(log), Posting(e))[n + 1] = Posting(e)
  <2>1. Posting(e) \in S
    OBVIOUS
  <2> QED
    BY <1>1, <1>2, <2>1
<1>5. \A i \in 1 .. n + 1 : Postings(Append(log, e))[i] = Append(Postings(log), Posting(e))[i]
  <2> SUFFICES ASSUME NEW i \in 1 .. n + 1
               PROVE  Postings(Append(log, e))[i] = Append(Postings(log), Posting(e))[i]
    OBVIOUS
  <2>1. CASE i \in 1 .. n
    BY <1>1, <1>3, <1>4, <2>1
  <2>2. CASE i = n + 1
    BY <1>1, <1>3, <1>4, <2>2
  <2>3. i \in 1 .. n \/ i = n + 1
    BY <1>1
  <2> QED BY <2>1, <2>2, <2>3
<1> QED
  BY <1>3, <1>4, <1>5, SeqEqual

\* The four statements, their locks and their failures implement the atomic
\* postings of StatsLedger.
THEOREM EngagementImplementsLedger == Spec => ImplementsLedger
<1> DEFINE ledger == [v \in Videos |-> Postings(outbox[v])]
<1>1. Init => Ledger!Init
  <2>1. Postings(<<>>) = <<>>
    BY DEF Postings
  <2> QED
    BY <2>1 DEF Init, Ledger!Init, ZeroStats, Ledger!ZeroStats, Counters, Ledger!Counters,
                Kinds, Ledger!Kinds
<1>2. ASSUME TypeOK, AddedUnderLock, [Next]_vars PROVE [Ledger!Next]_<<stats, ledger>>
  <2>1. ASSUME NEW c \in Calls, Commit(c)
        PROVE  Ledger!Post(Video(c), EventOf(c).kind, EventOf(c).action)
    <3> DEFINE v == Video(c)
               e == EventOf(c)
    <3>1. /\ v \in Videos /\ e \in Events /\ outbox[v] \in Seq(Events)
          /\ outbox' = [outbox EXCEPT ![v] = Append(outbox[v], e)]
          /\ stats' = [stats EXCEPT ![v] = e.stats]
          /\ e.stats = Increment(stats[v], EngagementDelta(e.kind, e.action))
      BY <1>2, <2>1, CommitAppends, KeyType DEF TypeOK
    <3>2. ledger' = [ledger EXCEPT ![v] = Append(Postings(outbox[v]), Posting(e))]
      BY <1>2, <3>1, PostingsAppend DEF TypeOK
    <3> QED
      BY <3>1, <3>2 DEF Ledger!Post, Posting, Increment, Ledger!Increment, EngagementDelta,
         Ledger!EngagementDelta, ZeroStats, Ledger!ZeroStats, Counters, Ledger!Counters,
         Kinds, Ledger!Kinds
  <2>2. ASSUME NEW c \in Calls
        PROVE  /\ Video(c) \in Videos
               /\ EventOf(c).kind \in Ledger!Kinds
               /\ EventOf(c).action \in Ledger!FavoriteActions
    BY <1>2, KeyType DEF TypeOK, Inputs, EventOf, Kinds, Ledger!Kinds, FavoriteActions, Ledger!FavoriteActions
  <2> QED
    BY <1>2, <2>1, <2>2, OtherStepsKeepStats DEF Ledger!Next
<1> QED
  BY <1>1, <1>2, TypeCorrect, AddedUnderLockCorrect, PTL DEF Spec, ImplementsLedger, Ledger!Spec

-------------------------------------------------------------------------------
\* A transaction holds the statistics row only after it took it, and never
\* while it waits for its engagement row.
LEMMA LocksHeldInTurnStep ==
    ASSUME TypeOK, LocksHeldInTurn, [Next]_vars
    PROVE  LocksHeldInTurn'
<1> USE DEF LocksHeldInTurn, InTx
<1>0. /\ \A c \in Calls : c # None
      /\ \A k \in Keys : engLock[k] \in Calls \cup {None}
      /\ \A v \in Videos : statsLock[v] \in Calls \cup {None}
      /\ pc \in [Calls -> {"begin", "rejected"} \cup InTx \cup Committed]
  BY EngagementAssumption DEF TypeOK
\* A step of c that gives locks to nobody else.
<1>1. ASSUME NEW c \in Calls, \A d \in Calls : d # c => pc'[d] = pc[d],
             \A k \in Keys : engLock'[k] \in {engLock[k], None, c},
             \A v \in Videos : statsLock'[v] \in {statsLock[v], None, c},
             \A k \in Keys : engLock'[k] = c => pc'[c] \in InTx \ {"engage"},
             \A v \in Videos : statsLock'[v] = c => pc'[c] \in InTx \ {"engage", "bump"}
      PROVE  LocksHeldInTurn'
  BY <1>0, <1>1
<1>2. ASSUME NEW c \in Calls, Begin(c) PROVE LocksHeldInTurn'
  BY <1>0, <1>1, <1>2, ProgramSteps DEF Begin, Advance
<1>3. ASSUME NEW c \in Calls, UpsertEngagement(c) \/ SoftDeleteEngagement(c) PROVE LocksHeldInTurn'
  <2>1. /\ pc[c] = "engage" /\ pc'[c] = "bump"
        /\ \A d \in Calls : d # c => pc'[d] = pc[d]
        /\ statsLock' = statsLock
        /\ \A k \in Keys : engLock'[k] \in {engLock[k], c}
    BY <1>0, <1>3, ProgramSteps
    DEF UpsertEngagement, SoftDeleteEngagement, WriteEngagement, Advance, TypeOK
  <2> QED BY <1>0, <1>1, <2>1
<1>4. ASSUME NEW c \in Calls, BumpStats(c) PROVE LocksHeldInTurn'
  <2>1. /\ pc[c] = "bump" /\ pc'[c] = "fetch"
        /\ \A d \in Calls : d # c => pc'[d] = pc[d]
        /\ engLock' = engLock
        /\ \A v \in Videos : statsLock'[v] \in {statsLock[v], c}
    BY <1>0, <1>4, ProgramSteps DEF BumpStats, Advance, TypeOK
  <2> QED BY <1>0, <1>1, <2>1
<1>5. ASSUME NEW c \in Calls, FetchStats(c) \/ EnqueueEvent(c) PROVE LocksHeldInTurn'
  <2>1. /\ pc'[c] \in {"enqueue", "commit", "doomed"}
        /\ \A d \in Calls : d # c => pc'[d] = pc[d]
        /\ UNCHANGED <<engLock, statsLock>>
    BY <1>0, <1>5, ProgramSteps DEF FetchStats, EnqueueEvent, Advance
  <2> QED BY <1>0, <1>1, <2>1
<1>6. ASSUME NEW c \in Calls, Commit(c) \/ Rollback(c) PROVE LocksHeldInTurn'
  <2>1. /\ ReleaseLocks(c)
        /\ \A d \in Calls : d # c => pc'[d] = pc[d]
    BY <1>0, <1>6 DEF Commit, Rollback
  <2> QED
    BY <1>0, <1>1, <2>1 DEF ReleaseLocks
<1>7. ASSUME NEW c \in Calls, ReadLike(c) \/ ReadBookmark(c) \/ ReadStats(c) \/ ReadFails(c)
      PROVE  LocksHeldInTurn'
  <2>1. /\ pc[c] \in Responding
        /\ \A d \in Calls : d # c => pc'[d] = pc[d]
        /\ UNCHANGED <<engLock, statsLock>>
    BY <1>0, <1>7 DEF ReadLike, ReadBookmark, ReadStats, ReadFavorite, ReadFails, Responding
  <2> QED BY <1>0, <1>1, <2>1 DEF Responding
<1>8. CASE UNCHANGED vars
  BY <1>8 DEF vars
<1> QED
  BY <1>2, <1>3, <1>4, <1>5, <1>6, <1>7, <1>8 DEF Next, Proceed, Done

\* The lock order of Mutate, engagement row first and statistics row second,
\* rules out a cycle of waiting calls of any length.
THEOREM NoDeadlock == Spec => []NoLockCycle
<1>1. Init => LocksHeldInTurn
  BY DEF Init, LocksHeldInTurn
<1>2. ASSUME TypeOK, LocksHeldInTurn PROVE NoLockCycle
  <2> SUFFICES ASSUME NEW S \in SUBSET Calls, S # {}
               PROVE  \E c \in S : \A d \in S : ~WaitsFor(c, d)
    BY DEF NoLockCycle
  <2> USE DEF WaitsFor
  <2>0. /\ \A c \in S : c # None /\ Key(c) \in Keys /\ Video(c) \in Videos
        /\ S \subseteq Calls
    BY <1>2, KeyType, EngagementAssumption
  <2>1. CASE \E c \in S : pc[c] \notin {"engage", "bump"}
    BY <2>1
  <2>2. ASSUME NEW c \in S, pc[c] = "bump" PROVE \E e \in S : \A d \in S : ~WaitsFor(e, d)
    <3>1. CASE \A d \in S : ~WaitsFor(c, d)
      BY <3>1
    <3>2. ASSUME NEW d \in S, WaitsFor(c, d) PROVE pc[d] \notin {"engage", "bump"}
      BY <1>2, <2>0, <2>2, <3>2 DEF LocksHeldInTurn
    <3> QED BY <3>1, <3>2
  <2>3. ASSUME \A c \in S : pc[c] = "engage", NEW c \in S, NEW d \in S PROVE ~WaitsFor(c, d)
    BY <1>2, <2>0, <2>3 DEF LocksHeldInTurn
  <2> QED BY <2>1, <2>2, <2>3
<1> QED
  BY <1>1, <1>2, LocksHeldInTurnStep, TypeCorrect, PTL DEF Spec

-------------------------------------------------------------------------------
\* Only its own commit makes a call committed, and nothing undoes it.
LEMMA CommittedSteps ==
    ASSUME TypeOK, [Next]_vars
    PROVE  /\ input' = input
           /\ \A c \in Calls : pc[c] \in Committed => pc'[c] \in Committed
           /\ \/ /\ UNCHANGED outbox
                 /\ \A c \in Calls : pc'[c] \in Committed => pc[c] \in Committed
              \/ \E c \in Calls :
                    /\ Commit(c)
                    /\ pc[c] \notin Committed /\ pc'[c] \in Committed
                    /\ \A d \in Calls : d # c => pc'[d] = pc[d]
<1> USE DEF TypeOK, Committed, Responding
<1>1. ASSUME NEW c \in Calls, Begin(c) \/ UpsertEngagement(c) \/ SoftDeleteEngagement(c) \/ BumpStats(c)
      PROVE  UNCHANGED <<input, outbox>> /\ \A d \in Calls : pc'[d] \in Committed <=> pc[d] \in Committed
  BY <1>1, ProgramSteps DEF Begin, UpsertEngagement, SoftDeleteEngagement, BumpStats, Advance
<1>2. ASSUME NEW c \in Calls, FetchStats(c) \/ EnqueueEvent(c) \/ Rollback(c)
      PROVE  UNCHANGED <<input, outbox>> /\ \A d \in Calls : pc'[d] \in Committed <=> pc[d] \in Committed
  BY <1>2, ProgramSteps DEF FetchStats, EnqueueEvent, Rollback, Advance, InTx
<1>3. ASSUME NEW c \in Calls, ReadLike(c) \/ ReadBookmark(c) \/ ReadStats(c) \/ ReadFails(c)
      PROVE  UNCHANGED <<input, outbox>> /\ \A d \in Calls : pc'[d] \in Committed <=> pc[d] \in Committed
  BY <1>3 DEF ReadLike, ReadBookmark, ReadStats, ReadFavorite, ReadFails
<1>4. ASSUME NEW c \in Calls, Commit(c)
      PROVE  /\ input' = input /\ pc[c] \notin Committed /\ pc'[c] \in Committed
             /\ \A d \in Calls : d # c => pc'[d] = pc[d]
  BY <1>4 DEF Commit
<1>5. CASE UNCHANGED vars
  BY <1>5 DEF vars
<1> QED
  BY <1>1, <1>2, <1>3, <1>4, <1>5 DEF Next, Proceed, Done

\* Every event in a log names one of the calls.
LEMMA LogCalls ==
    ASSUME TypeOK, NEW v \in Videos, NEW i \in DOMAIN outbox[v]
    PROVE  outbox[v][i].call \in Calls
  <1>1. outbox[v] \in Seq(Events)
    BY DEF TypeOK
  <1>2. outbox[v][i] \in Events
    BY <1>1
  <1> QED
    BY <1>2 DEF Events

\* The outbox row is in the transaction of the mutation: one event for each
\* committed call, none for any other.
THEOREM EventsAtomicWithCalls == Spec => []OneEventPerCommittedCall
<1>1. Init => OneEventPerCommittedCall
  BY DEF Init, OneEventPerCommittedCall, Committed, Responding
<1>2. ASSUME TypeOK, AddedUnderLock, OneEventPerCommittedCall, [Next]_vars
      PROVE  OneEventPerCommittedCall'
  <2>1. CASE /\ UNCHANGED outbox
             /\ \A c \in Calls : pc'[c] \in Committed => pc[c] \in Committed
    <3>1. /\ input' = input /\ outbox' = outbox
          /\ \A d \in Calls : pc'[d] \in Committed <=> pc[d] \in Committed
      BY <1>2, <2>1, CommittedSteps
    <3>2. \A v \in Videos : \A i \in DOMAIN outbox[v] : outbox[v][i].call \in Calls
      BY <1>2, LogCalls
    <3> QED
      BY <1>2, <3>1, <3>2 DEF OneEventPerCommittedCall, Video
  <2>2. ASSUME NEW c \in Calls, Commit(c), pc[c] \notin Committed, pc'[c] \in Committed,
               \A d \in Calls : d # c => pc'[d] = pc[d]
        PROVE  OneEventPerCommittedCall'
    <3> DEFINE w == input[c].video
               n == Len(outbox[w])
    <3>1. /\ w \in Videos /\ n \in Nat /\ outbox[w] \in Seq(Events)
          /\ EventOf(c) \in Events
          /\ outbox' = [outbox EXCEPT ![w] = Append(outbox[w], EventOf(c))]
          /\ input' = input
      BY <1>2, <2>2, CommitAppends, CommittedSteps, KeyType DEF Video, TypeOK
    <3>2. /\ DOMAIN outbox'[w] = 1 .. n + 1 /\ DOMAIN outbox[w] = 1 .. n
          /\ outbox'[w][n + 1] = EventOf(c)
          /\ \A i \in 1 .. n : outbox'[w][i] = outbox[w][i]
          /\ \A v \in Videos : v # w => outbox'[v] = outbox[v]
      BY <1>2, <3>1 DEF TypeOK
    <3>3. \A v \in Videos : \A i \in DOMAIN outbox[v] :
             outbox[v][i].call \in Calls /\ outbox[v][i].call # c
      BY <1>2, <2>2, LogCalls DEF OneEventPerCommittedCall
    <3>4. ASSUME NEW d \in Calls, pc'[d] \in Committed
          PROVE  \E i \in DOMAIN outbox'[Video(d)'] : outbox'[Video(d)'][i].call = d
      <4>1. CASE d = c
        BY <3>1, <3>2, <4>1 DEF Video, EventOf
      <4>2. CASE d # c
        <5>1. PICK i \in DOMAIN outbox[Video(d)] : outbox[Video(d)][i].call = d
          BY <1>2, <2>2, <3>4, <4>2 DEF OneEventPerCommittedCall
        <5>2. i \in DOMAIN outbox'[Video(d)] /\ outbox'[Video(d)][i] = outbox[Video(d)][i]
          BY <1>2, <3>1, <3>2, <5>1, KeyType
        <5> QED
          BY <3>1, <5>1, <5>2 DEF Video
      <4> QED BY <4>1, <4>2
    <3>5. ASSUME NEW v \in Videos, NEW i \in DOMAIN outbox'[v]
          PROVE  /\ pc'[outbox'[v][i].call] \in Committed
                 /\ input'[outbox'[v][i].call] =
                      [user |-> outbox'[v][i].user, video |-> v,
                       kind |-> outbox'[v][i].kind, action |-> outbox'[v][i].action]
                 /\ \A j \in DOMAIN outbox'[v] : outbox'[v][i].call = outbox'[v][j].call => i = j
      <4>1. CASE v # w
        BY <1>2, <2>2, <3>1, <3>2, <3>3, <3>5, <4>1 DEF OneEventPerCommittedCall
      <4>2. CASE v = w /\ i \in 1 .. n
        <5>1. /\ outbox'[v][i] = outbox[v][i]
              /\ \A j \in 1 .. n : outbox'[v][j] = outbox[v][j]
              /\ outbox[v][i].call # c
          BY <3>2, <3>3, <4>2
        <5>2. outbox'[v][n + 1].call = c
          BY <3>2, <4>2 DEF EventOf
        <5>3. /\ pc[outbox[v][i].call] \in Committed
              /\ input[outbox[v][i].call] =
                   [user |-> outbox[v][i].user, video |-> v,
                    kind |-> outbox[v][i].kind, action |-> outbox[v][i].action]
              /\ \A j \in 1 .. n : outbox[v][i].call = outbox[v][j].call => i = j
          BY <1>2, <3>2, <4>2 DEF OneEventPerCommittedCall
        <5>4. pc'[outbox[v][i].call] = pc[outbox[v][i].call]
          BY <2>2, <3>2, <3>3, <4>2
        <5>5. \A j \in 1 .. n + 1 : j \in 1 .. n \/ j = n + 1
          BY <3>1
        <5>6. \A j \in DOMAIN outbox'[v] : outbox'[v][i].call = outbox'[v][j].call => i = j
          <6> SUFFICES ASSUME NEW j \in DOMAIN outbox'[v], outbox'[v][i].call = outbox'[v][j].call
                       PROVE  i = j
            OBVIOUS
          <6>1. j \in 1 .. n \/ j = n + 1
            BY <3>2, <4>2, <5>5
          <6> QED
            BY <5>1, <5>2, <5>3, <6>1
        <5> QED
          BY <3>1, <5>1, <5>3, <5>4, <5>6
      <4>3. CASE v = w /\ i = n + 1
        <5>1. input[c] \in Inputs
          BY <1>2 DEF TypeOK
        <5>2. \A j \in 1 .. n : outbox'[v][j].call # c
          BY <3>2, <3>3, <4>3
        <5> QED
          BY <2>2, <3>1, <3>2, <4>3, <5>1, <5>2 DEF EventOf, Inputs
      <4>4. v = w => i \in 1 .. n \/ i = n + 1
        BY <3>1, <3>2, <3>5
      <4> QED BY <4>1, <4>2, <4>3, <4>4
    <3> QED
      BY <3>4, <3>5 DEF OneEventPerCommittedCall
  <2> QED
    BY <1>2, <2>1, <2>2, CommittedSteps
<1> QED
  BY <1>1, <1>2, TypeCorrect, AddedUnderLockCorrect, PTL DEF Spec

-------------------------------------------------------------------------------
\* No row becomes absent again, so a Remove that found its row still has it.
LEMMA RowsMarkedStep ==
    ASSUME TypeOK, RowsMarked, [Next]_vars
    PROVE  RowsMarked'
<1> SUFFICES ASSUME NEW d \in Calls PROVE MarksRow(d)'
  BY DEF RowsMarked
<1>0. /\ MarksRow(d) /\ Key(d) \in Keys /\ pend[d] \in Pending
      /\ input[d].action \in FavoriteActions
  BY KeyType DEF RowsMarked, TypeOK, Inputs
<1> USE <1>0 DEF TypeOK, MarksRow, Key
\* A step after which d stands where it stood and its row is still there.
<1>1. ASSUME pc'[d] = pc[d], pend'[d] = pend[d], input' = input,
             engagements[Key(d)] # "absent" => engagements'[Key(d)] # "absent"
      PROVE  MarksRow(d)'
  BY <1>1
<1>2. ASSUME NEW c \in Calls, UpsertEngagement(c) PROVE MarksRow(d)'
  <2>1. CASE c = d
    BY <1>2, <2>1, ProgramSteps DEF UpsertEngagement, WriteEngagement, Advance, Pending
  <2> QED
    BY <1>1, <1>2, <2>1 DEF UpsertEngagement, WriteEngagement, Advance
<1>3. ASSUME NEW c \in Calls, SoftDeleteEngagement(c) PROVE MarksRow(d)'
  <2>1. CASE c = d
    <3>1. /\ pc'[d] = "bump" /\ input' = input /\ engagements' = engagements
          /\ input[d].action = "remove" /\ pend[d].row = "unwritten"
      BY <1>3, <2>1, ProgramSteps DEF SoftDeleteEngagement, Advance
    <3>2. \/ pend'[d].row = "unwritten"
          \/ pend'[d].row = "deleted" /\ engagements[Key(d)] # "absent"
      BY <1>3, <2>1, <3>1 DEF SoftDeleteEngagement, WriteEngagement, Pending
    <3> QED
      BY <3>1, <3>2
  <2> QED
    BY <1>1, <1>3, <2>1 DEF SoftDeleteEngagement, WriteEngagement, Advance
<1>4. ASSUME NEW c \in Calls, Begin(c) \/ BumpStats(c) \/ FetchStats(c) \/ EnqueueEvent(c)
      PROVE  MarksRow(d)'
  <2>1. CASE c = d
    <3>1. /\ pend'[d].row = pend[d].row /\ input' = input /\ engagements' = engagements
      BY <1>4, <2>1 DEF Begin, BumpStats, FetchStats, EnqueueEvent, Pending
    <3>2. \/ pc[d] = "begin" /\ pc'[d] = "engage"
          \/ /\ pc[d] \in {"bump", "fetch", "enqueue"}
             /\ pc'[d] \in {"fetch", "enqueue", "commit", "doomed"}
      BY <1>4, <2>1, ProgramSteps DEF Begin, BumpStats, FetchStats, EnqueueEvent, Advance
    <3> QED
      BY <3>1, <3>2
  <2> QED
    BY <1>1, <1>4, <2>1 DEF Begin, BumpStats, FetchStats, EnqueueEvent, Advance
<1>5. ASSUME NEW c \in Calls, Commit(c) PROVE MarksRow(d)'
  <2>1. CASE c = d
    BY <1>5, <2>1 DEF Commit
  <2>2. engagements[Key(d)] # "absent" => engagements'[Key(d)] # "absent"
    BY <1>5, KeyType DEF Commit, Pending
  <2> QED
    BY <1>1, <1>5, <2>1, <2>2 DEF Commit
<1>6. ASSUME NEW c \in Calls, Rollback(c) PROVE MarksRow(d)'
  <2>1. CASE c = d
    BY <1>6, <2>1 DEF Rollback
  <2> QED
    BY <1>1, <1>6, <2>1 DEF Rollback
<1>7. ASSUME NEW c \in Calls, ReadLike(c) \/ ReadBookmark(c) \/ ReadStats(c) \/ ReadFails(c)
      PROVE  MarksRow(d)'
  BY <1>7 DEF ReadLike, ReadBookmark, ReadStats, ReadFavorite, ReadFails, Responding
<1>8. CASE UNCHANGED vars
  BY <1>8 DEF vars
<1> QED
  BY <1>2, <1>3, <1>4, <1>5, <1>6, <1>7, <1>8 DEF Next, Proceed, Done

\* The event of a commit joins the events of its key and of no other.
LEMMA CommitExtendsKey ==
    ASSUME TypeOK, AddedUnderLock, NEW c \in Calls, Commit(c), NEW k \in Keys
    PROVE  /\ k[2] \in Videos /\ Len(outbox[k[2]]) \in Nat
           /\ \A i \in EventsOfKey(k) : /\ i \in 1 .. Len(outbox[k[2]])
                                        /\ outbox'[k[2]][i] = outbox[k[2]][i]
           /\ k # Key(c) => EventsOfKey(k)' = EventsOfKey(k)
           /\ k = Key(c) =>
                 /\ EventsOfKey(k)' = EventsOfKey(k) \cup {Len(outbox[k[2]]) + 1}
                 /\ outbox'[k[2]][Len(outbox[k[2]]) + 1] = EventOf(c)
<1> DEFINE v == k[2]
           n == Len(outbox[v])
<1>1. /\ v \in Videos /\ n \in Nat /\ DOMAIN outbox[v] = 1 .. n /\ outbox[v] \in Seq(Events)
      /\ EventOf(c) \in Events
      /\ outbox'[v] = IF v = Video(c) THEN Append(outbox[v], EventOf(c)) ELSE outbox[v]
  <2>1. v \in Videos
    BY DEF Keys
  <2>2. outbox[v] \in Seq(Events) /\ outbox \in [Videos -> Seq(Events)]
    BY <2>1 DEF TypeOK
  <2>3. n \in Nat /\ DOMAIN outbox[v] = 1 .. n
    BY <2>2
  <2> QED
    BY <2>1, <2>2, <2>3, CommitAppends
<1>2. \A i \in EventsOfKey(k) : i \in 1 .. n /\ outbox'[v][i] = outbox[v][i]
  BY <1>1 DEF EventsOfKey
<1>3. CASE v # Video(c)
  BY <1>1, <1>2, <1>3 DEF EventsOfKey, Key, Video
<1>4. CASE v = Video(c)
  <2>1. /\ DOMAIN outbox'[v] = 1 .. n + 1 /\ outbox'[v][n + 1] = EventOf(c)
        /\ \A i \in 1 .. n : outbox'[v][i] = outbox[v][i]
    BY <1>1, <1>4
  <2>2. n + 1 \in EventsOfKey(k)' <=> k = Key(c)
    <3>1. k = <<k[1], k[2], k[3]>>
      BY DEF Keys
    <3> QED
      BY <1>1, <1>4, <2>1, <3>1 DEF EventsOfKey, EventOf, Key, Video
  <2>3. \A i \in 1 .. n : i \in EventsOfKey(k)' <=> i \in EventsOfKey(k)
    BY <1>1, <2>1 DEF EventsOfKey
  <2>4. EventsOfKey(k) \subseteq 1 .. n /\ EventsOfKey(k)' \subseteq 1 .. n + 1
    BY <1>1, <2>1 DEF EventsOfKey
  <2>5. \A i \in 1 .. n + 1 : i \in 1 .. n \/ i = n + 1
    BY <1>1
  <2>6. n + 1 \notin EventsOfKey(k)
    BY <1>1, <2>4
  <2>7. k # Key(c) => EventsOfKey(k)' = EventsOfKey(k)
    BY <2>2, <2>3, <2>4, <2>5, <2>6
  <2>8. k = Key(c) => EventsOfKey(k)' = EventsOfKey(k) \cup {n + 1}
    BY <2>2, <2>3, <2>4, <2>5
  <2> QED
    BY <1>1, <1>2, <2>1, <2>7, <2>8
<1> QED
  BY <1>3, <1>4

\* A commit changes the row of its key as its event says, and no other.
LEMMA RowsFollowStep ==
    ASSUME TypeOK, AddedUnderLock, RowsMarked, RowsFollowEvents, [Next]_vars
    PROVE  RowsFollowEvents'
<1>1. CASE UNCHANGED <<stats, outbox, engagements>>
  BY <1>1 DEF RowsFollowEvents, EventsOfKey, IsLast
<1>2. ASSUME NEW c \in Calls, Commit(c), NEW k \in Keys
      PROVE  /\ (engagements'[k] = "absent")
                   <=> \A i \in EventsOfKey(k)' : outbox'[k[2]][i].action = "remove"
             /\ \A i \in DOMAIN outbox'[k[2]] : IsLast(k, i)' =>
                   /\ outbox'[k[2]][i].action = "add" => engagements'[k] = "active"
                   /\ engagements'[k] = "deleted" => outbox'[k[2]][i].action = "remove"
  <2> DEFINE log == outbox[k[2]]
             n == Len(log)
  <2>0. /\ n \in Nat
        /\ \A i \in EventsOfKey(k) : i \in 1 .. n /\ outbox'[k[2]][i] = log[i]
        /\ engagements[k] \in {"absent", "active", "deleted"}
    BY <1>2, CommitExtendsKey DEF TypeOK
  <2>1. /\ (engagements[k] = "absent") <=> \A i \in EventsOfKey(k) : log[i].action = "remove"
        /\ \A i \in EventsOfKey(k) : IsLast(k, i) =>
              /\ log[i].action = "add" => engagements[k] = "active"
              /\ engagements[k] = "deleted" => log[i].action = "remove"
    BY DEF RowsFollowEvents, EventsOfKey
  <2>2. CASE k # Key(c)
    <3>1. EventsOfKey(k)' = EventsOfKey(k) /\ engagements'[k] = engagements[k]
      BY <1>2, <2>2, CommitExtendsKey DEF Commit, TypeOK
    <3>2. \A i : IsLast(k, i)' => IsLast(k, i) /\ i \in EventsOfKey(k)
      BY <3>1 DEF IsLast
    <3> QED
      BY <2>0, <2>1, <3>1, <3>2
  <2>3. CASE k = Key(c)
    <3>1. /\ EventsOfKey(k)' = EventsOfKey(k) \cup {n + 1}
          /\ outbox'[k[2]][n + 1].action = input[c].action
      <4>1. /\ EventsOfKey(k)' = EventsOfKey(k) \cup {n + 1}
            /\ outbox'[k[2]][n + 1] = EventOf(c)
        BY <1>2, <2>3, CommitExtendsKey
      <4> QED
        BY <4>1 DEF EventOf
    <3>2. \A i : IsLast(k, i)' => i = n + 1
      BY <2>0, <3>1 DEF IsLast
    <3>3. \/ input[c].action = "add" /\ engagements'[k] = "active"
          \/ /\ input[c].action = "remove"
             /\ \/ engagements'[k] = engagements[k]
                \/ engagements'[k] = "deleted" /\ engagements[k] # "absent"
      <4>1. MarksRow(c) /\ pc[c] = "commit" /\ input[c].action \in FavoriteActions
        BY <1>2 DEF RowsMarked, Commit, TypeOK, Inputs
      <4>2. engagements'[k] = IF pend[c].row = "unwritten" THEN engagements[k] ELSE pend[c].row
        BY <1>2, <2>3 DEF Commit, TypeOK
      <4> QED
        BY <2>3, <4>1, <4>2 DEF MarksRow, FavoriteActions
    <3> QED
      BY <2>0, <2>1, <3>1, <3>2, <3>3
  <2> QED
    BY <2>2, <2>3
<1> QED
  BY <1>1, <1>2, OtherStepsKeepStats DEF RowsFollowEvents

\* At first there is no row and no event.
LEMMA RowsInit == Init => RowsFollowEvents /\ RowsMarked
  BY DEF Init, RowsFollowEvents, RowsMarked, MarksRow, EventsOfKey, IsLast, Keys, NoWrites

\* The rows agree with the event log: what exists, what is set and what is
\* deleted follows from the committed mutations.
THEOREM RowsFollowEventsCorrect == Spec => []RowsFollowEvents
<1>1. Init => RowsFollowEvents /\ RowsMarked
  BY RowsInit
<1>2. ASSUME TypeOK, AddedUnderLock, RowsMarked, RowsFollowEvents, [Next]_vars
      PROVE  RowsFollowEvents'
  BY <1>2, RowsFollowStep
<1> QED
  BY <1>1, <1>2, RowsMarkedStep, TypeCorrect, AddedUnderLockCorrect, PTL DEF Spec

-------------------------------------------------------------------------------
\* A log only grows, by the event of a call that commits.
LEMMA LogGrows ==
    ASSUME TypeOK, AddedUnderLock, [Next]_vars, NEW v \in Videos
    PROVE  /\ Len(outbox[v]) \in Nat /\ DOMAIN outbox[v] = 1 .. Len(outbox[v])
           /\ \/ outbox'[v] = outbox[v]
              \/ \E c \in Calls :
                    /\ Commit(c) /\ v = Video(c)
                    /\ DOMAIN outbox'[v] = 1 .. Len(outbox[v]) + 1
                    /\ Len(outbox'[v]) = Len(outbox[v]) + 1
                    /\ outbox'[v][Len(outbox[v]) + 1] = EventOf(c)
                    /\ \A i \in 1 .. Len(outbox[v]) : outbox'[v][i] = outbox[v][i]
<1>1. outbox \in [Videos -> Seq(Events)] /\ outbox[v] \in Seq(Events)
  BY DEF TypeOK
<1>2. Len(outbox[v]) \in Nat /\ DOMAIN outbox[v] = 1 .. Len(outbox[v])
  BY <1>1
<1>3. ASSUME NEW c \in Calls, Commit(c), v = Video(c)
      PROVE  /\ DOMAIN outbox'[v] = 1 .. Len(outbox[v]) + 1
             /\ Len(outbox'[v]) = Len(outbox[v]) + 1
             /\ outbox'[v][Len(outbox[v]) + 1] = EventOf(c)
             /\ \A i \in 1 .. Len(outbox[v]) : outbox'[v][i] = outbox[v][i]
  <2>1. outbox'[v] = Append(outbox[v], EventOf(c)) /\ EventOf(c) \in Events
    BY <1>1, <1>3, CommitAppends
  <2> QED
    BY <1>1, <2>1
<1>4. ASSUME NEW c \in Calls, Commit(c), v # Video(c) PROVE outbox'[v] = outbox[v]
  BY <1>1, <1>4, CommitAppends
<1> QED
  BY <1>2, <1>3, <1>4, OtherStepsKeepStats

\* The event of a committed call: one, among those of its key, and as asked.
LEMMA OwnEvent ==
    ASSUME TypeOK, OneEventPerCommittedCall, NEW c \in Calls, pc[c] \in Committed
    PROVE  /\ Own(c) \in DOMAIN outbox[Video(c)] /\ Own(c) \in EventsOfKey(Key(c))
           /\ outbox[Video(c)][Own(c)].call = c
           /\ outbox[Video(c)][Own(c)].action = input[c].action
<1>1. EventsOfCall(c) # {}
  BY DEF OneEventPerCommittedCall, EventsOfCall
<1>2. Own(c) \in EventsOfCall(c)
  BY <1>1 DEF Own
<1>3. Own(c) \in DOMAIN outbox[Video(c)] /\ outbox[Video(c)][Own(c)].call = c
  BY <1>2 DEF EventsOfCall
<1>4. Video(c) \in Videos /\ input[c] \in Inputs
  BY KeyType DEF TypeOK
<1>5. input[c] = [user |-> outbox[Video(c)][Own(c)].user, video |-> Video(c),
                  kind |-> outbox[Video(c)][Own(c)].kind, action |-> outbox[Video(c)][Own(c)].action]
  BY <1>3, <1>4 DEF OneEventPerCommittedCall
<1> QED
  BY <1>3, <1>5 DEF EventsOfKey, Key, Video

\* What a committed call has and is stays as it is.
LEMMA CommittedKept ==
    ASSUME TypeOK, AddedUnderLock, OneEventPerCommittedCall, [Next]_vars,
           NEW c \in Calls, pc[c] \in Committed
    PROVE  /\ input' = input /\ pend'[c] = pend[c] /\ pc'[c] \in Committed
           /\ EventsOfCall(c)' = EventsOfCall(c) /\ Own(c)' = Own(c)
<1>1. input' = input /\ pc'[c] \in Committed
  BY CommittedSteps
<1>2. pend'[c] = pend[c]
  BY ProgramSteps DEF Next, Proceed, Done, vars, TypeOK, Committed, Responding, InTx, Begin,
     UpsertEngagement, SoftDeleteEngagement, WriteEngagement, BumpStats, FetchStats, EnqueueEvent,
     Commit, Rollback, ReadLike, ReadBookmark, ReadFavorite, ReadStats, ReadFails
<1>3. EventsOfCall(c)' = EventsOfCall(c)
  <2> DEFINE v == Video(c)
  <2>1. v \in Videos /\ Video(c)' = v
    BY <1>1, KeyType DEF Video
  <2>2. CASE outbox'[v] = outbox[v]
    BY <2>1, <2>2 DEF EventsOfCall
  <2>3. ASSUME NEW d \in Calls, Commit(d), DOMAIN outbox'[v] = 1 .. Len(outbox[v]) + 1,
               DOMAIN outbox[v] = 1 .. Len(outbox[v]), Len(outbox[v]) \in Nat,
               outbox'[v][Len(outbox[v]) + 1] = EventOf(d),
               \A i \in 1 .. Len(outbox[v]) : outbox'[v][i] = outbox[v][i]
        PROVE  EventsOfCall(c)' = EventsOfCall(c)
    <3>1. EventOf(d).call # c
      BY <2>3 DEF EventOf, Commit, Committed, Responding
    <3>2. \A i \in 1 .. Len(outbox[v]) + 1 : i \in 1 .. Len(outbox[v]) \/ i = Len(outbox[v]) + 1
      BY <2>3
    <3>3. 1 .. Len(outbox[v]) \subseteq 1 .. Len(outbox[v]) + 1
      BY <2>3
    <3> QED
      BY <2>1, <2>3, <3>1, <3>2, <3>3 DEF EventsOfCall
  <2> QED
    BY <2>1, <2>2, <2>3, LogGrows
<1> QED
  BY <1>1, <1>2, <1>3 DEF Own

\* The statistics of the answer are those of one moment after the mutation: the
\* row is the last link of a chain in which the call has its place.
THEOREM AnswerStatsNotOlderCorrect == Spec => []AnswerStatsNotOlder
<1>1. Init => AnswerStatsNotOlder
  BY DEF Init, AnswerStatsNotOlder
<1>2. ASSUME TypeOK, AddedUnderLock, SnapshotsFormAChain, OneEventPerCommittedCall,
             AnswerStatsNotOlder, [Next]_vars
      PROVE  AnswerStatsNotOlder'
  <2> SUFFICES ASSUME NEW c \in Calls, pc'[c] = "answered"
               PROVE  \E i \in Own(c)' .. Len(outbox'[Video(c)']) :
                         reply'[c].stats = outbox'[Video(c)'][i].stats
    BY DEF AnswerStatsNotOlder
  <2> DEFINE v == Video(c)
  <2>1. \/ ReadStats(c)
        \/ pc[c] = "answered" /\ reply'[c] = reply[c]
    BY <1>2, ProgramSteps DEF Next, Proceed, Done, vars, TypeOK, Begin, Advance, InTx,
       UpsertEngagement, SoftDeleteEngagement, BumpStats, FetchStats, EnqueueEvent, Responding,
       Commit, Rollback, ReadLike, ReadBookmark, ReadFavorite, ReadStats, ReadFails
  <2>2. pc[c] \in Committed
    BY <2>1 DEF ReadStats, Committed, Responding
  <2>3. v \in Videos /\ Video(c)' = v /\ Own(c)' = Own(c)
    BY <1>2, <2>2, CommittedKept, KeyType DEF Video
  <2>4. Own(c) \in DOMAIN outbox[v] /\ DOMAIN outbox[v] = 1 .. Len(outbox[v])
        /\ Len(outbox[v]) \in Nat
    BY <1>2, <2>2, <2>3, OwnEvent, LogGrows
  <2>5. CASE ReadStats(c)
    <3>1. reply'[c].stats = stats[v] /\ outbox' = outbox
      <4>1. reply[c] \in Replies
        BY <1>2 DEF TypeOK
      <4> QED
        BY <1>2, <2>5, <4>1 DEF ReadStats, TypeOK, Replies
    <3>2. stats[v] = outbox[v][Len(outbox[v])].stats
      BY <1>2, <2>3, <2>4 DEF SnapshotsFormAChain, StatsAfter
    <3> QED
      BY <2>3, <2>4, <3>1, <3>2
  <2>6. CASE pc[c] = "answered" /\ reply'[c] = reply[c]
    <3>1. PICK i \in Own(c) .. Len(outbox[v]) : reply[c].stats = outbox[v][i].stats
      BY <1>2, <2>6 DEF AnswerStatsNotOlder
    <3>2. i \in 1 .. Len(outbox[v])
      BY <2>4, <3>1
    <3>3. outbox'[v][i] = outbox[v][i] /\ i \in Own(c) .. Len(outbox'[v])
      BY <1>2, <2>3, <2>4, <3>1, <3>2, LogGrows
    <3> QED
      BY <2>3, <2>6, <3>1, <3>3
  <2> QED
    BY <2>1, <2>5, <2>6
<1> QED
  BY <1>1, <1>2, TypeCorrect, AddedUnderLockCorrect, SnapshotsCorrect, EventsAtomicWithCalls,
     PTL DEF Spec

-------------------------------------------------------------------------------
\* The calls behind the events of a key have committed.
LEMMA KeyEventCalls ==
    ASSUME TypeOK, OneEventPerCommittedCall, NEW k \in Keys, NEW i \in EventsOfKey(k)
    PROVE  outbox[k[2]][i].call \in Calls /\ pc[outbox[k[2]][i].call] \in Committed
<1>1. k[2] \in Videos /\ i \in DOMAIN outbox[k[2]]
  BY DEF Keys, EventsOfKey
<1> QED
  BY <1>1, LogCalls DEF OneEventPerCommittedCall

\* What was undone stays undone.
LEMMA UndoneKept ==
    ASSUME TypeOK, AddedUnderLock, [Next]_vars, NEW k \in Keys, NEW i, NEW action
    PROVE  /\ EventsOfKey(k) \subseteq EventsOfKey(k)'
           /\ \A j \in EventsOfKey(k) : outbox'[k[2]][j] = outbox[k[2]][j]
           /\ Undone(k, i, action) => Undone(k, i, action)'
<1>1. CASE UNCHANGED outbox
  BY <1>1 DEF EventsOfKey, Undone
<1>2. ASSUME NEW c \in Calls, Commit(c)
      PROVE  /\ EventsOfKey(k) \subseteq EventsOfKey(k)'
             /\ \A j \in EventsOfKey(k) : outbox'[k[2]][j] = outbox[k[2]][j]
  <2>1. EventsOfKey(k)' = EventsOfKey(k)
           \/ EventsOfKey(k)' = EventsOfKey(k) \cup {Len(outbox[k[2]]) + 1}
    BY <1>2, CommitExtendsKey
  <2>2. \A j \in EventsOfKey(k) : outbox'[k[2]][j] = outbox[k[2]][j]
    BY <1>2, CommitExtendsKey
  <2> QED
    BY <2>1, <2>2
<1>3. ASSUME EventsOfKey(k) \subseteq EventsOfKey(k)',
             \A j \in EventsOfKey(k) : outbox'[k[2]][j] = outbox[k[2]][j]
      PROVE  Undone(k, i, action) => Undone(k, i, action)'
  BY <1>3 DEF Undone
<1> QED
  BY <1>1, <1>2, <1>3, OtherStepsKeepStats

\* The event of a commit undoes what the row it leaves contradicts.
LEMMA RowsUndoneStep ==
    ASSUME TypeOK, AddedUnderLock, RowsMarked, OneEventPerCommittedCall, RowsUndoneInTurn,
           [Next]_vars
    PROVE  RowsUndoneInTurn'
<1> SUFFICES ASSUME NEW k \in Keys, NEW i \in EventsOfKey(k)'
             PROVE  /\ engagements'[k] = "deleted" /\ outbox'[k[2]][i].action = "add" =>
                           Undone(k, i, "remove")'
                    /\ engagements'[k] = "active" /\ pend'[outbox'[k[2]][i].call].row = "deleted" =>
                           Undone(k, i, "add")'
  BY DEF RowsUndoneInTurn
\* An event of the key that was there before.
<1>1. ASSUME i \in EventsOfKey(k)
      PROVE  /\ outbox'[k[2]][i] = outbox[k[2]][i]
             /\ pend'[outbox[k[2]][i].call] = pend[outbox[k[2]][i].call]
             /\ engagements[k] = "deleted" /\ outbox[k[2]][i].action = "add" =>
                   Undone(k, i, "remove")'
             /\ engagements[k] = "active" /\ pend[outbox[k[2]][i].call].row = "deleted" =>
                   Undone(k, i, "add")'
  <2>1. outbox[k[2]][i].call \in Calls /\ pc[outbox[k[2]][i].call] \in Committed
    BY <1>1, KeyEventCalls
  <2>2. pend'[outbox[k[2]][i].call] = pend[outbox[k[2]][i].call]
    BY <2>1, CommittedKept
  <2>3. /\ engagements[k] = "deleted" /\ outbox[k[2]][i].action = "add" => Undone(k, i, "remove")
        /\ engagements[k] = "active" /\ pend[outbox[k[2]][i].call].row = "deleted" =>
              Undone(k, i, "add")
    BY <1>1 DEF RowsUndoneInTurn
  <2>4. Undone(k, i, "remove") => Undone(k, i, "remove")'
    BY UndoneKept
  <2>5. Undone(k, i, "add") => Undone(k, i, "add")'
    BY UndoneKept
  <2>6. outbox'[k[2]][i] = outbox[k[2]][i]
    BY <1>1, UndoneKept
  <2> QED
    BY <2>2, <2>3, <2>4, <2>5, <2>6
<1>2. CASE UNCHANGED <<stats, outbox, engagements>>
  <2>1. i \in EventsOfKey(k)
    BY <1>2 DEF EventsOfKey
  <2> QED
    BY <1>1, <1>2, <2>1
<1>3. ASSUME NEW c \in Calls, Commit(c), k # Key(c)
      PROVE  i \in EventsOfKey(k) /\ engagements'[k] = engagements[k]
  BY <1>3, CommitExtendsKey DEF Commit, TypeOK
<1>4. ASSUME NEW c \in Calls, Commit(c), k = Key(c)
      PROVE  /\ engagements'[k] = "deleted" /\ outbox'[k[2]][i].action = "add" =>
                    Undone(k, i, "remove")'
             /\ engagements'[k] = "active" /\ pend'[outbox'[k[2]][i].call].row = "deleted" =>
                    Undone(k, i, "add")'
  <2> DEFINE n == Len(outbox[k[2]])
  <2>1. /\ n \in Nat /\ EventsOfKey(k)' = EventsOfKey(k) \cup {n + 1}
        /\ \A j \in EventsOfKey(k) : j \in 1 .. n
        /\ outbox'[k[2]][n + 1] = EventOf(c)
    BY <1>4, CommitExtendsKey
  <2>2. outbox'[k[2]][n + 1].action = input[c].action /\ outbox'[k[2]][n + 1].call = c
    BY <2>1 DEF EventOf
  <2>3. \/ input[c].action = "add" /\ engagements'[k] = "active" /\ pend[c].row = "active"
        \/ /\ input[c].action = "remove"
           /\ \/ engagements'[k] = engagements[k] /\ pend[c].row = "unwritten"
              \/ engagements'[k] = "deleted" /\ pend[c].row = "deleted"
    <3>1. MarksRow(c) /\ pc[c] = "commit" /\ input[c].action \in FavoriteActions
      BY <1>4 DEF RowsMarked, Commit, TypeOK, Inputs
    <3>2. engagements'[k] = IF pend[c].row = "unwritten" THEN engagements[k] ELSE pend[c].row
      BY <1>4 DEF Commit, TypeOK
    <3> QED
      BY <1>4, <3>1, <3>2 DEF MarksRow, FavoriteActions
  <2>4. pend' = pend
    BY <1>4 DEF Commit
  <2>5. CASE i = n + 1
    BY <2>2, <2>3, <2>4, <2>5
  <2>6. CASE i \in EventsOfKey(k)
    <3>1. \E j \in EventsOfKey(k)' : j > i /\ outbox'[k[2]][j].action = input[c].action
      <4> HIDE DEF n
      <4>1. n + 1 \in EventsOfKey(k)' /\ i \in 1 .. n
        BY <2>1, <2>6
      <4>2. n + 1 > i
        BY <2>1, <4>1
      <4> QED
        BY <2>2, <4>1, <4>2
    <3>2. /\ input[c].action = "add" => Undone(k, i, "add")'
          /\ input[c].action = "remove" => Undone(k, i, "remove")'
      BY <3>1 DEF Undone
    <3> QED
      BY <1>1, <2>3, <2>4, <2>6, <3>2
  <2> QED
    BY <2>1, <2>5, <2>6
<1> QED
  BY <1>1, <1>2, <1>3, <1>4, OtherStepsKeepStats DEF Commit

\* What a call reads of its own row, and what it has read, fit the log.
LEMMA ReadsReflectStep ==
    ASSUME TypeOK, AddedUnderLock, OneEventPerCommittedCall, RowsFollowEvents,
           RowsUndoneInTurn, ReadsReflect, [Next]_vars
    PROVE  ReadsReflect'
<1> SUFFICES ASSUME NEW c \in Calls, HasReadIts(c)' PROVE Reflects(c)'
  BY DEF ReadsReflect
<1>0. /\ input[c].kind \in Kinds /\ input[c] \in Inputs /\ Key(c) \in Keys
      /\ Key(c)[2] = Video(c) /\ reply[c] \in Replies
      /\ Key(c) = <<input[c].user, input[c].video, input[c].kind>>
  BY KeyType DEF TypeOK, Inputs, Key, Video
<1>1. \/ HasReadIts(c) /\ reply'[c].favorite = reply[c].favorite
      \/ /\ HasReadIts(c) /\ input[c].kind = "like"
         /\ reply'[c].favorite["like"] = reply[c].favorite["like"]
      \/ /\ pc[c] \in Committed /\ UNCHANGED <<outbox, engagements, pend, input>>
         /\ reply'[c].favorite[input[c].kind] = IsSet(c, input[c].kind)
  <2>1. input' = input
    BY CommittedSteps
  <2>2. \/ ReadLike(c) \/ ReadBookmark(c) \/ ReadStats(c)
        \/ pc'[c] = pc[c] /\ reply'[c] = reply[c]
        \/ pc'[c] \notin {"readBookmark", "readStats", "answered"}
    BY ProgramSteps DEF Next, Proceed, Done, vars, TypeOK, Begin, Advance, InTx,
       UpsertEngagement, SoftDeleteEngagement, BumpStats, FetchStats, EnqueueEvent, Responding,
       Commit, Rollback, ReadLike, ReadBookmark, ReadFavorite, ReadStats, ReadFails
  <2>3. pc'[c] \in {"readBookmark", "readStats", "answered"}
    BY DEF HasReadIts
  <2>4. CASE ReadLike(c)
    <3>1. /\ pc[c] = "readLike" /\ pc'[c] = "readBookmark"
          /\ reply'[c].favorite["like"] = IsSet(c, "like")
          /\ UNCHANGED <<outbox, engagements, pend, input>>
      BY <1>0, <2>4 DEF ReadLike, ReadFavorite, TypeOK, Replies, Kinds
    <3>2. input[c].kind = "like"
      BY <2>1, <3>1 DEF HasReadIts
    <3> QED
      BY <3>1, <3>2 DEF Committed, Responding
  <2>5. CASE ReadBookmark(c)
    <3>1. /\ pc[c] = "readBookmark"
          /\ reply'[c].favorite["bookmark"] = IsSet(c, "bookmark")
          /\ reply'[c].favorite["like"] = reply[c].favorite["like"]
          /\ UNCHANGED <<outbox, engagements, pend, input>>
      BY <1>0, <2>5 DEF ReadBookmark, ReadFavorite, TypeOK, Replies, Kinds
    <3> QED
      BY <1>0, <3>1 DEF Kinds, HasReadIts, Committed, Responding
  <2>6. CASE ReadStats(c)
    <3>1. pc[c] = "readStats" /\ reply'[c].favorite = reply[c].favorite
      BY <1>0, <2>6 DEF ReadStats, TypeOK, Replies
    <3> QED
      BY <3>1 DEF HasReadIts
  <2>7. CASE pc'[c] = pc[c] /\ reply'[c] = reply[c]
    BY <2>1, <2>7 DEF HasReadIts
  <2> QED
    BY <2>2, <2>3, <2>4, <2>5, <2>6, <2>7
<1>2. pc[c] \in Committed
  BY <1>1 DEF HasReadIts, Committed, Responding
<1>3. /\ input' = input /\ pend'[c] = pend[c] /\ Own(c)' = Own(c)
      /\ Key(c)' = Key(c) /\ Video(c)' = Video(c)
  BY <1>2, CommittedKept DEF Key, Video
<1>4. ASSUME NEW action, Undone(Key(c), Own(c), action)' \/ LaterEvent(c, action)
      PROVE  LaterEvent(c, action)'
  <2>1. LaterEvent(c, action) <=> Undone(Key(c), Own(c), action)
    BY <1>0 DEF LaterEvent, Undone
  <2>2. LaterEvent(c, action)' <=> Undone(Key(c), Own(c), action)'
    BY <1>0, <1>3 DEF LaterEvent, Undone, EventsOfKey
  <2>3. Undone(Key(c), Own(c), action) => Undone(Key(c), Own(c), action)'
    BY <1>0, <1>3, UndoneKept DEF Undone, EventsOfKey
  <2> QED
    BY <1>4, <2>1, <2>2, <2>3
\* What was read before stays so, for nothing of the log is lost.
<1>5. ASSUME HasReadIts(c), reply'[c].favorite[input[c].kind] = reply[c].favorite[input[c].kind]
      PROVE  Reflects(c)'
  <2>1. Reflects(c)
    BY <1>5 DEF ReadsReflect
  <2>2. /\ LaterEvent(c, "remove") => LaterEvent(c, "remove")'
        /\ LaterEvent(c, "add") => LaterEvent(c, "add")'
    BY <1>4
  <2> QED
    BY <1>3, <1>5, <2>1, <2>2 DEF Reflects
\* What is read now is the row, and the row fits the log.
<1>6. ASSUME UNCHANGED <<outbox, engagements, pend, input>>,
             reply'[c].favorite[input[c].kind] = IsSet(c, input[c].kind)
      PROVE  Reflects(c)'
  <2> DEFINE k == Key(c)
             e == outbox[Video(c)][Own(c)]
  <2>1. /\ Own(c) \in EventsOfKey(k) /\ e.call = c
        /\ e.action = input[c].action
    BY <1>2, OwnEvent
  <2>3. /\ engagements[k] = "deleted" /\ e.action = "add" => Undone(k, Own(c), "remove")
        /\ engagements[k] = "active" /\ pend[c].row = "deleted" => Undone(k, Own(c), "add")
    BY <1>0, <2>1 DEF RowsUndoneInTurn
  <2>4. e.action = "add" => engagements[k] # "absent"
    BY <1>0, <2>1 DEF RowsFollowEvents
  <2>5. IsSet(c, input[c].kind) = (engagements[k] = "active")
    BY <1>0 DEF IsSet
  <2>6. engagements[k] \in {"absent", "active", "deleted"}
    BY <1>0 DEF TypeOK
  <2>7. /\ Undone(k, Own(c), "remove") => LaterEvent(c, "remove")'
        /\ Undone(k, Own(c), "add") => LaterEvent(c, "add")'
    BY <1>0, <1>4 DEF Undone, LaterEvent
  <2> QED
    BY <1>3, <1>6, <2>1, <2>3, <2>4, <2>5, <2>6, <2>7 DEF Reflects
<1> QED
  BY <1>0, <1>1, <1>5, <1>6

\* Read your writes, although the answer is read after the transaction: a call
\* that asked for a favorite is told it is set, and one that removed a row is
\* told it is not, unless an opposite mutation of the key committed later.
THEOREM AnswerReflectsCorrect == Spec => []AnswerReflectsMutation
<1>1. Init => RowsMarked /\ RowsUndoneInTurn /\ ReadsReflect
  BY DEF Init, RowsMarked, MarksRow, RowsUndoneInTurn, EventsOfKey, Keys, NoWrites,
         ReadsReflect, HasReadIts
<1>2. ReadsReflect => AnswerReflectsMutation
  BY DEF ReadsReflect, HasReadIts, AnswerReflectsMutation
<1> QED
  BY <1>1, <1>2, RowsMarkedStep, RowsUndoneStep, ReadsReflectStep, RowsFollowEventsCorrect,
     EventsAtomicWithCalls, AddedUnderLockCorrect, TypeCorrect, PTL DEF Spec
===============================================================================
