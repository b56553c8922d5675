-------------------------- MODULE WatchHistoryProofs --------------------------
(***************************************************************************)
(* What holds of WatchHistory for every set of calls, viewers, videos and  *)
(* reported values.                                                        *)
(***************************************************************************)
EXTENDS WatchHistory, FiniteSetTheorems, SequenceTheorems, WellFoundedInduction, TLAPS

\* The sums of the statistics are rows of integers.
LEMMA IncrementType ==
    ASSUME NEW row \in StatsRows, NEW delta \in StatsRows
    PROVE  Increment(row, delta) \in StatsRows
  BY DEF StatsRows, Increment

\* A row of zeros is a row of integers.
LEMMA ZeroType == ZeroStats \in StatsRows
  BY DEF ZeroStats, StatsRows

\* The rows a call works on are rows of the tables.
LEMMA KeyType ==
    ASSUME TypeOK, NEW c \in Calls
    PROVE  /\ Key(c) \in Keys /\ Video(c) \in Videos /\ Key(c) = <<input[c].user, Video(c)>>
           /\ input[c].user \in Users /\ input[c].ratio \in Ratios
           /\ input[c].total \in Int
  BY WatchAssumption DEF TypeOK, Inputs, Key, Keys, Video

\* New seconds are never negative.
LEMMA SecondsType ==
    ASSUME NEW old \in Rows \cup {None}, NEW total \in Int
    PROVE  SecondsDelta(old, total) \in Nat
  BY DEF SecondsDelta, Rows

\* The upsert writes a row, with no fewer seconds than it finds.
LEMMA WrittenType ==
    ASSUME TypeOK, NEW c \in Calls
    PROVE  /\ Written(c) \in Rows
           /\ logs[Key(c)] # None => Written(c).total >= logs[Key(c)].total
<1>1. /\ logs[Key(c)] \in Rows \cup {None}
      /\ SecondsDelta(existing[c], input[c].total) \in Nat
      /\ input[c].ratio \in Ratios /\ input[c].total \in Int
  BY KeyType, SecondsType DEF TypeOK
<1> QED
  BY <1>1 DEF Written, Rows

\* What a call adds to the statistics is a row of integers.
LEMMA DeltaType ==
    ASSUME TypeOK, NEW c \in Calls
    PROVE  WatchDelta(c) \in StatsRows
<1>1. SecondsDelta(existing[c], input[c].total) \in Int
  <2>1. existing[c] \in Rows \cup {None}
    BY DEF TypeOK
  <2>2. SecondsDelta(existing[c], input[c].total) \in Nat
    BY <2>1, KeyType, SecondsType
  <2> QED
    BY <2>2
<1>2. WatcherDelta(existing[c], pend[c].row) \in Int
  BY DEF WatcherDelta
<1> QED
  BY <1>1, <1>2 DEF WatchDelta, StatsRows, ZeroStats, Counters

-------------------------------------------------------------------------------
\* Every variable keeps its type: no interleaving leaves a call without the row
\* it is to write.
LEMMA TypeStep == TypeOK /\ WrittenUnderLock /\ [Next]_vars => TypeOK'
<1> SUFFICES ASSUME TypeOK, WrittenUnderLock, [Next]_vars PROVE TypeOK'
  OBVIOUS
<1> USE DEF TypeOK, InTx, Committed, Ended, Advance
<1>1. ASSUME NEW c \in Calls, Load(c) PROVE TypeOK'
  BY <1>1, KeyType DEF Load
<1>2. ASSUME NEW c \in Calls, Upsert(c) PROVE TypeOK'
  <2>1. [pend[c] EXCEPT !.row = Written(c)] \in Pending
    BY WrittenType DEF Pending
  <2>2. pend' \in [Calls -> Pending]
    BY <1>2, <2>1 DEF Upsert
  <2> QED
    BY <1>2, <2>2, KeyType DEF Upsert
<1>3. ASSUME NEW c \in Calls, BumpStats(c) PROVE TypeOK'
  <2>1. Increment(stats[Video(c)], WatchDelta(c)) \in StatsRows
    BY KeyType, DeltaType, IncrementType
  <2>2. [pend[c] EXCEPT !.stats = Increment(stats[Video(c)], WatchDelta(c))] \in Pending
    BY <2>1 DEF Pending
  <2>3. pend' \in [Calls -> Pending]
    BY <1>3, <2>2 DEF BumpStats
  <2>4. statsLock' \in [Videos -> Calls \cup {None}]
    BY <1>3, KeyType DEF BumpStats
  <2>5. pc' \in [Calls -> InTx \cup Committed \cup Ended]
    BY <1>3 DEF BumpStats
  <2> QED
    BY <1>3, <2>3, <2>4, <2>5 DEF BumpStats
<1>4. ASSUME NEW c \in Calls, EnqueueEvent(c) PROVE TypeOK'
  <2>1. pend[c].row \in Rows
    BY <1>4, WrittenType DEF EnqueueEvent, WrittenUnderLock, WritesUnderLock
  <2>2. EventOf(c) \in Events
    BY <2>1, KeyType DEF EventOf, Events
  <2>3. [pend[c] EXCEPT !.event = EventOf(c)] \in Pending
    BY <2>2 DEF Pending
  <2>4. pend' \in [Calls -> Pending]
    BY <1>4, <2>3 DEF EnqueueEvent
  <2> QED
    BY <1>4, <2>4 DEF EnqueueEvent
<1>5. ASSUME NEW c \in Calls, Commit(c) PROVE TypeOK'
  <2>1. pend[c] \in Pending
    OBVIOUS
  <2>2. logs' \in [Keys -> Rows \cup {None}] /\ stats' \in [Videos -> StatsRows]
    BY <1>5, <2>1, KeyType DEF Commit, Pending
  <2>3. outbox' \in [Videos -> Seq(Events)]
    BY <1>5, <2>1, KeyType DEF Commit, Pending
  <2>4. overtaken' \subseteq Videos /\ counted' \subseteq Videos
    BY <1>5, KeyType DEF Commit
  <2>5. below' \in [Keys -> Nat]
    <3>1. pend[c].row \in Rows
      BY <1>5, WrittenType DEF Commit, WrittenUnderLock, WritesUnderLock
    <3>2. pend[c].row.total < 0 => -pend[c].row.total \in Nat
      BY <3>1 DEF Rows
    <3> QED
      BY <1>5, <3>2 DEF Commit
  <2> QED
    BY <1>5, <2>2, <2>3, <2>4, <2>5 DEF Commit, ReleaseLocks
<1>6. ASSUME NEW c \in Calls, Rollback(c) PROVE TypeOK'
  BY <1>6 DEF Rollback, ReleaseLocks, Pending, NoWrites
<1>7. ASSUME NEW c \in Calls, ReadStats(c) PROVE TypeOK'
  BY <1>7, KeyType DEF ReadStats
<1>8. ASSUME NEW c \in Calls, ReadFails(c) PROVE TypeOK'
  BY <1>8 DEF ReadFails
<1>9. CASE UNCHANGED vars
  BY <1>9 DEF vars
<1> QED
  BY <1>1, <1>2, <1>3, <1>4, <1>5, <1>6, <1>7, <1>8, <1>9 DEF Next, Proceed, Done

\* A call that is not between its upsert and its commit promises nothing; the
\* steps of the others leave what it holds alone.
LEMMA WrittenStep == TypeOK /\ WrittenUnderLock /\ [Next]_vars => WrittenUnderLock'
<1> SUFFICES ASSUME TypeOK, WrittenUnderLock, [Next]_vars, NEW d \in Calls
             PROVE  WritesUnderLock(d)'
  BY DEF WrittenUnderLock
<1>0. WritesUnderLock(d) /\ Key(d) \in Keys
  BY KeyType DEF WrittenUnderLock
<1>1. ASSUME pc'[d] = pc[d], pend'[d] = pend[d], input' = input, existing'[d] = existing[d],
             logLock[Key(d)] = d => logLock'[Key(d)] = d /\ logs'[Key(d)] = logs[Key(d)]
      PROVE  WritesUnderLock(d)'
  BY <1>0, <1>1 DEF WritesUnderLock, Written, Key, EventOf, Qualified
<1>2. ASSUME NEW c \in Calls, c # d, Proceed(c) \/ Rollback(c) \/ ReadFails(c)
      PROVE  WritesUnderLock(d)'
  <2>1. /\ pc'[d] = pc[d] /\ pend'[d] = pend[d] /\ input' = input /\ existing'[d] = existing[d]
    BY <1>2 DEF Proceed, Load, Upsert, BumpStats, EnqueueEvent, Commit, ReadStats, Rollback,
                ReadFails, Advance, TypeOK
  <2>2. ASSUME logLock[Key(d)] = d PROVE logLock'[Key(d)] = d /\ logs'[Key(d)] = logs[Key(d)]
    <3>1. CASE Upsert(c)
      <4>1. Key(c) # Key(d)
        BY <2>2, <3>1, WatchAssumption DEF Upsert
      <4> QED
        BY <1>0, <2>2, <3>1, <4>1 DEF Upsert, TypeOK
    <3>2. CASE Commit(c)
      <4>1. Key(c) # Key(d)
        BY <1>2, <2>2, <3>2 DEF Commit, WrittenUnderLock, WritesUnderLock
      <4> QED
        BY <1>0, <1>2, <2>2, <3>2, <4>1 DEF Commit, ReleaseLocks, TypeOK
    <3>3. CASE Rollback(c)
      BY <1>0, <1>2, <2>2, <3>3 DEF Rollback, ReleaseLocks, TypeOK
    <3> QED
      BY <1>2, <2>2, <3>1, <3>2, <3>3
      DEF Proceed, Load, BumpStats, EnqueueEvent, ReadStats, ReadFails
  <2> QED
    BY <1>1, <2>1, <2>2
<1>3. ASSUME Proceed(d) \/ Rollback(d) \/ ReadFails(d) PROVE WritesUnderLock(d)'
  <2>0. pend[d] \in Pending /\ pc[d] \in InTx \cup Committed \cup Ended
    BY DEF TypeOK
  <2>1. CASE Load(d)
    BY <1>0, <2>1 DEF Load, Advance, TypeOK, WritesUnderLock, NoWrites
  <2>2. CASE Upsert(d)
    <3>1. /\ pc'[d] = "bump" /\ logLock'[Key(d)] = d /\ pend'[d].row = Written(d)
          /\ pend'[d].event = pend[d].event
      BY <1>0, <2>0, <2>2 DEF Upsert, Advance, TypeOK, Pending
    <3>2. pend[d].event = None
      BY <1>0, <2>2 DEF Upsert, WritesUnderLock, NoWrites
    <3> QED
      BY <2>2, <3>1, <3>2 DEF Upsert, WritesUnderLock, Written, Key
  <2>3. CASE BumpStats(d)
    <3>1. /\ pc'[d] = "enqueue" /\ pend'[d].row = pend[d].row /\ pend'[d].event = pend[d].event
          /\ UNCHANGED <<input, logs, logLock, existing>>
      BY <2>0, <2>3 DEF BumpStats, Advance, TypeOK, Pending
    <3> QED
      BY <1>0, <2>3, <3>1 DEF BumpStats, WritesUnderLock, Written, Key
  <2>4. CASE EnqueueEvent(d)
    <3>1. /\ pc'[d] = "commit" /\ pend'[d].row = pend[d].row
          /\ UNCHANGED <<input, logs, logLock, existing>>
      BY <2>0, <2>4 DEF EnqueueEvent, Advance, TypeOK, Pending
    <3>2. pend'[d].event # None => pend'[d].event = EventOf(d) /\ Qualified(pend[d].row)
      BY <1>0, <2>0, <2>4 DEF EnqueueEvent, TypeOK, Pending, WritesUnderLock, MayEmit
    <3> QED
      BY <1>0, <2>4, <3>1, <3>2 DEF EnqueueEvent, WritesUnderLock, Written, Key, EventOf, Qualified
  <2>5. CASE Commit(d) \/ ReadStats(d) \/ Rollback(d) \/ ReadFails(d)
    BY <2>5 DEF Commit, ReadStats, Rollback, ReadFails, Advance, TypeOK, WritesUnderLock
  <2> QED
    BY <1>3, <2>1, <2>2, <2>3, <2>4, <2>5 DEF Proceed
<1>4. CASE UNCHANGED vars
  BY <1>1, <1>4 DEF vars
<1> QED
  BY <1>2, <1>3, <1>4 DEF Next, Done

\* So it is with the statistics: a commit that changes a row holds its lock.
LEMMA AddedStep ==
    TypeOK /\ WrittenUnderLock /\ AddedUnderLock /\ [Next]_vars => AddedUnderLock'
<1> SUFFICES ASSUME TypeOK, WrittenUnderLock, AddedUnderLock, [Next]_vars, NEW d \in Calls
             PROVE  AddsUnderLock(d)'
  BY DEF AddedUnderLock
<1>0. AddsUnderLock(d) /\ WritesUnderLock(d) /\ Video(d) \in Videos
  BY KeyType DEF AddedUnderLock, WrittenUnderLock
<1>1. ASSUME pc'[d] = pc[d], pend'[d] = pend[d], input' = input, existing'[d] = existing[d],
             statsLock[Video(d)] = d =>
                statsLock'[Video(d)] = d /\ stats'[Video(d)] = stats[Video(d)]
      PROVE  AddsUnderLock(d)'
  BY <1>0, <1>1 DEF AddsUnderLock, WatchDelta, Video
<1>2. ASSUME NEW c \in Calls, c # d, Proceed(c) \/ Rollback(c) \/ ReadFails(c)
      PROVE  AddsUnderLock(d)'
  <2>1. /\ pc'[d] = pc[d] /\ pend'[d] = pend[d] /\ input' = input /\ existing'[d] = existing[d]
    BY <1>2 DEF Proceed, Load, Upsert, BumpStats, EnqueueEvent, Commit, ReadStats, Rollback,
                ReadFails, Advance, TypeOK
  <2>2. ASSUME statsLock[Video(d)] = d
        PROVE  statsLock'[Video(d)] = d /\ stats'[Video(d)] = stats[Video(d)]
    <3>1. CASE BumpStats(c)
      BY <1>0, <2>2, <3>1, WatchAssumption, KeyType DEF BumpStats, TypeOK
    <3>2. CASE Commit(c)
      <4>1. pend[c].stats = None \/ Video(c) # Video(d)
        BY <1>2, <2>2, <3>2 DEF Commit, AddedUnderLock, AddsUnderLock
      <4> QED
        BY <1>0, <1>2, <2>2, <3>2, <4>1, KeyType DEF Commit, ReleaseLocks, TypeOK
    <3>3. CASE Rollback(c)
      BY <1>0, <1>2, <2>2, <3>3 DEF Rollback, ReleaseLocks, TypeOK
    <3> QED
      BY <1>2, <2>2, <3>1, <3>2, <3>3
      DEF Proceed, Load, Upsert, EnqueueEvent, ReadStats, ReadFails
  <2> QED
    BY <1>1, <2>1, <2>2
<1>3. ASSUME Proceed(d) \/ Rollback(d) \/ ReadFails(d) PROVE AddsUnderLock(d)'
  <2>0. pend[d] \in Pending /\ pc[d] \in InTx \cup Committed \cup Ended
    BY DEF TypeOK
  <2>1. CASE Load(d)
    BY <2>1 DEF Load, Advance, TypeOK, AddsUnderLock
  <2>2. CASE Upsert(d)
    <3>1. pc'[d] = "bump" /\ pend'[d].stats = pend[d].stats
      BY <2>0, <2>2 DEF Upsert, Advance, TypeOK, Pending
    <3> QED
      BY <1>0, <2>2, <3>1 DEF Upsert, WritesUnderLock, NoWrites, AddsUnderLock
  <2>3. CASE BumpStats(d)
    <3>1. /\ pc'[d] = "enqueue" /\ pend'[d].row = pend[d].row
          /\ UNCHANGED <<input, stats, existing>>
      BY <2>0, <2>3 DEF BumpStats, Advance, TypeOK, Pending
    <3>2. WatchDelta(d)' = WatchDelta(d) /\ Video(d)' = Video(d)
      BY <3>1 DEF WatchDelta, Video
    <3>3. IF WatchDelta(d) = ZeroStats THEN pend'[d].stats = None
          ELSE /\ statsLock'[Video(d)] = d
               /\ pend'[d].stats = Increment(stats[Video(d)], WatchDelta(d))
      BY <1>0, <2>0, <2>3 DEF BumpStats, AddsUnderLock, TypeOK, Pending
    <3> QED
      BY <3>1, <3>2, <3>3 DEF AddsUnderLock
  <2>4. CASE EnqueueEvent(d)
    <3>1. /\ pc'[d] = "commit" /\ pend'[d].row = pend[d].row /\ pend'[d].stats = pend[d].stats
          /\ UNCHANGED <<input, stats, statsLock, existing>>
      BY <2>0, <2>4 DEF EnqueueEvent, Advance, TypeOK, Pending
    <3>2. WatchDelta(d)' = WatchDelta(d) /\ Video(d)' = Video(d)
      BY <3>1 DEF WatchDelta, Video
    <3> QED
      BY <1>0, <2>4, <3>1, <3>2 DEF EnqueueEvent, AddsUnderLock
  <2>5. CASE Commit(d) \/ ReadStats(d) \/ Rollback(d) \/ ReadFails(d)
    BY <2>5 DEF Commit, ReadStats, Rollback, ReadFails, Advance, TypeOK, AddsUnderLock
  <2> QED
    BY <1>3, <2>1, <2>2, <2>3, <2>4, <2>5 DEF Proceed
<1>4. CASE UNCHANGED vars
  BY <1>1, <1>4 DEF vars
<1> QED
  BY <1>2, <1>3, <1>4 DEF Next, Done

\* The strengthening that the properties follow from.
LockInv == TypeOK /\ WrittenUnderLock /\ AddedUnderLock

\* The initial states satisfy it.
LEMMA LockInvInit == Init => LockInv
<1> SUFFICES ASSUME Init PROVE LockInv
  OBVIOUS
<1>1. NoWrites \in Pending
  BY DEF NoWrites, Pending
<1>2. TypeOK
  BY <1>1, ZeroType DEF Init, TypeOK, InTx
<1>3. WrittenUnderLock /\ AddedUnderLock
  BY DEF Init, WrittenUnderLock, WritesUnderLock, AddedUnderLock, AddsUnderLock
<1> QED
  BY <1>2, <1>3 DEF LockInv

\* Every transaction writes what it made of rows it holds.
LEMMA LockInvCorrect == Spec => []LockInv
<1>1. LockInv /\ [Next]_vars => LockInv'
  BY TypeStep, WrittenStep, AddedStep DEF LockInv
<1> QED
  BY LockInvInit, <1>1, PTL DEF Spec

\* Every row, event, lock and answer of the model is one of its kind.
THEOREM TypeCorrect == Spec => []TypeOK
<1>1. LockInv => TypeOK
  BY DEF LockInv
<1> QED
  BY LockInvCorrect, <1>1, PTL

-------------------------------------------------------------------------------
\* What a commit does to the log rows.
LEMMA CommitWrites ==
    ASSUME LockInv, NEW c \in Calls, Commit(c)
    PROVE  /\ logs' = [logs EXCEPT ![Key(c)] = pend[c].row]
           /\ Key(c) \in Keys /\ pend[c].row \in Rows /\ pend[c].row # None
           /\ logs[Key(c)] # None => pend[c].row.total >= logs[Key(c)].total
<1>1. pend[c].row = Written(c)
  BY DEF LockInv, WrittenUnderLock, WritesUnderLock, Commit
<1> QED
  BY <1>1, WrittenType, KeyType, WatchAssumption DEF LockInv, Commit

\* The rows change only when a call commits.
LEMMA OnlyCommits ==
    ASSUME [Next]_vars
    PROVE  (\E c \in Calls : Commit(c)) \/ UNCHANGED <<logs, stats, counted, below, outbox, overtaken>>
  BY DEF Next, Proceed, Done, vars, Load, Upsert, BumpStats, EnqueueEvent, ReadStats,
         Rollback, ReadFails

\* No second that was counted is taken away: no report, however old the row it
\* loaded, lowers the total of a row or removes one.
THEOREM TotalsOnlyGrowCorrect == Spec => TotalsOnlyGrow
<1>1. ASSUME LockInv, [Next]_vars
      PROVE  [\A k \in Keys : logs[k] # None =>
                 logs'[k] # None /\ logs'[k].total >= logs[k].total]_vars
  <2>0. logs \in [Keys -> Rows \cup {None}]
    BY <1>1 DEF LockInv, TypeOK
  <2>1. ASSUME NEW c \in Calls, Commit(c), NEW k \in Keys, logs[k] # None
        PROVE  logs'[k] # None /\ logs'[k].total >= logs[k].total
    <3>1. CASE k = Key(c)
      BY <1>1, <2>0, <2>1, <3>1, CommitWrites
    <3>2. CASE k # Key(c)
      <4>1. logs'[k] = logs[k] /\ logs[k].total \in Int
        BY <1>1, <2>0, <2>1, <3>2, CommitWrites DEF Rows
      <4> QED
        BY <2>1, <4>1
    <3> QED
      BY <3>1, <3>2
  <2>2. ASSUME UNCHANGED logs, NEW k \in Keys, logs[k] # None
        PROVE  logs'[k] # None /\ logs'[k].total >= logs[k].total
    BY <2>0, <2>2 DEF Rows
  <2> QED
    BY <1>1, <2>1, <2>2, OnlyCommits
<1> QED
  BY LockInvCorrect, <1>1, PTL DEF Spec, TotalsOnlyGrow

-------------------------------------------------------------------------------
\* What a commit does to the events of a video: it leaves them, or appends the
\* event of the call, which tells the row the call writes.
LEMMA CommitTells ==
    ASSUME LockInv, NEW c \in Calls, Commit(c), NEW v \in Videos
    PROVE  \/ outbox'[v] = outbox[v]
           \/ /\ v = Video(c) /\ Qualified(pend[c].row) /\ EventOf(c) \in Events
              /\ outbox'[v] = Append(outbox[v], EventOf(c))
<1>1. pend[c].event # None => pend[c].event = EventOf(c) /\ Qualified(pend[c].row)
  BY DEF LockInv, WrittenUnderLock, WritesUnderLock, Commit
<1>2. EventOf(c) \in Events
  BY CommitWrites, KeyType DEF LockInv, EventOf, Events
<1> QED
  BY <1>1, <1>2 DEF Commit, LockInv, TypeOK

\* A row stays, once it is there, with at least the seconds it has.
LEMMA RowsKept ==
    ASSUME LockInv, [Next]_vars, NEW k \in Keys, logs[k] # None
    PROVE  logs'[k] # None /\ logs'[k].total \in Int /\ logs[k].total \in Int
           /\ logs'[k].total >= logs[k].total
<1>0. logs \in [Keys -> Rows \cup {None}] /\ logs[k].total \in Int
  BY DEF LockInv, TypeOK, Rows
<1>1. ASSUME NEW c \in Calls, Commit(c)
      PROVE  logs'[k] # None /\ logs'[k].total \in Int /\ logs'[k].total >= logs[k].total
  <2>1. CASE k = Key(c)
    BY <1>0, <1>1, <2>1, CommitWrites DEF Rows
  <2>2. CASE k # Key(c)
    <3>1. logs'[k] = logs[k]
      BY <1>0, <1>1, <2>2, CommitWrites
    <3> QED
      BY <1>0, <3>1
  <2> QED
    BY <2>1, <2>2
<1>2. CASE UNCHANGED logs
  BY <1>0, <1>2
<1> QED
  BY <1>0, <1>1, <1>2, OnlyCommits

\* The events of a viewer tell his progress in order.
THEOREM EventsInOrderCorrect == Spec => []EventsInOrder
<1>1. Init => EventsInOrder
  BY DEF Init, EventsInOrder
<1>2. ASSUME LockInv, EventsInOrder, [Next]_vars PROVE EventsInOrder'
  <2>0. /\ logs \in [Keys -> Rows \cup {None}] /\ outbox \in [Videos -> Seq(Events)]
        /\ pc \in [Calls -> InTx \cup Committed \cup Ended]
    BY <1>2 DEF LockInv, TypeOK
  <2>1. ASSUME NEW c \in Calls, pc[c] \in Committed PROVE pc'[c] \in Committed
    BY <1>2, <2>0, <2>1 DEF Next, Proceed, Done, vars, Load, Upsert, BumpStats, EnqueueEvent,
       Commit, ReadStats, Rollback, ReadFails, Advance, InTx, Committed
  <2>2. ASSUME UNCHANGED <<logs, outbox>> PROVE EventsInOrder'
    <3>1. ASSUME NEW v \in Videos, NEW i \in DOMAIN outbox[v]
          PROVE  outbox[v][i].call \in Calls
      <4>1. outbox[v][i] \in Events
        BY <2>0, <3>1
      <4> QED
        BY <4>1 DEF Events
    <3> QED
      BY <1>2, <2>1, <2>2, <3>1 DEF EventsInOrder, TotalOf
  <2>3. ASSUME NEW c \in Calls, Commit(c) PROVE EventsInOrder'
    <3>1. SUFFICES ASSUME NEW v \in Videos, NEW i \in DOMAIN outbox'[v]
          PROVE  /\ pc'[outbox'[v][i].call] \in Committed /\ Qualified(outbox'[v][i].row)
                 /\ logs'[<<outbox'[v][i].user, v>>] # None
                 /\ outbox'[v][i].row.total <= logs'[<<outbox'[v][i].user, v>>].total
                 /\ \A j \in i + 1 .. Len(outbox'[v]) :
                       /\ outbox'[v][j].call # outbox'[v][i].call
                       /\ outbox'[v][j].user = outbox'[v][i].user =>
                             outbox'[v][i].row.total <= outbox'[v][j].row.total
      BY DEF EventsInOrder
    <3>2. pc'[c] \in Committed /\ pc[c] \notin Committed
      BY <2>0, <2>3 DEF Commit, Advance, Committed
    <3>3. ASSUME NEW k \in Keys, logs[k] # None
          PROVE  /\ logs'[k] # None /\ logs[k].total <= logs'[k].total
                 /\ logs[k].total \in Int /\ logs'[k].total \in Int
      BY <1>2, <3>3, RowsKept
    <3>4. /\ logs'[Key(c)] = pend[c].row /\ pend[c].row # None
          /\ logs[Key(c)] # None => pend[c].row.total >= logs[Key(c)].total
          /\ Key(c) = <<input[c].user, Video(c)>>
      BY <1>2, <2>0, <2>3, CommitWrites, KeyType DEF LockInv
    <3>5. ASSUME i \in DOMAIN outbox[v]
          PROVE  /\ outbox[v][i] \in Events /\ pc[outbox[v][i].call] \in Committed
                 /\ pc'[outbox[v][i].call] \in Committed /\ Qualified(outbox[v][i].row)
                 /\ logs'[<<outbox[v][i].user, v>>] # None
                 /\ outbox[v][i].row.total <= logs'[<<outbox[v][i].user, v>>].total
                 /\ \A j \in i + 1 .. Len(outbox[v]) :
                       /\ outbox[v][j].call # outbox[v][i].call
                       /\ outbox[v][j].user = outbox[v][i].user =>
                             outbox[v][i].row.total <= outbox[v][j].row.total
      <4>1. outbox[v][i] \in Events
        BY <2>0, <3>5
      <4>2. <<outbox[v][i].user, v>> \in Keys /\ outbox[v][i].call \in Calls
            /\ outbox[v][i].row.total \in Int
        BY <4>1 DEF Events, Keys, Rows
      <4>3. /\ pc[outbox[v][i].call] \in Committed /\ Qualified(outbox[v][i].row)
            /\ logs[<<outbox[v][i].user, v>>] # None
            /\ outbox[v][i].row.total <= logs[<<outbox[v][i].user, v>>].total
            /\ \A j \in i + 1 .. Len(outbox[v]) :
                       /\ outbox[v][j].call # outbox[v][i].call
                       /\ outbox[v][j].user = outbox[v][i].user =>
                             outbox[v][i].row.total <= outbox[v][j].row.total
        BY <1>2, <3>5 DEF EventsInOrder
      <4>4. /\ logs'[<<outbox[v][i].user, v>>] # None
            /\ outbox[v][i].row.total <= logs'[<<outbox[v][i].user, v>>].total
        BY <3>3, <4>2, <4>3
      <4> QED
        BY <2>1, <4>1, <4>2, <4>3, <4>4
    <3>6. CASE outbox'[v] = outbox[v]
      BY <3>1, <3>5, <3>6
    <3>7. CASE /\ v = Video(c) /\ Qualified(pend[c].row) /\ EventOf(c) \in Events
               /\ outbox'[v] = Append(outbox[v], EventOf(c))
      <4>0. /\ outbox[v] \in Seq(Events) /\ Len(outbox[v]) \in Nat
            /\ DOMAIN outbox[v] = 1 .. Len(outbox[v])
        BY <2>0
      <4>1. /\ Len(outbox'[v]) = Len(outbox[v]) + 1
            /\ DOMAIN outbox'[v] = 1 .. Len(outbox[v]) + 1
            /\ outbox'[v][Len(outbox[v]) + 1] = EventOf(c)
            /\ \A j \in 1 .. Len(outbox[v]) : outbox'[v][j] = outbox[v][j]
        BY <3>7, <4>0
      <4>2. CASE i = Len(outbox[v]) + 1
        <5>1. /\ EventOf(c).call = c /\ EventOf(c).row = pend[c].row
              /\ EventOf(c).user = input[c].user
          BY DEF EventOf
        <5>2. pend[c].row.total \in Int
          BY <1>2, <2>3, CommitWrites DEF Rows
        <5> QED
          BY <3>2, <3>4, <3>7, <4>0, <4>1, <4>2, <5>1, <5>2
      <4>3. CASE i # Len(outbox[v]) + 1
        <5>1. i \in DOMAIN outbox[v] /\ outbox'[v][i] = outbox[v][i]
          BY <3>1, <4>0, <4>1, <4>3
        <5>2. outbox[v][i].call # c
          BY <3>2, <3>5, <5>1
        <5>3. outbox[v][i].user = input[c].user => outbox[v][i].row.total <= pend[c].row.total
          BY <3>4, <3>5, <3>7, <5>1
        <5>4. ASSUME NEW j \in i + 1 .. Len(outbox'[v])
              PROVE  /\ outbox'[v][j].call # outbox'[v][i].call
                     /\ outbox'[v][j].user = outbox'[v][i].user =>
                           outbox'[v][i].row.total <= outbox'[v][j].row.total
          <6>1. CASE j = Len(outbox[v]) + 1
            BY <4>1, <5>1, <5>2, <5>3, <6>1 DEF EventOf
          <6>2. CASE j # Len(outbox[v]) + 1
            <7>1. j \in i + 1 .. Len(outbox[v]) /\ j \in 1 .. Len(outbox[v])
              BY <4>0, <4>1, <5>1, <6>2
            <7> QED
              BY <3>5, <4>1, <5>1, <7>1
          <6> QED
            BY <6>1, <6>2
        <5> QED
          BY <3>5, <5>1, <5>4
      <4> QED
        BY <4>2, <4>3
    <3> QED
      BY <1>2, <2>3, <3>6, <3>7, CommitTells
  <2> QED
    BY <1>2, <2>2, <2>3, OnlyCommits
<1> QED
  BY LockInvCorrect, <1>1, <1>2, PTL DEF Spec

-------------------------------------------------------------------------------
\* The users whose progress on a video qualifies.
WatchersOf(v) == {u \in Users : Qualified(logs[<<u, v>>])}

\* One row more or less in a set of watchers, and what it does to their number.
LEMMA WatchersChange ==
    ASSUME NEW S, NEW u, IsFiniteSet(S), NEW T, T \ {u} = S \ {u}
    PROVE  Cardinality(T) = Cardinality(S) + (IF u \in T /\ u \notin S THEN 1
                                              ELSE IF u \in S /\ u \notin T THEN -1 ELSE 0)
<1>1. Cardinality(S) \in Nat
  BY FS_CardinalityType
<1>2. CASE u \in T /\ u \notin S
  <2>1. T = S \cup {u}
    BY <1>2
  <2> QED
    BY <1>1, <1>2, <2>1, FS_AddElement
<1>3. CASE u \in S /\ u \notin T
  <2>1. T = S \ {u}
    BY <1>3
  <2> QED
    BY <1>1, <1>3, <2>1, FS_RemoveElement
<1>4. CASE u \in S <=> u \in T
  <2>1. T = S
    BY <1>4
  <2> QED
    BY <1>1, <1>4, <2>1
<1> QED
  BY <1>2, <1>3, <1>4

\* A commit adds to each counter of its video what the call adds, and leaves the
\* other videos alone.
LEMMA CommitAdds ==
    ASSUME LockInv, NEW c \in Calls, Commit(c), NEW v \in Videos, NEW n \in Counters
    PROVE  /\ stats[v][n] \in Int /\ WatchDelta(c)[n] \in Int
           /\ stats'[v][n] = stats[v][n] + (IF v = Video(c) THEN WatchDelta(c)[n] ELSE 0)
<1>0. /\ stats \in [Videos -> StatsRows] /\ stats[v][n] \in Int /\ Video(c) \in Videos
      /\ WatchDelta(c)[n] \in Int
  <2>1. stats \in [Videos -> StatsRows] /\ Video(c) \in Videos /\ WatchDelta(c) \in StatsRows
    BY KeyType, DeltaType DEF LockInv, TypeOK
  <2> QED
    BY <2>1 DEF StatsRows
<1>1. IF WatchDelta(c) = ZeroStats THEN pend[c].stats = None
      ELSE pend[c].stats = Increment(stats[Video(c)], WatchDelta(c))
  BY DEF LockInv, AddedUnderLock, AddsUnderLock, Commit
<1>2. CASE v # Video(c)
  BY <1>0, <1>2 DEF Commit
<1>3. CASE v = Video(c) /\ WatchDelta(c) = ZeroStats
  <2>1. stats'[v] = stats[v] /\ WatchDelta(c)[n] = 0
    BY <1>0, <1>1, <1>3 DEF Commit, ZeroStats
  <2> QED
    BY <1>0, <1>3, <2>1
<1>4. CASE v = Video(c) /\ WatchDelta(c) # ZeroStats
  <2>1. Increment(stats[Video(c)], WatchDelta(c)) \in StatsRows
    BY <1>0, DeltaType, IncrementType DEF LockInv
  <2>2. Increment(stats[Video(c)], WatchDelta(c)) # None
    BY <2>1, WatchAssumption
  <2>3. stats'[v] = Increment(stats[v], WatchDelta(c))
    BY <1>0, <1>1, <1>4, <2>2 DEF Commit
  <2> QED
    BY <1>0, <1>4, <2>3 DEF Increment
<1> QED
  BY <1>0, <1>2, <1>3, <1>4

\* What a call adds to the watchers and to the seconds.
LEMMA WatchDeltaParts ==
    ASSUME NEW c \in Calls
    PROVE  /\ WatchDelta(c)["watchers"] = WatcherDelta(existing[c], pend[c].row)
           /\ WatchDelta(c)["seconds"] = SecondsDelta(existing[c], input[c].total)
           /\ "watchers" \in Counters /\ "seconds" \in Counters
  BY DEF WatchDelta, ZeroStats, Counters

\* A commit over the row its call had loaded counts its viewer as the row does.
LEMMA WatchersStep ==
    ASSUME LockInv, WatchersExactUnlessOvertaken, [Next]_vars
    PROVE  WatchersExactUnlessOvertaken'
<1>1. ASSUME UNCHANGED <<logs, stats, overtaken>> PROVE WatchersExactUnlessOvertaken'
  BY <1>1 DEF WatchersExactUnlessOvertaken, Watchers
<1>2. ASSUME NEW c \in Calls, Commit(c) PROVE WatchersExactUnlessOvertaken'
  <2> SUFFICES ASSUME NEW v \in Videos, v \notin overtaken'
               PROVE  stats'[v]["watchers"] = Cardinality(WatchersOf(v)')
    BY DEF WatchersExactUnlessOvertaken, Watchers, WatchersOf
  <2>1. /\ logs' = [logs EXCEPT ![Key(c)] = pend[c].row]
        /\ logs \in [Keys -> Rows \cup {None}] /\ Key(c) \in Keys
        /\ Key(c) = <<input[c].user, Video(c)>> /\ input[c].user \in Users
    BY <1>2, CommitWrites, KeyType DEF LockInv, TypeOK
  <2>2. v \notin overtaken /\ (v = Video(c) => existing[c] = logs[Key(c)])
    BY <1>2 DEF Commit
  <2>3. stats[v]["watchers"] = Cardinality(WatchersOf(v))
    BY <2>2 DEF WatchersExactUnlessOvertaken, Watchers, WatchersOf
  <2>4. \A u \in Users : <<u, v>> # Key(c) => logs'[<<u, v>>] = logs[<<u, v>>]
    BY <2>1 DEF Keys
  <2>5. CASE v # Video(c)
    <3>1. WatchersOf(v)' = WatchersOf(v)
      BY <2>1, <2>4, <2>5 DEF WatchersOf, Qualified
    <3>2. stats'[v]["watchers"] = stats[v]["watchers"]
      BY <1>2, <2>5 DEF Commit, LockInv, TypeOK
    <3> QED
      BY <2>3, <3>1, <3>2
  <2>6. CASE v = Video(c)
    <3> DEFINE u == input[c].user
    <3>1. IsFiniteSet(WatchersOf(v))
      BY WatchAssumption, FS_Subset DEF WatchersOf
    <3>2. WatchersOf(v)' \ {u} = WatchersOf(v) \ {u}
      BY <2>1, <2>4, <2>6 DEF WatchersOf, Qualified
    <3>3. /\ u \in WatchersOf(v) <=> Qualified(existing[c])
          /\ u \in WatchersOf(v)' <=> Qualified(pend[c].row)
      BY <2>1, <2>2, <2>6 DEF WatchersOf, Qualified
    <3>4. stats'[v]["watchers"] = stats[v]["watchers"] + WatcherDelta(existing[c], pend[c].row)
      BY <1>2, <2>6, CommitAdds, WatchDeltaParts
    <3>5. Cardinality(WatchersOf(v)') = Cardinality(WatchersOf(v)) +
            (IF u \in WatchersOf(v)' /\ u \notin WatchersOf(v) THEN 1
             ELSE IF u \in WatchersOf(v) /\ u \notin WatchersOf(v)' THEN -1 ELSE 0)
      BY <3>1, <3>2, WatchersChange
    <3>6. WatcherDelta(existing[c], pend[c].row) =
            (IF u \in WatchersOf(v)' /\ u \notin WatchersOf(v) THEN 1
             ELSE IF u \in WatchersOf(v) /\ u \notin WatchersOf(v)' THEN -1 ELSE 0)
      BY <3>3 DEF WatcherDelta
    <3> QED
      BY <2>3, <3>4, <3>5, <3>6
  <2> QED
    BY <2>5, <2>6
<1> QED
  BY <1>1, <1>2, OnlyCommits

\* At first there is no watcher.
LEMMA WatchersInit == Init => WatchersExactUnlessOvertaken
<1> SUFFICES ASSUME Init, NEW v \in Videos PROVE stats[v]["watchers"] = Watchers(v)
  BY DEF WatchersExactUnlessOvertaken
<1>1. {u \in Users : Qualified(logs[<<u, v>>])} = {}
  BY DEF Init, Keys, Qualified
<1> QED
  BY <1>1, FS_EmptySet DEF Init, ZeroStats, Counters, Watchers

\* unique_watchers is the number of users whose progress qualifies, as long as
\* every report was committed over the row it had loaded.
THEOREM WatchersExactCorrect == Spec => []WatchersExactUnlessOvertaken
<1>1. Init => WatchersExactUnlessOvertaken
  BY WatchersInit
<1>2. ASSUME LockInv, WatchersExactUnlessOvertaken, [Next]_vars
      PROVE  WatchersExactUnlessOvertaken'
  BY <1>2, WatchersStep
<1> QED
  BY LockInvCorrect, <1>1, <1>2, PTL DEF Spec

-------------------------------------------------------------------------------
\* Some set of a family of subsets of a finite set contains no other: proofs go
\* by the smallest set for which a claim about sums would fail.
LEMMA SmallestSubset ==
    ASSUME NEW S, IsFiniteSet(S), NEW F \in SUBSET SUBSET S, F # {}
    PROVE  \E T \in F : \A U \in F : U \subseteq T => U = T
<1>1. IsWellFoundedOn(StrictSubsetOrdering(S), SUBSET S)
  BY FS_StrictSubsetOrderingWellFounded, FS_FiniteSubsetsOfFinite, Zenon
<1>2. \E T \in F : \A U \in F : ~ (<<U, T>> \in StrictSubsetOrdering(S))
  BY <1>1, WFMin, Zenon
<1> QED
  BY <1>2 DEF StrictSubsetOrdering

\* The function that MapThenSumSet chooses: what it gives a set is what it gives
\* the set without one member, and that member's value.
Some(s) == CHOOSE x \in s : TRUE
Adding(f, g, s) == IF s = {} THEN 0 ELSE f[Some(s)] + g[s \ {Some(s)}]
Sums(f, S, g) == g = [s \in SUBSET S |-> Adding(f, g, s)]

\* The member taken out is one of the set.
LEMMA SomeMember == ASSUME NEW s, s # {} PROVE Some(s) \in s
  BY DEF Some

\* Two such functions, for different sets, agree on the sets both are given.
LEMMA SumsUnique ==
    ASSUME NEW f, NEW S, NEW T, NEW g, NEW h, IsFiniteSet(S), Sums(f, S, g), Sums(f, T, h),
           NEW s \in SUBSET S, s \subseteq T
    PROVE  g[s] = h[s]
<1> DEFINE Bad == {t \in SUBSET S : t \subseteq T /\ g[t] # h[t]}
<1>1. SUFFICES ASSUME Bad # {} PROVE FALSE
  OBVIOUS
<1>2. PICK t \in Bad : \A u \in Bad : u \subseteq t => u = t
  <2>1. Bad \in SUBSET SUBSET S
    OBVIOUS
  <2> HIDE DEF Bad
  <2> QED
    BY <1>1, <2>1, SmallestSubset
<1>3. g[t] = Adding(f, g, t) /\ h[t] = Adding(f, h, t)
  BY DEF Sums
<1>4. t # {}
  BY <1>2, <1>3 DEF Adding
<1>5. g[t \ {Some(t)}] = h[t \ {Some(t)}]
  BY <1>2, <1>4, SomeMember
<1> QED
  BY <1>2, <1>3, <1>4, <1>5 DEF Adding

\* There is such a function.
LEMMA SumsExist ==
    ASSUME NEW f, NEW S, IsFiniteSet(S)
    PROVE  \E g : Sums(f, S, g)
<1> DEFINE Bad == {t \in SUBSET S : ~ \E g : Sums(f, t, g)}
<1>1. SUFFICES ASSUME Bad # {} PROVE FALSE
  OBVIOUS
<1>2. PICK t \in Bad : \A u \in Bad : u \subseteq t => u = t
  <2>1. Bad \in SUBSET SUBSET S
    OBVIOUS
  <2> HIDE DEF Bad
  <2> QED
    BY <1>1, <2>1, SmallestSubset
<1> DEFINE G(u) == CHOOSE g : Sums(f, u, g)
           low == [u \in SUBSET t |-> G(u)[u]]
           high == [u \in SUBSET t |-> Adding(f, low, u)]
<1>3. ASSUME NEW u \in SUBSET t, u # t PROVE Sums(f, u, G(u)) /\ IsFiniteSet(u)
  <2>1. \E g : Sums(f, u, g)
    BY <1>2, <1>3
  <2> QED
    BY <1>2, <2>1, FS_Subset
<1>4. ASSUME NEW u \in SUBSET t, u # t PROVE high[u] = low[u]
  <2> HIDE DEF G
  <2>1. Sums(f, u, G(u)) /\ IsFiniteSet(u)
    BY <1>3, <1>4
  <2>2. G(u)[u] = Adding(f, G(u), u)
    BY <2>1 DEF Sums
  <2>3. CASE u = {}
    BY <2>2, <2>3 DEF Adding
  <2>4. CASE u # {}
    <3> DEFINE w == u \ {Some(u)}
    <3>1. w \in SUBSET u /\ w # u /\ w \in SUBSET t /\ w # t
      BY <2>4, SomeMember
    <3>2. Sums(f, w, G(w))
      BY <1>3, <3>1
    <3>3. G(u)[w] = G(w)[w]
      BY <2>1, <3>1, <3>2, SumsUnique
    <3> QED
      BY <2>2, <2>4, <3>1, <3>3 DEF Adding
  <2> QED
    BY <2>3, <2>4
<1>5. ASSUME NEW u \in SUBSET t PROVE Adding(f, high, u) = Adding(f, low, u)
  <2> HIDE DEF low, high
  <2>1. CASE u = {}
    BY <2>1 DEF Adding
  <2>2. CASE u # {}
    <3>1. u \ {Some(u)} \in SUBSET t /\ u \ {Some(u)} # t
      BY <2>2, SomeMember
    <3>2. high[u \ {Some(u)}] = low[u \ {Some(u)}]
      BY <1>4, <3>1
    <3> QED
      BY <2>2, <3>2 DEF Adding
  <2> QED
    BY <2>1, <2>2
<1>6. Sums(f, t, high)
  BY <1>5 DEF Sums
<1> QED
  BY <1>2, <1>6

\* A sum, by its recursion.
LEMMA SumOfStep ==
    ASSUME NEW f, NEW S, IsFiniteSet(S)
    PROVE  SumOf(f, S) = IF S = {} THEN 0 ELSE f[Some(S)] + SumOf(f, S \ {Some(S)})
<1> DEFINE G(u) == CHOOSE g : Sums(f, u, g)
<1>1. ASSUME NEW u PROVE SumOf(f, u) = G(u)[u]
  BY DEF SumOf, MapThenSumSet, MapThenFoldSet, Sums, Adding, Some
<1>2. ASSUME NEW u \in SUBSET S PROVE Sums(f, u, G(u)) /\ IsFiniteSet(u)
  <2>1. IsFiniteSet(u)
    BY FS_Subset
  <2> QED
    BY <2>1, SumsExist
<1> HIDE DEF G
<1>3. G(S)[S] = Adding(f, G(S), S)
  BY <1>2 DEF Sums
<1>4. CASE S # {}
  <2> DEFINE w == S \ {Some(S)}
  <2>1. w \in SUBSET S
    OBVIOUS
  <2>2. G(S)[w] = G(w)[w]
    BY <1>2, <2>1, SumsUnique
  <2> QED
    BY <1>1, <1>3, <1>4, <2>2 DEF Adding
<1> QED
  BY <1>1, <1>3, <1>4 DEF Adding

\* One value more or less changes the sum by the difference.
LEMMA SumOfChange ==
    ASSUME NEW S, IsFiniteSet(S), NEW f, NEW h, NEW x, \A y \in S : f[y] \in Int,
           \A y \in S : h[y] \in Int, \A y \in S : y # x => h[y] = f[y]
    PROVE  /\ SumOf(f, S) \in Int
           /\ SumOf(h, S) = SumOf(f, S) + (IF x \in S THEN h[x] - f[x] ELSE 0)
<1> DEFINE Good(t) == /\ SumOf(f, t) \in Int
                      /\ SumOf(h, t) = SumOf(f, t) + (IF x \in t THEN h[x] - f[x] ELSE 0)
           Bad == {t \in SUBSET S : ~Good(t)}
<1>1. SUFFICES ASSUME Bad # {} PROVE FALSE
  OBVIOUS
<1>2. PICK t \in Bad : \A u \in Bad : u \subseteq t => u = t
  <2>1. Bad \in SUBSET SUBSET S
    OBVIOUS
  <2> HIDE DEF Bad
  <2> QED
    BY <1>1, <2>1, SmallestSubset
<1>3. IsFiniteSet(t)
  BY <1>2, FS_Subset
<1> DEFINE p == Some(t)
           w == t \ {p}
<1>4. CASE t = {}
  <2>1. SumOf(f, t) = 0 /\ SumOf(h, t) = 0
    BY <1>3, <1>4, SumOfStep
  <2> QED
    BY <1>2, <1>4, <2>1
<1>5. CASE t # {}
  <2>1. SumOf(f, t) = f[p] + SumOf(f, w) /\ SumOf(h, t) = h[p] + SumOf(h, w)
    BY <1>3, <1>5, SumOfStep
  <2>2. p \in t /\ p \notin w /\ w \in SUBSET S /\ w # t /\ w \subseteq t
        /\ \A y \in t : y # p => y \in w
    BY <1>2, <1>5, SomeMember
  <2>3. Good(w)
    BY <1>2, <2>2
  <2>4. f[p] \in Int /\ h[p] \in Int /\ (x \in t => f[x] \in Int /\ h[x] \in Int)
    BY <1>2, <2>2
  <2> HIDE DEF p, w
  <2>5. CASE p = x
    BY <1>2, <2>1, <2>2, <2>3, <2>4, <2>5
  <2>6. CASE p # x
    <3>1. (x \in t <=> x \in w) /\ h[p] = f[p]
      BY <1>2, <2>2, <2>6
    <3> QED
      BY <1>2, <2>1, <2>2, <2>3, <2>4, <2>6, <3>1
  <2> QED
    BY <2>5, <2>6
<1> QED
  BY <1>4, <1>5

\* No natural number is more than a sum that it is part of.
LEMMA SumOfBound ==
    ASSUME NEW S, IsFiniteSet(S), NEW f, \A y \in S : f[y] \in Nat
    PROVE  SumOf(f, S) \in Nat /\ \A x \in S : f[x] <= SumOf(f, S)
<1> DEFINE Good(t) == SumOf(f, t) \in Nat /\ \A x \in t : f[x] <= SumOf(f, t)
           Bad == {t \in SUBSET S : ~Good(t)}
<1>1. SUFFICES ASSUME Bad # {} PROVE FALSE
  OBVIOUS
<1>2. PICK t \in Bad : \A u \in Bad : u \subseteq t => u = t
  <2>1. Bad \in SUBSET SUBSET S
    OBVIOUS
  <2> HIDE DEF Bad
  <2> QED
    BY <1>1, <2>1, SmallestSubset
<1>3. IsFiniteSet(t)
  BY <1>2, FS_Subset
<1> DEFINE p == Some(t)
           w == t \ {p}
<1>4. CASE t = {}
  <2>1. SumOf(f, t) = 0
    BY <1>3, <1>4, SumOfStep
  <2> QED
    BY <1>2, <1>4, <2>1
<1>5. CASE t # {}
  <2>1. SumOf(f, t) = f[p] + SumOf(f, w)
    BY <1>3, <1>5, SumOfStep
  <2>2. p \in t /\ w \in SUBSET S /\ w # t /\ w \subseteq t /\ \A y \in t : y = p \/ y \in w
    BY <1>2, <1>5, SomeMember
  <2>3. Good(w)
    BY <1>2, <2>2
  <2>4. \A y \in t : f[y] \in Nat
    BY <1>2
  <2> HIDE DEF p, w
  <2>5. Good(t)
    BY <2>1, <2>2, <2>3, <2>4
  <2> QED
    BY <1>2, <2>5
<1> QED
  BY <1>4, <1>5

\* A sum of zeros.
LEMMA SumOfZero ==
    ASSUME NEW S, IsFiniteSet(S), NEW f, \A y \in S : f[y] = 0
    PROVE  SumOf(f, S) = 0
<1> DEFINE Bad == {t \in SUBSET S : SumOf(f, t) # 0}
<1>1. SUFFICES ASSUME Bad # {} PROVE FALSE
  OBVIOUS
<1>2. PICK t \in Bad : \A u \in Bad : u \subseteq t => u = t
  <2>1. Bad \in SUBSET SUBSET S
    OBVIOUS
  <2> HIDE DEF Bad
  <2> QED
    BY <1>1, <2>1, SmallestSubset
<1>3. IsFiniteSet(t)
  BY <1>2, FS_Subset
<1>4. SumOf(f, t) = IF t = {} THEN 0 ELSE f[Some(t)] + SumOf(f, t \ {Some(t)})
  BY <1>3, SumOfStep
<1>5. t # {} => f[Some(t)] = 0 /\ SumOf(f, t \ {Some(t)}) = 0
  BY <1>2, SomeMember
<1> QED
  BY <1>2, <1>4, <1>5

-------------------------------------------------------------------------------
\* A row that a call has loaded or written is there to stay.
LEMMA RowsStayStep == LockInv /\ RowsStay /\ [Next]_vars => RowsStay'
<1> SUFFICES ASSUME LockInv, RowsStay, [Next]_vars, NEW d \in Calls PROVE RowStays(d)'
  BY DEF RowsStay
<1>0. /\ RowStays(d) /\ Key(d) \in Keys /\ logs[Key(d)] \in Rows \cup {None}
      /\ pend[d] \in Pending /\ TypeOK
  BY KeyType DEF RowsStay, LockInv, TypeOK
<1>1. UNCHANGED input /\ Key(d)' = Key(d)
  <2>1. UNCHANGED input
    BY DEF Next, Proceed, Done, vars, Load, Upsert, BumpStats, EnqueueEvent, Commit, ReadStats,
           Rollback, ReadFails
  <2> QED
    BY <2>1 DEF Key
<1>2. logs[Key(d)] # None => /\ logs'[Key(d)] # None /\ logs'[Key(d)].total \in Int
                             /\ logs[Key(d)].total \in Int
                             /\ logs'[Key(d)].total >= logs[Key(d)].total
  BY <1>0, RowsKept
<1>3. CASE pc'[d] = pc[d] /\ existing'[d] = existing[d] /\ pend'[d] = pend[d]
  <2>1. pend[d].row # None => pend[d].row.total \in Int
    BY <1>0 DEF Pending, Rows
  <2> QED
    BY <1>0, <1>1, <1>2, <1>3, <2>1 DEF RowStays
<1>4. CASE Load(d)
  BY <1>0, <1>1, <1>4 DEF Load, Advance, TypeOK, RowStays, Committed
<1>5. CASE Upsert(d) \/ BumpStats(d) \/ EnqueueEvent(d) \/ Rollback(d)
  BY <1>0, <1>1, <1>2, <1>5 DEF Upsert, BumpStats, EnqueueEvent, Rollback, Advance, TypeOK,
                                RowStays, Committed
<1>6. CASE Commit(d)
  <2>1. logs'[Key(d)] = pend[d].row /\ pend[d].row \in Rows /\ pend[d].row # None
    BY <1>0, <1>6, CommitWrites DEF TypeOK
  <2> QED
    BY <1>1, <1>6, <2>1 DEF Commit, RowStays, Rows
<1>7. CASE ReadStats(d) \/ ReadFails(d)
  BY <1>0, <1>1, <1>7 DEF ReadStats, ReadFails, Advance, TypeOK, RowStays, Committed
<1>8. ASSUME NEW c \in Calls, c # d, Proceed(c) \/ Rollback(c) \/ ReadFails(c)
      PROVE  pc'[d] = pc[d] /\ existing'[d] = existing[d] /\ pend'[d] = pend[d]
  BY <1>0, <1>8 DEF Proceed, Load, Upsert, BumpStats, EnqueueEvent, Commit, ReadStats, Rollback,
                    ReadFails, Advance, TypeOK
<1>9. CASE UNCHANGED vars
  BY <1>3, <1>9 DEF vars
<1> QED
  BY <1>3, <1>4, <1>5, <1>6, <1>7, <1>8, <1>9 DEF Next, Proceed, Done

\* What a row has gained: its seconds, from zero or from where it began.
Gained(k) == TotalOf(logs[k]) + below[k]

\* It is an integer, and not below zero.
LEMMA GainedType ==
    ASSUME LockInv, GainsOnly, NEW k \in Keys
    PROVE  Gained(k) \in Nat /\ TotalOf(logs[k]) \in Int /\ TotalOf(logs[k]) <= Gained(k)
  BY DEF LockInv, TypeOK, GainsOnly, Gained, TotalOf, Rows

\* A commit gives its row the seconds that it adds to its video, and leaves the
\* other rows alone.
LEMMA CommitGains ==
    ASSUME LockInv, RowsStay, GainsOnly, NEW c \in Calls, Commit(c)
    PROVE  /\ Gained(Key(c))' = Gained(Key(c)) + SecondsDelta(existing[c], input[c].total)
           /\ \A k \in Keys : k # Key(c) => logs'[k] = logs[k] /\ below'[k] = below[k]
           /\ GainsOnly'
<1> PICK k : k = Key(c)
  OBVIOUS
<1>1. /\ pend[c].row = Written(c) /\ pend[c].row \in Rows /\ pend[c].row # None
      /\ k \in Keys /\ logs' = [logs EXCEPT ![k] = pend[c].row]
      /\ below' = [below EXCEPT ![k] =
                     IF logs[k] = None /\ pend[c].row.total < 0 THEN -pend[c].row.total ELSE @]
  BY CommitWrites DEF LockInv, WrittenUnderLock, WritesUnderLock, Commit
<1>2. /\ existing[c] \in Rows \cup {None} /\ logs \in [Keys -> Rows \cup {None}]
      /\ input[c].total \in Int /\ below \in [Keys -> Nat]
  BY KeyType DEF LockInv, TypeOK
<1>3. SecondsDelta(existing[c], input[c].total) \in Nat
  BY <1>2, SecondsType
<1>4. Key(c)' = Key(c)
  BY DEF Commit, Key
<1>5. /\ logs'[k] = pend[c].row
      /\ below'[k] = IF logs[k] = None /\ pend[c].row.total < 0 THEN -pend[c].row.total ELSE below[k]
      /\ \A m \in Keys : m # k => logs'[m] = logs[m] /\ below'[m] = below[m]
  BY <1>1, <1>2
<1>6. /\ pend[c].row.total + below'[k]
           = TotalOf(logs[k]) + below[k] + SecondsDelta(existing[c], input[c].total)
      /\ pend[c].row.total + below'[k] >= 0
  <2>1. CASE logs[k] = None
    <3>1. existing[c] = None /\ below[k] = 0 /\ pend[c].row.total = input[c].total
      BY <1>1, <2>1 DEF RowsStay, RowStays, GainsOnly, Written
    <3>2. /\ TotalOf(logs[k]) = 0
          /\ SecondsDelta(existing[c], input[c].total)
               = IF input[c].total > 0 THEN input[c].total ELSE 0
      BY <1>2, <2>1, <3>1 DEF TotalOf, SecondsDelta
    <3> QED
      BY <1>2, <1>5, <2>1, <3>1, <3>2
  <2>2. CASE logs[k] # None
    <3>1. /\ pend[c].row.total = logs[k].total + SecondsDelta(existing[c], input[c].total)
          /\ below'[k] = below[k] /\ TotalOf(logs[k]) = logs[k].total
      BY <1>1, <1>5, <2>2 DEF Written, TotalOf
    <3>2. logs[k].total \in Int /\ below[k] \in Nat /\ logs[k].total + below[k] >= 0
      BY <1>1, <1>2, <2>2 DEF GainsOnly, Rows
    <3> QED
      BY <1>3, <3>1, <3>2
  <2> QED
    BY <2>1, <2>2
<1>7. Gained(Key(c))' = Gained(Key(c)) + SecondsDelta(existing[c], input[c].total)
  <2>1. Gained(Key(c))' = pend[c].row.total + below'[k]
    BY <1>1, <1>4, <1>5 DEF Gained, TotalOf
  <2> QED
    BY <1>6, <2>1 DEF Gained
<1>8. GainsOnly'
  BY <1>1, <1>5, <1>6 DEF GainsOnly
<1> QED
  BY <1>5, <1>7, <1>8

\* What the agreement of the seconds, and the coherence of the answers, rest on.
SecondsInv == LockInv /\ RowsStay /\ GainsOnly /\ SecondsAgree

\* A commit adds the same seconds to the row and to the video.
LEMMA SecondsAgreeStep ==
    ASSUME SecondsInv, LockInv', [Next]_vars PROVE GainsOnly' /\ SecondsAgree'
<1>0. LockInv /\ RowsStay /\ GainsOnly
  BY DEF SecondsInv
<1>1. CASE UNCHANGED <<logs, below, stats>>
  BY <1>1 DEF SecondsInv, GainsOnly, SecondsAgree, SecondsOf
<1>2. ASSUME NEW c \in Calls, Commit(c) PROVE GainsOnly' /\ SecondsAgree'
  <2>0. GainsOnly'
    BY <1>0, <1>2, CommitGains
  <2> SUFFICES ASSUME NEW v \in Videos
               PROVE  stats'[v]["seconds"] = SumOf(SecondsOf(v)', Users)
    BY <2>0 DEF SecondsAgree
  <2>1. /\ Key(c) \in Keys /\ Key(c) = <<input[c].user, Video(c)>> /\ input[c].user \in Users
        /\ UNCHANGED input
    BY <1>0, <1>2, KeyType DEF LockInv, Commit
  <2>2. stats[v]["seconds"] = SumOf(SecondsOf(v), Users)
    BY DEF SecondsInv, SecondsAgree
  <2>3. \A u \in Users : /\ <<u, v>> \in Keys /\ SecondsOf(v)[u] = Gained(<<u, v>>)
                         /\ SecondsOf(v)'[u] = Gained(<<u, v>>)'
    BY DEF Keys, SecondsOf, Gained, TotalOf
  <2>4. ASSUME NEW u \in Users
        PROVE  SecondsOf(v)[u] \in Int /\ SecondsOf(v)'[u] \in Int
    <3> PICK k \in Keys : k = <<u, v>>
      BY <2>3
    <3>1. Gained(k) \in Nat
      BY <1>0, GainedType
    <3>2. Gained(k)' \in Nat
      BY <2>0, GainedType DEF LockInv, TypeOK, GainsOnly, Gained, TotalOf, Rows
    <3> QED
      BY <2>3, <3>1, <3>2 DEF Gained
  <2>5. /\ stats[v]["seconds"] \in Int
        /\ stats'[v]["seconds"] = stats[v]["seconds"] +
             (IF v = Video(c) THEN SecondsDelta(existing[c], input[c].total) ELSE 0)
    BY <1>0, <1>2, CommitAdds, WatchDeltaParts
  <2>6. CASE v # Video(c)
    <3>1. \A u \in Users : logs'[<<u, v>>] = logs[<<u, v>>] /\ below'[<<u, v>>] = below[<<u, v>>]
      <4>1. \A u \in Users : <<u, v>> # Key(c)
        BY <2>1, <2>6
      <4> QED
        BY <1>0, <1>2, <2>3, <4>1, CommitGains
    <3>2. SecondsOf(v)' = SecondsOf(v)
      BY <3>1 DEF SecondsOf, TotalOf
    <3> QED
      BY <2>2, <2>5, <2>6, <3>2
  <2>7. CASE v = Video(c)
    <3> DEFINE x == input[c].user
               f == SecondsOf(v)
               h == SecondsOf(v)'
    <3>1. \A u \in Users : u # x => logs'[<<u, v>>] = logs[<<u, v>>] /\ below'[<<u, v>>] = below[<<u, v>>]
      <4>1. \A u \in Users : u # x => <<u, v>> # Key(c)
        BY <2>1
      <4> QED
        BY <1>0, <1>2, <2>3, <4>1, CommitGains
    <3>2. \A u \in Users : u # x => h[u] = f[u]
      BY <3>1 DEF SecondsOf, TotalOf
    <3>3. h[x] = f[x] + SecondsDelta(existing[c], input[c].total)
      <4>1. f[x] = Gained(Key(c)) /\ h[x] = Gained(Key(c))'
        BY <2>1, <2>7 DEF SecondsOf, Gained, TotalOf, Key, Video
      <4> QED
        BY <1>0, <1>2, <4>1, CommitGains
    <3>4. SecondsDelta(existing[c], input[c].total) \in Int
      <4>1. SecondsDelta(existing[c], input[c].total) \in Nat
        BY <1>0, SecondsType, KeyType DEF LockInv, TypeOK
      <4> QED
        BY <4>1
    <3>5. (\A u \in Users : f[u] \in Int) /\ (\A u \in Users : h[u] \in Int) /\ x \in Users
      BY <2>1, <2>4
    <3> HIDE DEF f, h, x
    <3>6. SumOf(h, Users) = SumOf(f, Users) + (IF x \in Users THEN h[x] - f[x] ELSE 0)
      BY <3>2, <3>5, SumOfChange, WatchAssumption
    <3>7. stats'[v]["seconds"] = SumOf(h, Users)
      BY <2>2, <2>5, <2>7, <3>3, <3>4, <3>5, <3>6 DEF f
    <3> QED
      BY <3>7 DEF h
  <2> QED
    BY <2>6, <2>7
<1> QED
  BY <1>1, <1>2, OnlyCommits

\* So no step breaks any part of it.
LEMMA SecondsInvStep ==
    SecondsInv /\ [Next]_vars => SecondsInv'
<1>1. LockInv /\ [Next]_vars => LockInv'
  BY TypeStep, WrittenStep, AddedStep DEF LockInv
<1> QED
  BY SecondsAgreeStep, <1>1, RowsStayStep DEF SecondsInv

\* At first there are no rows and no seconds.
LEMMA SecondsInvInit == Init => SecondsInv
<1> SUFFICES ASSUME Init PROVE SecondsInv
  OBVIOUS
<1>1. RowsStay
  BY DEF Init, RowsStay, RowStays, Committed
<1>2. ASSUME NEW v \in Videos PROVE stats[v]["seconds"] = SumOf(SecondsOf(v), Users)
  <2>1. \A u \in Users : SecondsOf(v)[u] = 0
    BY DEF Init, Keys, SecondsOf, TotalOf
  <2>2. SumOf(SecondsOf(v), Users) = 0
    BY <2>1, SumOfZero, WatchAssumption
  <2> QED
    BY <2>2 DEF Init, ZeroStats, Counters
<1>3. GainsOnly
  BY DEF Init, GainsOnly
<1> QED
  BY <1>1, <1>2, <1>3, LockInvInit DEF SecondsInv, SecondsAgree

\* It holds of every state.
LEMMA SecondsInvCorrect == Spec => []SecondsInv
  BY SecondsInvInit, SecondsInvStep, PTL DEF Spec

\* The seconds of a video are the sum of what its log rows have gained, whatever
\* clients report, a negative count included.
THEOREM SecondsAgreeCorrect == Spec => []SecondsAgree
<1>1. SecondsInv => SecondsAgree
  BY DEF SecondsInv
<1> QED
  BY SecondsInvCorrect, <1>1, PTL

\* The statistics of a video have the seconds of each of its rows.
LEMMA SecondsCover ==
    ASSUME SecondsInv, NEW u \in Users, NEW v \in Videos
    PROVE  stats[v]["seconds"] \in Nat /\ TotalOf(logs[<<u, v>>]) <= stats[v]["seconds"]
           /\ TotalOf(logs[<<u, v>>]) \in Int
<1>0. \A w \in Users : <<w, v>> \in Keys /\ SecondsOf(v)[w] = Gained(<<w, v>>)
  BY DEF Keys, SecondsOf, Gained
<1>1. ASSUME NEW w \in Users
      PROVE  /\ SecondsOf(v)[w] \in Nat /\ TotalOf(logs[<<w, v>>]) <= SecondsOf(v)[w]
             /\ TotalOf(logs[<<w, v>>]) \in Int
  BY <1>0, GainedType DEF SecondsInv
<1>2. SumOf(SecondsOf(v), Users) \in Nat /\ SecondsOf(v)[u] <= SumOf(SecondsOf(v), Users)
  BY <1>1, SumOfBound, WatchAssumption
<1>3. stats[v]["seconds"] = SumOf(SecondsOf(v), Users)
  BY DEF SecondsInv, SecondsAgree
<1> QED
  BY <1>1, <1>2, <1>3

\* A call that adds nothing to the statistics has written nothing worth counting
\* over a row that was not.
LEMMA NothingWritten ==
    ASSUME LockInv, RowsStay, NEW c \in Calls, Commit(c), pend[c].stats = None,
           Uncounted(logs[Key(c)]), ~Qualified(existing[c])
    PROVE  Uncounted(pend[c].row)
<1>1. pend[c].row = Written(c) /\ pend[c].row \in Rows /\ pend[c].row # None /\ WatchDelta(c) \in StatsRows
  BY CommitWrites, DeltaType DEF LockInv, WrittenUnderLock, WritesUnderLock, Commit
<1>2. WatchDelta(c) = ZeroStats
  <2>1. stats \in [Videos -> StatsRows] /\ Video(c) \in Videos
    BY KeyType DEF LockInv, TypeOK
  <2>2. Increment(stats[Video(c)], WatchDelta(c)) \in StatsRows
    BY <1>1, <2>1, IncrementType
  <2>3. Increment(stats[Video(c)], WatchDelta(c)) # None
    BY <2>2, WatchAssumption
  <2> QED
    BY <2>3 DEF LockInv, AddedUnderLock, AddsUnderLock, Commit
<1>3. /\ WatcherDelta(existing[c], pend[c].row) = 0
      /\ SecondsDelta(existing[c], input[c].total) = 0
  BY <1>2, WatchDeltaParts DEF ZeroStats
<1>4. ~Qualified(pend[c].row)
  BY <1>3 DEF WatcherDelta
<1>5. pend[c].row.total <= 0
  <2>1. input[c].total \in Int /\ logs[Key(c)] \in Rows \cup {None}
    BY KeyType DEF LockInv, TypeOK
  <2>2. CASE logs[Key(c)] = None
    <3>1. existing[c] = None /\ pend[c].row.total = input[c].total
      BY <1>1, <2>2 DEF RowsStay, RowStays, Written
    <3> QED
      BY <1>3, <2>1, <3>1 DEF SecondsDelta
  <2>3. CASE logs[Key(c)] # None
    <3>1. pend[c].row.total = logs[Key(c)].total + 0 /\ logs[Key(c)].total <= 0
      BY <1>1, <1>3, <2>3 DEF Written, Uncounted
    <3> QED
      BY <2>1, <2>3, <3>1 DEF Rows
  <2> QED
    BY <2>2, <2>3
<1> QED
  BY <1>4, <1>5 DEF Uncounted

\* While a video has no statistics row, there is nothing on it to count.
LEMMA UncountedStep ==
    LockInv /\ RowsStay /\ UncountedIsNothing /\ [Next]_vars => UncountedIsNothing'
<1> SUFFICES ASSUME LockInv, RowsStay, UncountedIsNothing, [Next]_vars PROVE UncountedIsNothing'
  OBVIOUS
<1>0. /\ TypeOK /\ counted \subseteq counted' /\ UNCHANGED input
      /\ \A c \in Calls : Video(c)' = Video(c) /\ Key(c) \in Keys /\ Key(c)[2] = Video(c)
  <2>1. TypeOK /\ counted \subseteq counted' /\ UNCHANGED input
    BY DEF LockInv, Next, Proceed, Done, vars, Load, Upsert, BumpStats, EnqueueEvent, Commit,
           ReadStats, Rollback, ReadFails
  <2> QED
    BY <2>1, KeyType DEF Video, Key
<1>1. ASSUME NEW k \in Keys, k[2] \notin counted' PROVE Uncounted(logs'[k])
  <2>1. Uncounted(logs[k])
    BY <1>0, <1>1 DEF UncountedIsNothing
  <2>2. CASE UNCHANGED logs
    BY <2>1, <2>2
  <2>3. ASSUME NEW c \in Calls, Commit(c) PROVE Uncounted(logs'[k])
    <3>1. CASE k = Key(c)
      <4>1. pend[c].stats = None /\ Video(c) \notin counted
        BY <1>0, <1>1, <2>3, <3>1 DEF Commit
      <4>2. logs'[k] = pend[c].row /\ ~Qualified(existing[c])
        BY <1>0, <2>3, <3>1, <4>1, CommitWrites DEF UncountedIsNothing, TypeOK
      <4> QED
        BY <2>1, <2>3, <3>1, <4>1, <4>2, NothingWritten
    <3>2. CASE k # Key(c)
      BY <1>0, <2>1, <2>3, <3>2, CommitWrites DEF TypeOK
    <3> QED
      BY <3>1, <3>2
  <2> QED
    BY <2>2, <2>3, OnlyCommits
<1>2. ASSUME NEW d \in Calls, Video(d) \notin counted'
      PROVE  ~Qualified(existing'[d]) /\ (pc'[d] \in Committed => ~Qualified(pend'[d].row))
  <2>0. /\ Video(d) \notin counted /\ ~Qualified(existing[d]) /\ Uncounted(logs[Key(d)])
        /\ pc[d] \in Committed => ~Qualified(pend[d].row)
    BY <1>0, <1>2 DEF UncountedIsNothing
  <2>1. CASE pc'[d] = pc[d] /\ existing'[d] = existing[d] /\ pend'[d] = pend[d]
    BY <2>0, <2>1
  <2>2. CASE Load(d)
    BY <1>0, <2>0, <2>2 DEF Load, Advance, TypeOK, Committed, Uncounted, Qualified
  <2>3. CASE Upsert(d) \/ BumpStats(d) \/ EnqueueEvent(d) \/ Rollback(d)
    BY <1>0, <2>0, <2>3 DEF Upsert, BumpStats, EnqueueEvent, Rollback, Advance, TypeOK, Committed
  <2>4. CASE Commit(d)
    <3>1. pend[d].stats = None /\ UNCHANGED <<existing, pend>>
      BY <1>2, <2>4 DEF Commit
    <3>2. Uncounted(pend[d].row) /\ pend[d].row # None
      BY <2>0, <2>4, <3>1, NothingWritten, CommitWrites
    <3> QED
      BY <2>0, <3>1, <3>2 DEF Uncounted
  <2>5. CASE ReadStats(d) \/ ReadFails(d)
    BY <1>0, <2>0, <2>5 DEF ReadStats, ReadFails, Advance, TypeOK, Committed
  <2>6. ASSUME NEW c \in Calls, c # d, Proceed(c) \/ Rollback(c) \/ ReadFails(c)
        PROVE  pc'[d] = pc[d] /\ existing'[d] = existing[d] /\ pend'[d] = pend[d]
    BY <1>0, <2>6 DEF Proceed, Load, Upsert, BumpStats, EnqueueEvent, Commit, ReadStats, Rollback,
                      ReadFails, Advance, TypeOK
  <2>7. CASE UNCHANGED vars
    BY <2>1, <2>7 DEF vars
  <2> QED
    BY <2>1, <2>2, <2>3, <2>4, <2>5, <2>6, <2>7 DEF Next, Proceed, Done
<1> QED
  BY <1>0, <1>1, <1>2 DEF UncountedIsNothing, Uncounted, Qualified

\* An answer never tells a viewer more seconds than it tells of the video, and
\* leaves the statistics out only when he has nothing that would count.
THEOREM AnswerIsCoherentCorrect == Spec => []AnswerIsCoherent
<1> DEFINE Inv == SecondsInv /\ UncountedIsNothing
<1>0. Spec => []Inv
  <2>1. Init => Inv
    BY SecondsInvInit, KeyType DEF Init, UncountedIsNothing, Uncounted, Qualified, Committed
  <2>2. Inv /\ [Next]_vars => Inv'
    BY SecondsInvStep, UncountedStep DEF SecondsInv
  <2> QED
    BY <2>1, <2>2, PTL DEF Spec
<1>1. Init => AnswerIsCoherent
  BY DEF Init, AnswerIsCoherent
<1>2. ASSUME Inv, AnswerIsCoherent, [Next]_vars PROVE AnswerIsCoherent'
  <2> SUFFICES ASSUME NEW d \in Calls, pc'[d] = "answered"
               PROVE  IF reply'[d] = None THEN pend'[d].row.total <= 0 /\ ~Qualified(pend'[d].row)
                      ELSE reply'[d]["seconds"] >= pend'[d].row.total
    BY DEF AnswerIsCoherent, Qualified
  <2>0. TypeOK /\ RowStays(d)
    BY <1>2 DEF SecondsInv, LockInv, RowsStay
  <2>1. CASE ReadStats(d)
    <3>1. /\ pend' = pend /\ pc[d] = "readStats"
          /\ reply'[d] = IF Video(d) \in counted THEN stats[Video(d)] ELSE None
      BY <2>0, <2>1 DEF ReadStats, TypeOK
    <3>2. pend[d].row # None /\ logs[Key(d)] # None /\ pend[d].row.total <= logs[Key(d)].total
      BY <2>0, <3>1 DEF RowStays, Committed
    <3>3. /\ Key(d) \in Keys /\ Key(d)[2] = Video(d) /\ Video(d) \in Videos /\ input[d].user \in Users
          /\ Key(d) = <<input[d].user, Video(d)>>
      BY <2>0, KeyType
    <3>4. pend[d].row.total \in Int /\ logs[Key(d)].total \in Int
      BY <2>0, <3>2, <3>3 DEF TypeOK, Pending, Rows
    <3>5. CASE Video(d) \in counted
      <4>1. /\ stats[Video(d)]["seconds"] \in Nat
            /\ logs[Key(d)].total <= stats[Video(d)]["seconds"]
        BY <1>2, <3>2, <3>3, SecondsCover DEF TotalOf
      <4>2. stats[Video(d)] # None
        BY <2>0, <3>3, WatchAssumption DEF TypeOK
      <4> QED
        BY <3>1, <3>2, <3>4, <3>5, <4>1, <4>2
    <3>6. CASE Video(d) \notin counted
      <4>1. Uncounted(logs[Key(d)]) /\ ~Qualified(pend[d].row)
        BY <1>2, <3>1, <3>3, <3>6 DEF UncountedIsNothing, Committed
      <4>2. logs[Key(d)].total <= 0
        BY <3>2, <4>1 DEF Uncounted
      <4> QED
        BY <3>1, <3>2, <3>4, <3>6, <4>1, <4>2
    <3> QED
      BY <3>5, <3>6
  <2>2. CASE pc[d] = pc'[d] /\ reply'[d] = reply[d] /\ pend'[d] = pend[d]
    BY <1>2, <2>2 DEF AnswerIsCoherent
  <2>3. ASSUME NEW c \in Calls, Proceed(c) \/ Rollback(c) \/ ReadFails(c), ~ReadStats(d)
        PROVE  pc[d] = pc'[d] /\ reply'[d] = reply[d] /\ pend'[d] = pend[d]
    <3>1. CASE c = d
      BY <2>0, <2>3, <3>1 DEF Proceed, Load, Upsert, BumpStats, EnqueueEvent, Commit, Rollback,
                              ReadFails, Advance, TypeOK
    <3>2. CASE c # d
      BY <2>0, <2>3, <3>2 DEF Proceed, Load, Upsert, BumpStats, EnqueueEvent, Commit, ReadStats,
                              Rollback, ReadFails, Advance, TypeOK
    <3> QED
      BY <3>1, <3>2
  <2> QED
    BY <1>2, <2>1, <2>2, <2>3 DEF Next, Done, vars
<1> HIDE DEF Inv
<1> QED
  BY <1>0, <1>1, <1>2, PTL DEF Spec
===============================================================================
