----------------------------- MODULE WatchHistory -----------------------------
(***************************************************************************)
(* UpsertWatchProgress, from the handler to the rows.  A report carries    *)
(* the progress and the cumulative seconds of one viewer.  One READ        *)
(* COMMITTED transaction loads the log row without locking it, computes    *)
(* the seconds that are new, upserts the row, reads its own write back,    *)
(* judges by the two rows whether a watcher was won or lost, adds to the   *)
(* statistics of the video, and tells the outbox if the progress is worth  *)
(* telling.  After the commit the handler reads the statistics.            *)
(*                                                                         *)
(* The ratio is written in percent here; seconds arrive as whole numbers.  *)
(* Position and the timestamps are written like the ratio and left out.    *)
(***************************************************************************)
EXTENDS VideoStats, FiniteSetsExt, Sequences

CONSTANTS Calls,   \* the concurrent reports
          Users,
          Videos,
          Ratios,  \* the percentages clients report
          Totals,  \* the cumulative seconds clients report
          None     \* no row, no event, no lock holder

Rows == [ratio : Ratios, total : Int]
Events == [call : Calls, user : Users, row : Rows]

\* Nobody checks the seconds a client reports: they can be below zero.
ASSUME WatchAssumption == /\ Ratios \subseteq Nat /\ Totals \subseteq Int
                          /\ IsFiniteSet(Users)
                          /\ None \notin Calls \cup Rows \cup Events \cup StatsRows

VARIABLES input,      \* what each call reports
          pc,         \* the statement each call runs next
          logs,       \* profile.watch_logs, committed
          stats,      \* profile.video_stats, committed
          counted,    \* the videos that have a statistics row
          below,      \* how far below zero each log row began
          outbox,     \* watch events per video, in commit order
          logLock,    \* holder of each log row
          statsLock,  \* holder of each statistics row
          existing,   \* the row each call loaded
          pend,       \* the uncommitted writes of each call
          reply,      \* the statistics each call answers with, or none
          overtaken   \* videos with a commit over a row its call had not loaded

vars == <<input, pc, logs, stats, counted, below, outbox, logLock, statsLock, existing, pend, reply,
          overtaken>>

Inputs == [user : Users, video : Videos, ratio : Ratios, total : Totals]
Keys == Users \X Videos
Pending == [row : Rows \cup {None}, stats : StatsRows \cup {None}, event : Events \cup {None}]
NoWrites == [row |-> None, stats |-> None, event |-> None]

InTx == {"load", "upsert", "bump", "enqueue", "commit"}
Committed == {"readStats", "answered", "unanswered"}
Ended == {"answered", "unanswered", "rejected"}

Key(c) == <<input[c].user, input[c].video>>
Video(c) == input[c].video
Advance(c, to) == pc' = [pc EXCEPT ![c] = to]

-------------------------------------------------------------------------------
(***************************************************************************)
(* The judgements on the loaded row and the written one.                   *)
(***************************************************************************)

Threshold == 5
Qualified(row) == row # None /\ row.ratio >= Threshold

\* MUTANT: a count that went back is taken off.
SecondsDelta_Signed(old, total) == IF old = None THEN total ELSE total - old.total

\* What the report tells beyond the loaded row; a count below zero, or one that
\* went back, tells nothing new.
SecondsDelta(old, total) ==
    LET known == IF old = None THEN 0 ELSE old.total IN
    IF total > known THEN total - known ELSE 0

\* MUTANT: whoever reports is a watcher the first time, however little he saw.
WatcherDelta_FirstReport(old, new) == IF old = None THEN 1 ELSE 0

WatcherDelta(old, new) ==
    CASE Qualified(new) /\ ~Qualified(old) -> 1
      [] Qualified(old) /\ ~Qualified(new) -> -1
      [] OTHER -> 0

\* A rise of exactly the threshold is a difference of two doubles and may fall
\* on either side.
MayEmit(old, new) ==
    Qualified(new) /\ (Qualified(old) => new.ratio - old.ratio >= Threshold)
MayStaySilent(old, new) ==
    ~Qualified(new) \/ (Qualified(old) /\ new.ratio - old.ratio <= Threshold)

-------------------------------------------------------------------------------
Load(c) ==
    /\ pc[c] = "load"
    /\ existing' = [existing EXCEPT ![c] = logs[Key(c)]]
    /\ Advance(c, "upsert")
    /\ UNCHANGED <<input, logs, stats, counted, below, outbox, logLock, statsLock, pend, reply, overtaken>>

\* MUTANT: the conflict branch stores the reported total.
Written_Overwrites(c) == [ratio |-> input[c].ratio, total |-> input[c].total]

\* The row as the upsert leaves it: an insert stores the reported total, below
\* zero or not; a conflict adds the new seconds to the row it finds, not to the
\* loaded one.
Written(c) ==
    [ratio |-> input[c].ratio,
     total |-> IF logs[Key(c)] = None THEN input[c].total
               ELSE logs[Key(c)].total + SecondsDelta(existing[c], input[c].total)]

\* The upsert waits for the row; the read that follows sees the call's own
\* write, which nobody else can touch now.
Upsert(c) ==
    /\ pc[c] = "upsert"
    /\ logLock[Key(c)] = None
    /\ logLock' = [logLock EXCEPT ![Key(c)] = c]
    /\ pend' = [pend EXCEPT ![c].row = Written(c)]
    /\ Advance(c, "bump")
    /\ UNCHANGED <<input, logs, stats, counted, below, outbox, statsLock, existing, reply, overtaken>>

\* What a call adds: the watcher it judges by the two rows, and its seconds.
WatchDelta(c) ==
    [ZeroStats EXCEPT !["watchers"] = WatcherDelta(existing[c], pend[c].row),
                      !["seconds"] = SecondsDelta(existing[c], input[c].total)]

\* The statistics are only touched when there is something to add.
BumpStats(c) ==
    /\ pc[c] = "bump"
    /\ \/ /\ WatchDelta(c) = ZeroStats
          /\ UNCHANGED <<statsLock, pend>>
       \/ /\ WatchDelta(c) # ZeroStats
          /\ statsLock[Video(c)] = None
          /\ statsLock' = [statsLock EXCEPT ![Video(c)] = c]
          /\ pend' = [pend EXCEPT ![c].stats = Increment(stats[Video(c)], WatchDelta(c))]
    /\ Advance(c, "enqueue")
    /\ UNCHANGED <<input, logs, stats, counted, below, outbox, logLock, existing, reply, overtaken>>

\* MUTANT: the event tells the row as it was before the report.
EventOf_Loaded(c) == [call |-> c, user |-> input[c].user, row |-> existing[c]]

EventOf(c) == [call |-> c, user |-> input[c].user, row |-> pend[c].row]

\* MUTANT: the event row is inserted outside the transaction.
EnqueueEvent_OutsideTx(c) ==
    /\ pc[c] = "enqueue"
    /\ \/ /\ MayEmit(existing[c], pend[c].row)
          /\ outbox' = [outbox EXCEPT ![Video(c)] = Append(@, EventOf(c))]
       \/ /\ MayStaySilent(existing[c], pend[c].row)
          /\ outbox' = outbox
    /\ Advance(c, "commit")
    /\ UNCHANGED <<input, logs, stats, counted, below, logLock, statsLock, existing, pend, reply, overtaken>>

EnqueueEvent(c) ==
    /\ pc[c] = "enqueue"
    /\ \/ /\ MayEmit(existing[c], pend[c].row)
          /\ pend' = [pend EXCEPT ![c].event = EventOf(c)]
       \/ /\ MayStaySilent(existing[c], pend[c].row)
          /\ pend' = pend
    /\ Advance(c, "commit")
    /\ UNCHANGED <<input, logs, stats, counted, below, outbox, logLock, statsLock, existing, reply, overtaken>>

ReleaseLocks(c) ==
    /\ logLock' = [k \in Keys |-> IF logLock[k] = c THEN None ELSE logLock[k]]
    /\ statsLock' = [v \in Videos |-> IF statsLock[v] = c THEN None ELSE statsLock[v]]

Commit(c) ==
    /\ pc[c] = "commit"
    /\ logs' = [logs EXCEPT ![Key(c)] = pend[c].row]
    /\ stats' = [stats EXCEPT ![Video(c)] = IF pend[c].stats = None THEN @ ELSE pend[c].stats]
    /\ outbox' = [outbox EXCEPT ![Video(c)] =
                    IF pend[c].event = None THEN @ ELSE Append(@, pend[c].event)]
    /\ counted' = IF pend[c].stats = None THEN counted ELSE counted \cup {Video(c)}
    /\ below' = [below EXCEPT ![Key(c)] =
                   IF logs[Key(c)] = None /\ pend[c].row.total < 0 THEN -pend[c].row.total ELSE @]
    /\ overtaken' = IF existing[c] = logs[Key(c)] THEN overtaken ELSE overtaken \cup {Video(c)}
    /\ ReleaseLocks(c)
    /\ \E next \in {"readStats", "unanswered"} : Advance(c, next)
    /\ UNCHANGED <<input, existing, pend, reply>>

\* Any statement can fail, and the transaction with it.
Rollback(c) ==
    /\ pc[c] \in InTx
    /\ ReleaseLocks(c)
    /\ pend' = [pend EXCEPT ![c] = NoWrites]
    /\ Advance(c, "rejected")
    /\ UNCHANGED <<input, logs, stats, counted, below, outbox, existing, reply, overtaken>>

\* MUTANT: the statistics of the answer are those read before the commit.
ReadStats_Early(c) ==
    /\ pc[c] = "readStats"
    /\ reply' = [reply EXCEPT ![c] = IF existing[c] = None THEN None ELSE stats[Video(c)]]
    /\ Advance(c, "answered")
    /\ UNCHANGED <<input, logs, stats, counted, below, outbox, logLock, statsLock, existing, pend, overtaken>>

\* The answer: the written row, and the statistics of a later moment.  A video
\* without a statistics row is answered without statistics.
ReadStats(c) ==
    /\ pc[c] = "readStats"
    /\ reply' = [reply EXCEPT ![c] = IF Video(c) \in counted THEN stats[Video(c)] ELSE None]
    /\ Advance(c, "answered")
    /\ UNCHANGED <<input, logs, stats, counted, below, outbox, logLock, statsLock, existing, pend, overtaken>>

ReadFails(c) ==
    /\ pc[c] = "readStats"
    /\ Advance(c, "unanswered")
    /\ UNCHANGED <<input, logs, stats, counted, below, outbox, logLock, statsLock, existing, pend, reply, overtaken>>

-------------------------------------------------------------------------------
Init ==
    /\ input \in [Calls -> Inputs]
    /\ pc = [c \in Calls |-> "load"]
    /\ logs = [k \in Keys |-> None]
    /\ stats = [v \in Videos |-> ZeroStats]
    /\ counted = {}
    /\ below = [k \in Keys |-> 0]
    /\ outbox = [v \in Videos |-> <<>>]
    /\ logLock = [k \in Keys |-> None]
    /\ statsLock = [v \in Videos |-> None]
    /\ existing = [c \in Calls |-> None]
    /\ pend = [c \in Calls |-> NoWrites]
    /\ reply = [c \in Calls |-> None]
    /\ overtaken = {}

Proceed(c) ==
    Load(c) \/ Upsert(c) \/ BumpStats(c) \/ EnqueueEvent(c) \/ Commit(c) \/ ReadStats(c)

Done == (\A c \in Calls : pc[c] \in Ended) /\ UNCHANGED vars

Next == (\E c \in Calls : Proceed(c) \/ Rollback(c) \/ ReadFails(c)) \/ Done

Spec == Init /\ [][Next]_vars

-------------------------------------------------------------------------------
TypeOK ==
    /\ input \in [Calls -> Inputs]
    /\ pc \in [Calls -> InTx \cup Committed \cup Ended]
    /\ logs \in [Keys -> Rows \cup {None}]
    /\ stats \in [Videos -> StatsRows]
    /\ counted \subseteq Videos
    /\ below \in [Keys -> Nat]
    /\ outbox \in [Videos -> Seq(Events)]
    /\ logLock \in [Keys -> Calls \cup {None}]
    /\ statsLock \in [Videos -> Calls \cup {None}]
    /\ existing \in [Calls -> Rows \cup {None}]
    /\ pend \in [Calls -> Pending]
    /\ reply \in [Calls -> StatsRows \cup {None}]
    /\ overtaken \subseteq Videos

TotalOf(row) == IF row = None THEN 0 ELSE row.total

\* Why the totals grow: from the upsert to the end of the transaction the call
\* holds the row, so what it is about to write stays what the upsert made of the
\* committed row, and the event tells that same row.
WritesUnderLock(c) ==
    /\ pc[c] \in {"load", "upsert"} => pend[c] = NoWrites
    /\ pc[c] \in {"bump", "enqueue", "commit"} =>
          logLock[Key(c)] = c /\ pend[c].row = Written(c)
    /\ pc[c] \in {"bump", "enqueue"} => pend[c].event = None
    /\ pc[c] = "commit" /\ pend[c].event # None =>
          pend[c].event = EventOf(c) /\ Qualified(pend[c].row)
WrittenUnderLock == \A c \in Calls : WritesUnderLock(c)

\* Why the watchers are exact: the same for the statistics row, if the call has
\* anything to add to it.
AddsUnderLock(c) ==
    /\ pc[c] = "bump" => pend[c].stats = None
    /\ pc[c] \in {"enqueue", "commit"} =>
          IF WatchDelta(c) = ZeroStats THEN pend[c].stats = None
          ELSE statsLock[Video(c)] = c /\ pend[c].stats = Increment(stats[Video(c)], WatchDelta(c))
AddedUnderLock == \A c \in Calls : AddsUnderLock(c)

\* The sum of f over a finite set, and what it sums here.
SumOf(f, S) == MapThenSumSet(LAMBDA x : f[x], S)
SecondsOf(v) == [u \in Users |-> TotalOf(logs[<<u, v>>]) + below[<<u, v>>]]

\* The seconds of a video are the sum of the seconds its log rows have gained,
\* however the reports interleave: the same new seconds are added to both, each
\* under its row lock.  A row gains from zero on, or from where it began if its
\* first report was below zero: that one is stored as it is and not counted.
\* (Both may count one second twice: see overtaken.)
SecondsAgree == \A v \in Videos : stats[v]["seconds"] = SumOf(SecondsOf(v), Users)

Watchers(v) == Cardinality({u \in Users : Qualified(logs[<<u, v>>])})

\* The watchers of a video are the users whose progress qualifies, as long as
\* no report was committed over a row it had not loaded.
WatchersExactUnlessOvertaken ==
    \A v \in Videos : v \notin overtaken => stats[v]["watchers"] = Watchers(v)

\* No second that was counted is taken away and no row disappears, although
\* every report writes the row it computed from an older one.
TotalsOnlyGrow ==
    [][\A k \in Keys : logs[k] # None =>
          logs'[k] # None /\ logs'[k].total >= logs[k].total]_vars

\* The events of a viewer tell his progress in order: of committed reports
\* that qualify, one event for a report, seconds never fewer than before and
\* never more than the row has.
EventsInOrder ==
    \A v \in Videos : \A i \in DOMAIN outbox[v] :
        LET e == outbox[v][i] IN
        /\ pc[e.call] \in Committed /\ Qualified(e.row)
        /\ logs[<<e.user, v>>] # None /\ e.row.total <= logs[<<e.user, v>>].total
        /\ \A j \in i + 1 .. Len(outbox[v]) :
              /\ outbox[v][j].call # e.call
              /\ outbox[v][j].user = e.user => e.row.total <= outbox[v][j].row.total

\* Why answers are coherent: a row that a call has loaded or has written is
\* there to stay, and never has fewer seconds than the call wrote.
RowStays(c) ==
    /\ existing[c] # None => logs[Key(c)] # None
    /\ pc[c] \in Committed => /\ pend[c].row # None /\ logs[Key(c)] # None
                              /\ pend[c].row.total <= logs[Key(c)].total
RowsStay == \A c \in Calls : RowStays(c)

\* Why seconds only count up: a row has at least what it began with.
GainsOnly ==
    \A k \in Keys : IF logs[k] = None THEN below[k] = 0 ELSE logs[k].total + below[k] >= 0

\* Why an answer may lack statistics: while a video has no statistics row, no
\* progress on it is worth counting, in its log rows or in what calls have seen.
Uncounted(row) == row = None \/ (row.total <= 0 /\ ~Qualified(row))
UncountedIsNothing ==
    /\ \A k \in Keys : k[2] \notin counted => Uncounted(logs[k])
    /\ \A c \in Calls : Video(c) \notin counted =>
          /\ ~Qualified(existing[c])
          /\ pc[c] \in Committed => ~Qualified(pend[c].row)

\* The two halves of an answer, read at different moments, do not contradict
\* each other: the video has at least the seconds its viewer is told he has, and
\* an answer without statistics tells him of no seconds and of no progress that
\* would have made him a watcher.
AnswerIsCoherent ==
    \A c \in Calls : pc[c] = "answered" =>
        IF reply[c] = None THEN pend[c].row.total <= 0 /\ ~Qualified(pend[c].row)
        ELSE reply[c]["seconds"] >= pend[c].row.total

-------------------------------------------------------------------------------
\* The schema calls unique_watchers the number of users who watched.
UniqueWatchersCountsUsers == \A v \in Videos : stats[v]["watchers"] = Watchers(v)

===============================================================================
