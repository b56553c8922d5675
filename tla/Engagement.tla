------------------------------ MODULE Engagement ------------------------------
(***************************************************************************)
(* MutateFavorite, from the handler of internal/controllers down to the    *)
(* rows it writes.  Each call is a goroutine.  EngagementService.Mutate    *)
(* runs one READ COMMITTED transaction of four statements: write the       *)
(* engagement row, add to the statistics row of the video, read that row   *)
(* back, insert the outbox row.  A write takes the lock of its row and     *)
(* keeps it until the transaction ends; the other statements of the        *)
(* service interleave freely.  After the commit the handler reads the      *)
(* favorite state and the statistics in three further statements, each     *)
(* outside any transaction.                                                *)
(*                                                                         *)
(* A retry of the client is simply another call with the same input: no    *)
(* layer of the service recognises it.                                     *)
(***************************************************************************)
EXTENDS VideoStats, FiniteSets, Sequences

CONSTANTS Calls,    \* the concurrent MutateFavorite calls
          Users,
          Videos,
          ClientTimes,  \* the instants clients give as occurred_at
          None          \* no lock holder, no snapshot, no event

\* A domain event, as far as it matters here.  The row of outbox_events that
\* carries it has no version: it keeps the instant the version is computed from.
Events == [call : Calls, user : Users, kind : Kinds, action : FavoriteActions,
           version : Nat, stats : StatsRows \cup {None}]

ASSUME EngagementAssumption == /\ ClientTimes \subseteq Nat
                               /\ None \notin Calls \cup StatsRows \cup Events

VARIABLES input,        \* what each call asks for
          pc,           \* the statement each call runs next
          clock,        \* the server clock, counted in calls begun
          occurred,     \* occurredAt of each call
          engagements,  \* profile.engagements, committed
          stats,        \* profile.video_stats, committed
          outbox,       \* profile.outbox_events per aggregate, in commit order
          engLock,      \* holder of each engagement row
          statsLock,    \* holder of each statistics row
          pend,         \* the uncommitted writes of each call
          reply         \* what the handler has read for its response

vars == <<input, pc, clock, occurred, engagements, stats, outbox,
          engLock, statsLock, pend, reply>>

Inputs == [user : Users, video : Videos, kind : Kinds, action : FavoriteActions]
Keys == Users \X Videos \X Kinds
Pending == [row : {"unwritten", "active", "deleted"}, stats : StatsRows,
            snapshot : StatsRows \cup {None}, event : Events \cup {None}]
NoWrites == [row |-> "unwritten", stats |-> ZeroStats,
             snapshot |-> None, event |-> None]
Replies == [favorite : [Kinds -> BOOLEAN], stats : StatsRows]

InTx == {"engage", "bump", "fetch", "enqueue", "commit", "doomed"}
Responding == {"readLike", "readBookmark", "readStats"}
Committed == Responding \cup {"answered", "unanswered"}
Ended == {"answered", "unanswered", "rejected"}

Key(c) == <<input[c].user, input[c].video, input[c].kind>>
Video(c) == input[c].video

-------------------------------------------------------------------------------
(***************************************************************************)
(* The transaction.                                                        *)
(***************************************************************************)

\* MUTANT: the Remove branch updates the statistics before the row.
Program_RemoveBumpsFirst(action) ==
    IF action = "add"
    THEN [begin |-> "engage", engage |-> "bump", bump |-> "fetch",
          fetch |-> "enqueue", enqueue |-> "commit"]
    ELSE [begin |-> "bump", bump |-> "engage", engage |-> "fetch",
          fetch |-> "enqueue", enqueue |-> "commit"]

\* The order of the statements, the same in both branches of the switch.
Program(action) ==
    [begin |-> "engage", engage |-> "bump", bump |-> "fetch",
     fetch |-> "enqueue", enqueue |-> "commit"]

Advance(c) == pc' = [pc EXCEPT ![c] = Program(input[c].action)[pc[c]]]

\* The transaction opens and occurredAt is taken, before any lock is held:
\* the server clock, or whatever instant the client states.
Begin(c) ==
    /\ pc[c] = "begin"
    /\ clock' = clock + 1
    /\ \E at \in {clock + 1} \cup ClientTimes : occurred' = [occurred EXCEPT ![c] = at]
    /\ Advance(c)
    /\ UNCHANGED <<input, engagements, stats, outbox, engLock, statsLock, pend, reply>>

\* A statement that writes row k of a table waits until no other
\* transaction holds it.
WriteEngagement(c, row) ==
    /\ engLock[Key(c)] \in {None, c}
    /\ engLock' = [engLock EXCEPT ![Key(c)] = c]
    /\ pend' = [pend EXCEPT ![c].row = row]

\* MUTANT: ON CONFLICT DO NOTHING, which never restores a deleted row.
UpsertEngagement_DoNothing(c) ==
    /\ pc[c] = "engage" /\ input[c].action = "add"
    /\ \/ /\ engagements[Key(c)] = "absent"
          /\ WriteEngagement(c, "active")
       \/ /\ engagements[Key(c)] # "absent"
          /\ UNCHANGED <<engLock, pend>>
    /\ Advance(c)
    /\ UNCHANGED <<input, clock, occurred, engagements, stats, outbox, statsLock, reply>>

\* Insert the row, or clear its deleted_at; a concurrent insert of the same
\* key makes the statement wait as a lock does.
UpsertEngagement(c) ==
    /\ pc[c] = "engage" /\ input[c].action = "add"
    /\ WriteEngagement(c, "active")
    /\ Advance(c)
    /\ UNCHANGED <<input, clock, occurred, engagements, stats, outbox, statsLock, reply>>

\* UPDATE ... WHERE the key.  It sees committed rows only: with none there it
\* changes zero rows, takes no lock, and is still a success.
SoftDeleteEngagement(c) ==
    /\ pc[c] = "engage" /\ input[c].action = "remove"
    /\ \/ /\ engagements[Key(c)] = "absent"
          /\ UNCHANGED <<engLock, pend>>
       \/ /\ engagements[Key(c)] # "absent"
          /\ WriteEngagement(c, "deleted")
    /\ Advance(c)
    /\ UNCHANGED <<input, clock, occurred, engagements, stats, outbox, statsLock, reply>>

\* MUTANT: read the counters, add in the service, write them back unlocked.
BumpStats_Unlocked(c) ==
    /\ pc[c] = "bump"
    /\ statsLock' = statsLock
    /\ pend' = [pend EXCEPT ![c].stats =
                  Increment(stats[Video(c)], EngagementDelta(input[c].kind, input[c].action))]
    /\ Advance(c)
    /\ UNCHANGED <<input, clock, occurred, engagements, stats, outbox, engLock, reply>>

\* One additive statement: it waits for the row, so the sum is taken over the
\* newest committed counters and nobody else adds before the commit.
BumpStats(c) ==
    /\ pc[c] = "bump"
    /\ statsLock[Video(c)] \in {None, c}
    /\ statsLock' = [statsLock EXCEPT ![Video(c)] = c]
    /\ pend' = [pend EXCEPT ![c].stats =
                  Increment(stats[Video(c)], EngagementDelta(input[c].kind, input[c].action))]
    /\ Advance(c)
    /\ UNCHANGED <<input, clock, occurred, engagements, stats, outbox, engLock, reply>>

\* fetchStats reads the statistics inside the transaction, which sees its own
\* write.  Its error is only logged, but the transaction is lost with it: the
\* next statement fails.
FetchStats(c) ==
    /\ pc[c] = "fetch"
    /\ \/ /\ pend' = [pend EXCEPT ![c].snapshot =
                        IF statsLock[Video(c)] = c THEN pend[c].stats ELSE stats[Video(c)]]
          /\ Advance(c)
       \/ /\ pend' = pend
          /\ pc' = [pc EXCEPT ![c] = "doomed"]
    /\ UNCHANGED <<input, clock, occurred, engagements, stats, outbox, engLock, statsLock, reply>>

\* The domain event of the mutation, with the version VersionFromTime makes of
\* occurredAt.
EventOf(c) ==
    [call |-> c, user |-> input[c].user, kind |-> input[c].kind, action |-> input[c].action,
     version |-> occurred[c], stats |-> pend[c].snapshot]

\* MUTANT: the outbox row is inserted outside the transaction.
EnqueueEvent_OutsideTx(c) ==
    /\ pc[c] = "enqueue"
    /\ outbox' = [outbox EXCEPT ![Video(c)] = Append(@, EventOf(c))]
    /\ Advance(c)
    /\ UNCHANGED <<input, clock, occurred, engagements, stats, engLock, statsLock, pend, reply>>

EnqueueEvent(c) ==
    /\ pc[c] = "enqueue"
    /\ pend' = [pend EXCEPT ![c].event = EventOf(c)]
    /\ Advance(c)
    /\ UNCHANGED <<input, clock, occurred, engagements, stats, outbox, engLock, statsLock, reply>>

ReleaseLocks(c) ==
    /\ engLock' = [k \in Keys |-> IF engLock[k] = c THEN None ELSE engLock[k]]
    /\ statsLock' = [v \in Videos |-> IF statsLock[v] = c THEN None ELSE statsLock[v]]

\* The three tables change together.  The call goes on, or its connection
\* fails after the server committed and before the service knew of it.
Commit(c) ==
    /\ pc[c] = "commit"
    /\ engagements' = [engagements EXCEPT ![Key(c)] =
                         IF pend[c].row = "unwritten" THEN @ ELSE pend[c].row]
    /\ stats' = [stats EXCEPT ![Video(c)] = pend[c].stats]
    /\ outbox' = [outbox EXCEPT ![Video(c)] =
                    IF pend[c].event = None THEN @ ELSE Append(@, pend[c].event)]
    /\ ReleaseLocks(c)
    /\ \E next \in {"readLike", "unanswered"} : pc' = [pc EXCEPT ![c] = next]
    /\ UNCHANGED <<input, clock, occurred, pend, reply>>

\* Any statement can fail (lock_timeout, the 5 s command timeout, a broken
\* connection, the process ending): the transaction is rolled back.
Rollback(c) ==
    /\ pc[c] \in InTx
    /\ ReleaseLocks(c)
    /\ pend' = [pend EXCEPT ![c] = NoWrites]
    /\ pc' = [pc EXCEPT ![c] = "rejected"]
    /\ UNCHANGED <<input, clock, occurred, engagements, stats, outbox, reply>>

-------------------------------------------------------------------------------
(***************************************************************************)
(* The response: three reads of committed rows, one after the other.       *)
(***************************************************************************)

\* MUTANT: HasLiked without looking at deleted_at.
IsSet_RowExists(c, kind) == engagements[<<input[c].user, input[c].video, kind>>] # "absent"

IsSet(c, kind) == engagements[<<input[c].user, input[c].video, kind>>] = "active"

ReadFavorite(c, kind, from, to) ==
    /\ pc[c] = from
    /\ reply' = [reply EXCEPT ![c].favorite[kind] = IsSet(c, kind)]
    /\ pc' = [pc EXCEPT ![c] = to]
    /\ UNCHANGED <<input, clock, occurred, engagements, stats, outbox, engLock, statsLock, pend>>

ReadLike(c) == ReadFavorite(c, "like", "readLike", "readBookmark")
ReadBookmark(c) == ReadFavorite(c, "bookmark", "readBookmark", "readStats")

\* MUTANT: a read that fails is answered with no statistics at all.
ReadStats_Nil(c) ==
    /\ pc[c] = "readStats"
    /\ reply' = [reply EXCEPT ![c].stats = None]
    /\ pc' = [pc EXCEPT ![c] = "answered"]
    /\ UNCHANGED <<input, clock, occurred, engagements, stats, outbox, engLock, statsLock, pend>>

\* MUTANT: the statistics come from a replica that lags behind.
ReadStats_Replica(c) ==
    /\ pc[c] = "readStats"
    /\ \E i \in DOMAIN outbox[Video(c)] :
         reply' = [reply EXCEPT ![c].stats = outbox[Video(c)][i].stats]
    /\ pc' = [pc EXCEPT ![c] = "answered"]
    /\ UNCHANGED <<input, clock, occurred, engagements, stats, outbox, engLock, statsLock, pend>>

\* The mutation of the call has made the statistics row by now: there is one.
ReadStats(c) ==
    /\ pc[c] = "readStats"
    /\ reply' = [reply EXCEPT ![c].stats = stats[Video(c)]]
    /\ pc' = [pc EXCEPT ![c] = "answered"]
    /\ UNCHANGED <<input, clock, occurred, engagements, stats, outbox, engLock, statsLock, pend>>

\* A failed read is answered with an error although the mutation is in.
ReadFails(c) ==
    /\ pc[c] \in Responding
    /\ pc' = [pc EXCEPT ![c] = "unanswered"]
    /\ UNCHANGED <<input, clock, occurred, engagements, stats, outbox, engLock, statsLock, pend, reply>>

-------------------------------------------------------------------------------
Init ==
    /\ input \in [Calls -> Inputs]
    /\ pc = [c \in Calls |-> "begin"]
    /\ clock = 0
    /\ occurred = [c \in Calls |-> 0]
    /\ engagements = [k \in Keys |-> "absent"]
    /\ stats = [v \in Videos |-> ZeroStats]
    /\ outbox = [v \in Videos |-> <<>>]
    /\ engLock = [k \in Keys |-> None]
    /\ statsLock = [v \in Videos |-> None]
    /\ pend = [c \in Calls |-> NoWrites]
    /\ reply = [c \in Calls |-> [favorite |-> [k \in Kinds |-> FALSE], stats |-> ZeroStats]]

\* What a call does when nothing fails.
Proceed(c) ==
    \/ Begin(c) \/ UpsertEngagement(c) \/ SoftDeleteEngagement(c) \/ BumpStats(c)
    \/ FetchStats(c) \/ EnqueueEvent(c) \/ Commit(c)
    \/ ReadLike(c) \/ ReadBookmark(c) \/ ReadStats(c)

Done == (\A c \in Calls : pc[c] \in Ended) /\ UNCHANGED vars

Next == (\E c \in Calls : Proceed(c) \/ Rollback(c) \/ ReadFails(c)) \/ Done

Spec == Init /\ [][Next]_vars

-------------------------------------------------------------------------------
TypeOK ==
    /\ input \in [Calls -> Inputs]
    /\ pc \in [Calls -> {"begin", "rejected"} \cup InTx \cup Committed]
    /\ clock \in Nat
    /\ occurred \in [Calls -> Nat]
    /\ engagements \in [Keys -> {"absent", "active", "deleted"}]
    /\ stats \in [Videos -> StatsRows]
    /\ outbox \in [Videos -> Seq(Events)]
    /\ engLock \in [Keys -> Calls \cup {None}]
    /\ statsLock \in [Videos -> Calls \cup {None}]
    /\ pend \in [Calls -> Pending]
    /\ reply \in [Calls -> Replies]

\* The statistics after the first i events of a video.
StatsAfter(v, i) == IF i = 0 THEN ZeroStats ELSE outbox[v][i].stats

\* Every event carries the statistics of the event before it plus its own
\* delta, and the statistics row is what the last event says: however the
\* transactions interleave, a consumer that applies the events of a video in
\* order sees each counter value once, in order, and never a nil snapshot.
SnapshotsFormAChain ==
    \A v \in Videos :
        /\ \A i \in 1 .. Len(outbox[v]) :
              outbox[v][i].stats = Increment(StatsAfter(v, i - 1),
                                             EngagementDelta(outbox[v][i].kind, outbox[v][i].action))
        /\ stats[v] = StatsAfter(v, Len(outbox[v]))

\* Why the chain holds: from the statistics statement to the end of the
\* transaction the call holds the row, so what it is about to write stays the
\* committed row plus its delta, and the event carries that same row.
AddsUnderLock(c) ==
    /\ pc[c] \in {"fetch", "enqueue", "commit", "doomed"} =>
          /\ statsLock[Video(c)] = c
          /\ pend[c].stats = Increment(stats[Video(c)],
                                       EngagementDelta(input[c].kind, input[c].action))
    /\ pc[c] \in {"enqueue", "commit"} => pend[c].snapshot = pend[c].stats
    /\ pc[c] = "commit" => pend[c].event = EventOf(c)
AddedUnderLock == \A c \in Calls : AddsUnderLock(c)

\* What a call that has run its statement on the engagement row will write: an
\* Add sets the row, a Remove marks a row it found, and changes none otherwise.
MarksRow(c) ==
    /\ pc[c] \in {"begin", "engage"} => pend[c].row = "unwritten"
    /\ pc[c] \in {"bump", "fetch", "enqueue", "commit", "doomed"} =>
          /\ input[c].action = "add" => pend[c].row = "active"
          /\ input[c].action = "remove" =>
                \/ pend[c].row = "unwritten"
                \/ pend[c].row = "deleted" /\ engagements[Key(c)] # "absent"
RowsMarked == \A c \in Calls : MarksRow(c)

EventsOfKey(k) == {i \in DOMAIN outbox[k[2]] : /\ outbox[k[2]][i].user = k[1]
                                               /\ outbox[k[2]][i].kind = k[3]}
IsLast(k, i) == i \in EventsOfKey(k) /\ \A j \in EventsOfKey(k) : j <= i

\* The rows against the event log: a favorite whose last event is an Add is
\* set, a deleted one has a Remove as its last event, and a row exists exactly
\* when some Add was committed.  (A set row may still have a Remove as its
\* last event: one that ran when the row was not there yet.)
RowsFollowEvents ==
    \A k \in Keys :
        /\ (engagements[k] = "absent")
              <=> \A i \in EventsOfKey(k) : outbox[k[2]][i].action = "remove"
        /\ \A i \in DOMAIN outbox[k[2]] : IsLast(k, i) =>
              /\ outbox[k[2]][i].action = "add" => engagements[k] = "active"
              /\ engagements[k] = "deleted" => outbox[k[2]][i].action = "remove"

\* Atomicity of the mutation and its event: a call whose transaction committed
\* has exactly one event, which says what the call asked for, whatever the
\* client was told; a call that was rolled back left none.
OneEventPerCommittedCall ==
    /\ \A c \in Calls : pc[c] \in Committed =>
          \E i \in DOMAIN outbox[Video(c)] : outbox[Video(c)][i].call = c
    /\ \A v \in Videos : \A i \in DOMAIN outbox[v] :
          /\ LET e == outbox[v][i] IN
               /\ pc[e.call] \in Committed
               /\ input[e.call] = [user |-> e.user, video |-> v, kind |-> e.kind, action |-> e.action]
          /\ \A j \in DOMAIN outbox[v] : outbox[v][i].call = outbox[v][j].call => i = j

\* The position of the event of a committed call in the log of its video.
EventsOfCall(c) == {i \in DOMAIN outbox[Video(c)] : outbox[Video(c)][i].call = c}
Own(c) == CHOOSE i \in EventsOfCall(c) : TRUE
LaterEvent(c, action) ==
    \E j \in EventsOfKey(Key(c)) : j > Own(c) /\ outbox[Video(c)][j].action = action

\* What the answer says of the row the call is about, against what it asked for.
Reflects(c) ==
    LET set == reply[c].favorite[input[c].kind] IN
    /\ input[c].action = "add" /\ ~set => LaterEvent(c, "remove")
    /\ pend[c].row = "deleted" /\ set => LaterEvent(c, "add")

\* Read your writes, although the response is read after the transaction: the
\* state in the answer is the one the call asked for unless an opposite
\* mutation of the same key committed later.  For a Remove this needs the row
\* to have been there when the statement ran.
AnswerReflectsMutation == \A c \in Calls : pc[c] = "answered" => Reflects(c)

\* Why: a row that was set before is only deleted by a later Remove, and one that
\* a Remove has marked is only set again by a later Add; and what the call reads
\* first stays true of the log while it reads on.
Undone(k, i, action) ==
    \E j \in EventsOfKey(k) : j > i /\ outbox[k[2]][j].action = action
RowsUndoneInTurn ==
    \A k \in Keys : \A i \in EventsOfKey(k) :
        LET e == outbox[k[2]][i] IN
        /\ engagements[k] = "deleted" /\ e.action = "add" => Undone(k, i, "remove")
        /\ engagements[k] = "active" /\ pend[e.call].row = "deleted" => Undone(k, i, "add")
HasReadIts(c) ==
    pc[c] \in {"readStats", "answered"} \cup (IF input[c].kind = "like" THEN {"readBookmark"} ELSE {})
ReadsReflect == \A c \in Calls : HasReadIts(c) => Reflects(c)

\* The statistics in the answer are those of one moment, not older than the
\* call's own mutation.
AnswerStatsNotOlder ==
    \A c \in Calls : pc[c] = "answered" =>
        \E i \in Own(c) .. Len(outbox[Video(c)]) : reply[c].stats = outbox[Video(c)][i].stats

\* Call c waits for a row lock that d holds.
WaitsFor(c, d) ==
    /\ c # d
    /\ \/ /\ pc[c] = "engage"
          /\ input[c].action = "remove" => engagements[Key(c)] # "absent"
          /\ engLock[Key(c)] = d
       \/ pc[c] = "bump" /\ statsLock[Video(c)] = d

\* Who can hold a lock: the engagement row is held past its statement, the
\* statistics row past its own.
LocksHeldInTurn ==
    /\ \A k \in Keys : engLock[k] # None => pc[engLock[k]] \in InTx \ {"engage"}
    /\ \A v \in Videos : statsLock[v] # None => pc[statsLock[v]] \in InTx \ {"engage", "bump"}

\* No set of calls waits on itself: both branches take the engagement row
\* before the statistics row.  (Every group has a member that waits for nobody
\* in it.)
NoLockCycle ==
    \A S \in SUBSET Calls : S # {} => \E c \in S : \A d \in S : ~WaitsFor(c, d)

\* Seen through its statistics rows and its outbox, the service is a ledger:
\* every mutation that commits is one atomic posting.
Posting(e) == [kind |-> e.kind, action |-> e.action, stats |-> e.stats]
Postings(log) == [i \in 1 .. Len(log) |-> Posting(log[i])]
Ledger == INSTANCE StatsLedger WITH ledger <- [v \in Videos |-> Postings(outbox[v])]
ImplementsLedger == Ledger!Spec

-------------------------------------------------------------------------------
(***************************************************************************)
(* What the documents say and the code does not do.                        *)
(***************************************************************************)

\* migrations/101_create_profile_schema.sql calls like_count the total of the
\* likes: for every video, the number of users whose like is set.
LikeCountIsNumberOfLikes ==
    \A v \in Videos :
        stats[v]["like"] = Cardinality({u \in Users : engagements[<<u, v, "like">>] = "active"})

\* VersionFromTime promises versions that only grow: the events of a video,
\* in the order in which they took effect.
VersionsOnlyGrow ==
    \A v \in Videos : \A i, j \in DOMAIN outbox[v] :
        i < j => outbox[v][i].version < outbox[v][j].version

===============================================================================
