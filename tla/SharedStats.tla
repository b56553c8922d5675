------------------------------ MODULE SharedStats ------------------------------
(***************************************************************************)
(* The callers of one database together: the favorite mutations            *)
(* (Engagement), the progress reports (WatchHistory) and a reader          *)
(* (BatchQueryFavorite) meet in the statistics rows and in the connection  *)
(* pool.  The mutations and the reports add to different counters of the   *)
(* same row, under the same lock; every transaction keeps one connection   *)
(* from its first statement to its end, and every statement outside a      *)
(* transaction takes one for itself.                                       *)
(***************************************************************************)
EXTENDS VideoStats, FiniteSets, Sequences

CONSTANTS Mutations, Reports,  \* the calls of either kind
          Users, Videos, ClientTimes, Ratios, Totals, None,
          Reader,              \* the user who asks for his favorites
          Batch,               \* the videos he asks about, in order
          PoolSize             \* max_open_conns

VARIABLES stats, statsLock,                                        \* shared
          counted,  \* the videos that have a statistics row
          favInput, favPc, clock, occurred, engagements, favOutbox,
          engLock, favPend, favReply,                              \* Engagement
          watchInput, watchPc, logs, below, watchOutbox, logLock, existing,
          watchPend, watchReply, overtaken,                        \* WatchHistory
          query,    \* where the reader is
          done,     \* how many of his reads are done
          summary,  \* what he has read, per video
          asked     \* the events there were when he asked, per video

favVars == <<favInput, favPc, clock, occurred, engagements, favOutbox, engLock, favPend, favReply>>
watchVars == <<watchInput, watchPc, logs, below, watchOutbox, logLock, existing, watchPend, watchReply,
               overtaken>>
queryVars == <<query, done, summary, asked>>
vars == <<stats, statsLock, counted, favVars, watchVars, queryVars>>

E == INSTANCE Engagement WITH
        Calls <- Mutations, input <- favInput, pc <- favPc, outbox <- favOutbox,
        pend <- favPend, reply <- favReply
W == INSTANCE WatchHistory WITH
        Calls <- Reports, input <- watchInput, pc <- watchPc, outbox <- watchOutbox,
        pend <- watchPend, reply <- watchReply

ASSUME SharedAssumption ==
    /\ PoolSize \in Nat \ {0} /\ Mutations \cap Reports = {}
    /\ Reader \in Users /\ Batch \in Seq(Videos)
    /\ IsFiniteSet(Users)
    /\ ClientTimes \subseteq Nat /\ Ratios \subseteq Nat /\ Totals \subseteq Int
    /\ None \notin Mutations \cup Reports \cup StatsRows \cup E!Events \cup W!Rows \cup W!Events

-------------------------------------------------------------------------------
(***************************************************************************)
(* The connection pool.                                                    *)
(***************************************************************************)

InUse == Cardinality({c \in Mutations : favPc[c] \in E!InTx})
         + Cardinality({c \in Reports : watchPc[c] \in W!InTx \ {"load"}})

\* MUTANT: the statistics of the event are read on the pool.
OutsideTx_FetchToo(statement) ==
    statement \in {"begin", "load", "fetch", "readLike", "readBookmark", "readStats"}

\* The statements that wait for a connection: the first of a transaction, and
\* those that run on the pool.
OutsideTx(statement) ==
    statement \in {"begin", "load", "readLike", "readBookmark", "readStats"}

Connected(statement) == OutsideTx(statement) => InUse < PoolSize

\* The commit of a mutation leaves its video with a statistics row.
MutationProceeds(c) ==
    /\ Connected(favPc[c])
    /\ E!Proceed(c)
    /\ counted' = counted \cup {v \in Videos : favOutbox'[v] # favOutbox[v]}
    /\ UNCHANGED <<watchVars, queryVars>>

\* A failed statement, a timeout that strikes while a call waits for a
\* connection among them.
MutationFails(c) == (E!Rollback(c) \/ E!ReadFails(c)) /\ UNCHANGED <<counted, watchVars, queryVars>>

ReportProceeds(c) ==
    /\ Connected(watchPc[c])
    /\ W!Proceed(c)
    /\ UNCHANGED <<favVars, queryVars>>

ReportFails(c) == (W!Rollback(c) \/ W!ReadFails(c)) /\ UNCHANGED <<favVars, queryVars>>

-------------------------------------------------------------------------------
(***************************************************************************)
(* BatchQueryFavorite with include_stats.  Each read is a statement of its *)
(* own on the pool.  A video without a statistics row is answered without  *)
(* statistics.                                                             *)
(***************************************************************************)

StatsRead == <<[of |-> "stats", video |-> None]>>
StateReads == [k \in 1 .. 2 * Len(Batch) |-> [of |-> IF k % 2 = 1 THEN "like" ELSE "bookmark",
                                               video |-> Batch[(k + 1) \div 2]]]

\* MUTANT: the states are read before the statistics.
Reads_StatsLast == StateReads \o StatsRead

\* All the statistics in one statement, then for one video after the other the
\* like and the bookmark.
Reads == StatsRead \o StateReads

Ask ==
    /\ query = "asking"
    /\ query' = "reading"
    /\ asked' = [v \in Videos |-> Len(favOutbox[v])]
    /\ UNCHANGED <<stats, statsLock, counted, favVars, watchVars, done, summary>>

ReadNext ==
    /\ query = "reading" /\ InUse < PoolSize
    /\ LET read == Reads[done + 1]
           isSet(v) == engagements[<<Reader, v, read.of>>] = "active" IN
       summary' = IF read.of = "stats"
                  THEN [v \in Videos |->
                          [summary[v] EXCEPT !.stats = IF v \in counted THEN stats[v] ELSE None]]
                  ELSE [summary EXCEPT ![read.video].favorite[read.of] = isSet(read.video)]
    /\ done' = done + 1
    /\ query' = IF done' = Len(Reads) THEN "answered" ELSE "reading"
    /\ UNCHANGED <<stats, statsLock, counted, favVars, watchVars, asked>>

\* One read that fails fails the whole query.
QueryFails ==
    /\ query = "reading"
    /\ query' = "failed"
    /\ UNCHANGED <<stats, statsLock, counted, favVars, watchVars, done, summary, asked>>

-------------------------------------------------------------------------------
Init ==
    /\ E!Init /\ W!Init
    /\ query = "asking" /\ done = 0
    /\ summary = [v \in Videos |-> [stats |-> None, favorite |-> [k \in Kinds |-> FALSE]]]
    /\ asked = [v \in Videos |-> 0]

Ended ==
    /\ \A c \in Mutations : favPc[c] \in E!Ended
    /\ \A c \in Reports : watchPc[c] \in W!Ended
    /\ query \in {"answered", "failed"}
Done == Ended /\ UNCHANGED vars

Next ==
    \/ \E c \in Mutations : MutationProceeds(c) \/ MutationFails(c)
    \/ \E c \in Reports : ReportProceeds(c) \/ ReportFails(c)
    \/ Ask \/ ReadNext \/ QueryFails
    \/ Done

Spec == Init /\ [][Next]_vars

\* As long as anybody can go on, somebody does: the scheduling of goroutines
\* and of waiters asks for no more.  No timeout is assumed to strike.
Progress ==
    \/ \E c \in Mutations : MutationProceeds(c) \/ (favPc[c] = "doomed" /\ MutationFails(c))
    \/ \E c \in Reports : ReportProceeds(c)
    \/ Ask \/ ReadNext
Fairness == WF_vars(Progress)
FairSpec == Spec /\ Fairness

-------------------------------------------------------------------------------
\* The likes (or bookmarks) the first i events of a video add up to.
Posted(v, kind, i) ==
    LET events(action) == {j \in 1 .. i : favOutbox[v][j].kind = kind /\ favOutbox[v][j].action = action}
    IN  Cardinality(events("add")) - Cardinality(events("remove"))

\* The additions of the two services do not disturb each other.  The row is the
\* sum of what both committed; an event of a mutation carries the sum of the
\* mutations up to it, together with seconds that no later event and no later
\* row takes back.
StatsAreSums ==
    \A v \in Videos :
        /\ \A kind \in Kinds : stats[v][kind] = Posted(v, kind, Len(favOutbox[v]))
        /\ \A i \in DOMAIN favOutbox[v] :
             LET row == favOutbox[v][i].stats IN
             /\ \A kind \in Kinds : row[kind] = Posted(v, kind, i)
             /\ \A j \in i .. Len(favOutbox[v]) : row["seconds"] <= favOutbox[v][j].stats["seconds"]
             /\ row["seconds"] <= stats[v]["seconds"]
        /\ W!SecondsAgree /\ W!WatchersExactUnlessOvertaken

ActionsOf(v, kind, i) ==
    {favOutbox[v][j].action : j \in {j \in 1 .. i : /\ favOutbox[v][j].user = Reader
                                                    /\ favOutbox[v][j].kind = kind}}

\* A batch answer joins statistics and states of different moments.  Still the
\* statistics of a video are those of one moment, no older than the question,
\* and the state is no older than the statistics: a like of the reader that
\* they count is shown, unless he took it back.  An answer without statistics
\* is of a moment before the first event of the video.
BatchNotOlder ==
    query = "answered" =>
        \A v \in {Batch[i] : i \in DOMAIN Batch} :
            \E i \in asked[v] .. Len(favOutbox[v]) : \A kind \in Kinds :
                /\ IF summary[v].stats = None THEN i = 0
                   ELSE summary[v].stats[kind] = Posted(v, kind, i)
                /\ "add" \in ActionsOf(v, kind, i) /\ ~summary[v].favorite[kind] =>
                      "remove" \in ActionsOf(v, kind, Len(favOutbox[v]))

\* However small the pool is, every call ends, without the help of a timeout:
\* whoever waits for a connection waits for transactions that need no second
\* one, and whoever waits for a row waits for a transaction that has its own.
EveryCallEnds == <>Ended
================================================================================
