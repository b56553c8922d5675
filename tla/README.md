# TLA+ models of the Profile service

Models, model-checking runs and machine-checked proofs about the Profile
service: user profiles and preferences, favorites, watch progress, video
statistics, and the projection of catalog videos. Everything is read off the Go
and SQL sources; the documents of the repository are only quoted where the code
does something else.

The service runs as three processes on one PostgreSQL database:

| process | source | what runs in it |
| --- | --- | --- |
| gRPC server | `cmd/grpc/main.go` | the handlers, one goroutine per call, and an embedded outbox publisher |
| outbox task | `cmd/tasks/outbox/main.go` | another outbox publisher |
| catalog inbox task | `cmd/tasks/catalog_inbox/main.go` | up to four concurrent handlers of catalog events |

They share no memory. All interaction goes through table rows, PostgreSQL row
locks under READ COMMITTED, and Pub/Sub messages. That is where the hard
behaviour is, and it is what the models are about.

## 1. Inventory

**Favorite mutation** (`engagement_service.go`, `profile_engagements_repo.go`,
`profile_handler.go`). State: `profile.engagements`, a row per user, video and
kind, with `deleted_at`. Operation: `MutateFavorite` = one transaction (write
the engagement row, add to the statistics row, read it back, insert an outbox
row), then three reads for the response, outside the transaction. Hard: the
statements of different calls interleave; each transaction holds two row locks;
any statement may fail; the read-back only logs its error; the client may lose
the answer of a commit and repeat the call. Correct when: events, statistics
and rows tell the same story in the same order; a mutation and its event are in
or out together; no deadlock; the answer does not contradict what was done.

**Video statistics** (`profile_video_stats_repo.go`, `video_stats_service.go`).
State: `profile.video_stats`, four counters per video, shared by favorite
mutation and watch progress. Operations: an additive upsert, reads. Correct
when: no addition of either caller is lost or doubled, and no mix of callers waits
for ever, for the row or for a connection of the pool.

**User profile** (`profile_service.go`, `profile_users_repo.go`). State:
`profile.users` with `profile_version`. Operations: `UpdateProfile`,
`UpdatePreferences`, `GetProfile`. Each update loads the row without a lock,
compares an optional expected version, and overwrites every column by an upsert.
Before that the handler finds out whose profile is meant, and turns the message and
its update mask into what is to be changed (`profile_handler.go`).
Correct when: what is committed is the caller's change on a row that was there,
an update changes what its mask names and nothing else, and refused or failed
calls leave no trace. (What the documents want, that a stale
version never overwrites, does not hold: section 5.)

**Watch progress** (`watch_history_service.go`, `profile_watch_logs_repo.go`).
State: `profile.watch_logs`, a row per user and video. Operation:
`UpsertWatchProgress` = one transaction (load the row, upsert it, read it back,
add seconds and watchers to the statistics, perhaps insert an event), then a
read of the statistics. Hard: what is added is computed from the row as it was
before the upsert waited; nothing refuses a count below zero; a report may leave the
video without a statistics row. Correct when: seconds in the logs and in the
statistics agree; seconds never shrink; events of a viewer are in order; the two
halves of an answer, one of which may be missing, fit.

**Catalog inbox** (`internal/tasks/catalog_inbox`, `inbox_repo.go`). State:
`profile.videos_projection` with a version per video, `profile.inbox_events`,
and the subscription with its ordering key and dead-letter topic. Operations:
handling of created, updated, deleted, other and malformed events. Hard:
at-least-once delivery, several handlers at once, crashes between commit and
acknowledgement, events without a version, a message that no handler can make
anything of, an event that goes to the dead letters with others behind it. Correct
when: the projection is what the catalog said, whatever is repeated or interrupted,
and every event is processed or given up for a reason.

**Outbox publisher** (`outbox_repo.go`, `internal/tasks/outbox`). State:
`profile.outbox_events` with lease token, attempts and `available_at`.
Operations: claim, publish, mark published, reschedule. Hard: two processes with
four workers each, expiring leases (a full batch of 100 events with a publish
timeout of 10 s on 4 workers can outlast the lease of 120 s), crash between
publish and mark, order per video, `available_at` taken from a time the client
may state. Correct when: no committed event is lost, an event is sent again only
after a fault, and a publisher that lost its lease changes nothing.

**List and batch reads** (`profile_handler.go`: `ListFavorites`, `ListWatchHistory`,
`BatchQueryFavorite`). State: none; a page token is an offset into a list that the
same user's other calls change. A page joins the videos of a second query to the
items of the first; a batch answer joins states and statistics of several queries.
Correct when: a client that follows the tokens misses or repeats an item only
because of a change in between, and the parts of an answer fit together.

**Configuration loading** (`internal/infrastructure/configloader`). State: none; a
function of the flag, the environment, `.env` files and the YAML file. Hard: the
order of precedence, sections that are missing, defaults that are filled in two
places, two timeouts that end the same request, entries picked from a map. Correct
when: what was written is what runs.

**Process lifecycle** (`cmd/*/main.go` and the generated injectors). State: the
components that are open, the worker, the server. Hard: a constructor that fails
halfway, a signal at any moment, the cleanup included, a worker that outlives its
context, requests in flight. Correct when: nothing is closed under its user, nothing
stays open, and a program that is told to stop ends.

**Handler metadata and timeouts** (`base_handler.go`, `metadata_helpers.go`): whose
request it is, and its deadline; in the modules of the profile and of the
configuration. **Data conversion, metrics, protobuf code, purge**: section 7.

The complete list of what is hard to test, line by line, is under `hazards` in
`PROJECT.json`.

## 2. Modules

| module | models | state |
| --- | --- | --- |
| `VideoStats` | the statistics row and its additive upsert | none: operators |
| `StatsLedger` | abstract: each mutation is one atomic posting of a ledger | `stats`, `ledger` |
| `Engagement` | `MutateFavorite`, statement by statement | tables, locks, pending writes, replies |
| `WatchHistory` | `UpsertWatchProgress`, statement by statement | tables, locks, loaded rows, pending writes |
| `SharedStats` | instances of `Engagement` and `WatchHistory` on one statistics row and one connection pool, and `BatchQueryFavorite` | both, and what the query has read |
| `ProfileUsers` | the transactions of `UpdateProfile` and `UpdatePreferences` on one user's row | row, lock, what each call loaded, history of commits |
| `ProfileApi` | the handlers in front of it: user, mask, answer | the requests |
| `CatalogInbox` | the inbox task, its subscription and the catalog that publishes | topic, deliveries, acknowledged and dead-lettered messages, processed events, projection, jobs |
| `CatalogReplica` | abstract: each video's replica takes the events of the catalog in order, each once and whole, except those that are skipped | `taken`, `skipped`, `projection` |
| `ListPages` | a reading of favorites or of the watch history, page by page | rows, projections, offset, items answered, changes since |
| `OutboxPublisher` | the publishers between `outbox_events` and the topic | rows, leases, batches, copies at the broker |
| `ServiceConfig` | the configuration, from the files to the settings of the components | none: operators |
| `ServiceProcess` | one process of any of the three programs, from start to end | open components, worker, server, request |
| `EngagementProofs`, `WatchHistoryProofs`, `SharedStatsProofs`, `ProfileUsersProofs`, `CatalogInboxProofs`, `ListPagesProofs`, `OutboxPublisherProofs`, `ServiceProcessProofs` | theorems | |
| `MC...` | instances of these for TLC | |

How state and actions correspond to the code:

* **A statement is an action.** `pc[c]` is the next statement of call `c`. A
  statement that writes a row is enabled when no other transaction holds the
  row's lock, and holds it until commit or rollback. A plain SELECT takes no
  lock and sees the committed table and the call's own writes. So `BumpStats`
  is `UPSERT ... SET x = x + n`: it waits for the row and adds to the newest
  committed value, while `ProfileUsers!Upsert` waits and then writes values
  computed from a row read earlier.
* **Uncommitted writes** are in `pend[c]`. `Commit` moves them to the tables in
  one step and picks whether the acknowledgement reaches the service.
  `Rollback` is enabled at every statement: lock timeout, the 5 s command
  timeout, a broken connection and the end of the process all end there.
* **UPDATE of a missing row** changes nothing, locks nothing and succeeds
  (`SoftDeleteEngagement`); **a failed SELECT whose error is only logged** dooms
  the transaction, because PostgreSQL refuses its next statement (`FetchStats`).
* **Composition.** `SharedStats` instantiates the two modules over one `stats` and
  one `statsLock`. A transaction keeps a connection from its first statement to its
  end, every statement outside a transaction needs one for itself (`OutsideTx`).
  `BatchQueryFavorite` reads all statistics in one statement, then the states one by
  one.
* **History.** `outbox` in `Engagement` and `WatchHistory` is the order of
  commits of one video. `history` and `seen` in `ProfileUsers`, `overtaken`
  and `below` in `WatchHistory`, `asked` in `SharedStats`, are not in the code: they
  record the past so that properties can speak of it, and no guard reads them.
* **A missing statistics row.** `stats` is zero until the first upsert, and the
  additive upsert cannot tell the two apart; the answer of `UpsertWatchProgress`
  can. `counted` is the set of videos that have the row; without it the handler
  answers no statistics (`profile_handler.go:359`, `602`). The mutations of
  `Engagement` always make the row before they read it.
* **Retries of a client** need no action: no layer of the service recognises a
  repeated call (the idempotency header is parsed and never used), so a retry
  is another call with the same input.
* **Data.** In `ProfileUsers` a value is the name of the call that wrote it, in
  `CatalogInbox` the position of the event that set it, 0 for an unset column.
  In `WatchHistory` a ratio is a whole percentage; a rise of exactly five
  percent may or may not be told, since the code subtracts doubles. Totals are
  integers: nobody checks them (`watch_history_service.go:187`). In `Engagement` an
  event keeps the version it is encoded with; the outbox row has no such column.
* **Requests.** In `ProfileApi` a request is its mask, the fields it gives, the
  keys of `extra` (which may name the two preferences that have a field of their
  own), the user it states and the claims of the caller.
* **Offset pages.** `ReadItems` is one SELECT with LIMIT one above the page size,
  and OFFSET; `ReadVideos` is the lookup of the videos of that page, and `Project`
  is the inbox at work in between. `Results` are all orders the query allows:
  favorites are ordered by `created_at` alone, so the database may break ties
  differently for each page. An item of favorites is an engagement row (video and
  kind). `first`, `touched`, `shrunk` and `grown` record the past. The token of the
  next page is the number of items answered so far, so one sequence, `answered`, holds
  all pages.
* **Leases.** `ClaimPending` gives a batch of rows one token that is in no row and
  with no publisher. Each event of the batch goes its own way, send, mark or
  reschedule, since several goroutines work on a batch. `Stop` drops the batch
  where it is, which covers a shutdown and a crash. Time is `Expire` (`lock_ttl` is
  over) and `BecomeDue` (`available_at` has come); an `Expire` under a publisher
  still at work is a fault.
* **The outbox runner** is external. From the signatures the
  service wraps (`outbox_repo.go`: claim with a staleness limit and a lock token,
  mark and reschedule with the lock token), the table, and the integration tests:
  a reschedule and a mark each count an attempt, and a rescheduled event can be
  claimed again when it is due.
* **The inbox runner, the subscription and the transaction manager** are
  external too. From their use: record the event, run the handler and mark
  the event processed in one transaction; acknowledge after the commit; redeliver
  on failure. With an ordering key one message of a video is outstanding at a
  time, the oldest first (`docs/pubsub-conventions.md:139`); the videos in `Keyed`
  have one. A message that came back `MaxAttempts` times goes to the dead-letter
  topic, and those behind it pass
  (`docs/pubsub-conventions.md:91`, `494`; `configs/config.yaml:141`): `DeadLetter`.
* **The handler of the inbox** returns every error alike: `Reject` rolls back and
  hands the message back, and only `DeadLetter` ends its redelivery. `Judge` reads the
  projection without a lock; `Upsert` waits for another writer of the row and
  overwrites it.
* **Processes.** `Steps` is the order of the generated injector; a constructor opens
  its component or fails, and then `Cleanups` are run, newest first. In the two
  tasks main runs the worker itself; in `cmd/grpc` it runs beside the server and
  `AfterStop` may or may not see it end, because the context it waits on has already
  ended. A signal that nobody takes kills the program where it is (`Killed`): during
  the start, and during the cleanup of a task, whose `stop()` is deferred last and so
  runs first. Kratos and the components are external.
* **Deadlines.** `grpc.timeout` bounds the context of every request (one second, the
  default of Kratos, where it is not written), and `WithTimeout` narrows it to the
  timeout of the handler: `Deadline` is the shorter of the two.

## 3. Runs

| run | expects | instance | question |
| --- | --- | --- | --- |
| `engagement_safety` | pass | 3 calls, 2 users, 1 video, both kinds, all inputs | do rows, statistics, events and answers agree under every interleaving and failure, and is the service a ledger? |
| `engagement_likes` | violation | 2 calls, 1 user | is `like_count` the number of likes? |
| `engagement_versions` | violation | 2 calls, 1 user | do event versions grow with the effects? |
| `profile` | pass | 3 calls, 11 accepted requests and 3 that are not | what exactly does the version check promise, and does an update change what its mask names? |
| `profile_version` | violation | 3 calls | does an update with an expected version replace that version? |
| `watch` | pass | 3 reports, 2 viewers, 1 video, ratios 2/30/35 %, totals -1, 1 and 2 | do logs, statistics, events and answers agree? |
| `watch_watchers` | violation | 2 reports, 1 viewer | is `unique_watchers` the number of viewers? |
| `shared_stats` | pass | 2 mutations, 1 report, 1 batch query, 2 connections | do the two writers of a statistics row disturb each other, does the batch answer fit together, does every call end? |
| `inbox` | pass | 2 workers, 2 videos (3 events with an ordering key, 1 without), one repeat of a message per video, 2 faults, 2 deliveries | is the projection a replay of the catalog, is every event processed or given up for a reason, and is the task a replica? |
| `list_pages` | pass | up to 3 items, pages of 1 and 2, 4 instants, 2 changes, both lists | what is a client promised that reads all pages? |
| `outbox` | pass | 2 publishers, 3 events, batches of up to 2, 2 faults | is no event lost, and are duplicates and stale publishers harmless? |
| `process` | pass | 3 programs, 28 hosts, one request at a time | is what is open usable, is all of it closed, are the settings those that were written, does a stop end? |

Bounds, and why they are enough to be interesting:

* Three calls give every pattern of two conflicting transactions and one that
  comes between or after them: the lost update needs two, the removal that finds
  no row while an insert is uncommitted needs two, a reader of a mixed response
  needs a third. Two users make calls that share the statistics row and not the
  engagement row. Videos share nothing, so one is enough except in the inbox,
  where workers are shared.
* In `shared_stats` one mutation is a like and the other takes it back or sets a
  bookmark (`FirstLikes` in `MCSharedStats`, which keeps the run short); two
  connections are fewer than the four callers, so that waiting for a connection
  and waiting for a row meet.
* The percentages lie below the threshold, above it, and one step of exactly
  five percent apart. Totals repeat, grow, shrink and begin below zero. The seconds of
  -1 and the 2 percent meet, so a video may have a log row and no statistics row.
  `shared_stats` has one report, of one second: what a count below zero does is the
  question of `watch`.
* The catalog of `inbox` has a creation, an event nobody can handle in the middle, and
  a deletion without a version; a second video, without an ordering key, is created.
  One message of each repeats an event (`MaxRepeats`): before, while or after the
  first is handled, acknowledged or given up. `MaxAttempts` is 2 for the five of
  `docs/pubsub-conventions.md:92`, and `MaxFaults` is 2, so that an event that is not
  broken can be given up too, and be processed late by its repetition.
* Two changes let an item leave and another come during one reading, or a video
  appear and change; three items
  on pages of one and two give readings of up to three pages, full and partial last
  ones. A page size of 0 and one above the maximum are both asked for.
* Two faults make the shortest story of a stale publisher that does harm: its lease
  ends while it works, another publishes the event, and the first one's failed
  message makes it reschedule. Three events with batches of two make a claim leave
  something behind.
* Each host of `process` leaves out or changes one thing of a complete
  configuration: a section, a timeout of the server below and above those of the
  handlers, a topic, a file, one that does not parse, the flag.
* Symmetry (calls) is used only in safety runs; nothing names one of them.

Deadlock is checked in every run. A stuttering step stands for the states in
which the program really rests: all calls have ended, all pages are read or the
process is over (`Done`), all messages are acknowledged or dead-lettered (`Idle`), all
events are published (`Quiet`).

**What the properties say.**

* `SnapshotsFormAChain`: each event carries the statistics of the event before
  it plus its own delta, and the row is the last of them. A consumer that
  applies the events in order sees each value once.
* `RowsFollowEvents`: a favorite whose last event is an Add is set, a deleted one
  has a Remove as its last event. The converse fails, and is not claimed: a
  Remove that runs while the first Add is uncommitted finds no row, leaves the
  favorite set, and its event may be the last.
* `OneEventPerCommittedCall`: mutation and event are in or out together,
  whatever the client was told.
* `AnswerReflectsMutation`, `AnswerStatsNotOlder`: read your writes, although
  the response is read after the transaction.
* `NoLockCycle`: no set of mutations waits on itself. `EveryCallEnds`: no call,
  of any kind, needs a timeout to end, however few connections there are.
* `ImplementsLedger`: refinement of `StatsLedger`.
* `StatsAreSums`: with both services writing, each counter is still the sum of what
  was committed for it, in the row and in every event. `BatchNotOlder`: a batch
  answer shows statistics of one moment after the question, and a like that they
  count is shown as set unless it was taken back.
* `RowsBuiltOnLoaded`: every committed profile is its caller's change on one
  whole row, the one that was current when the caller loaded; so updates are lost
  only between calls that overlap. `OneRowPerCommittedCall`: the same atomicity
  for profiles. `MaskConfines`: across all the calls that wrote the row, what a
  request is not about keeps its value, and what it gives under its mask shows.
* `SecondsAgree`: the seconds of a video are the sum of what its log rows have gained
  even when reports overlap, because both add the same difference in place. A row
  gains from zero, or from where it began: a first report below zero is stored as it
  is and not counted (`below`).
  `WatchersExactUnlessOvertaken`: the watcher counter is exact until a report
  commits over a row it had not loaded. `TotalsOnlyGrow`, `EventsInOrder`,
  `AnswerIsCoherent`: seconds are never taken back, events of a viewer are
  ordered and one per report, the two halves of an answer fit; an answer without
  statistics comes with a row that has no seconds and makes no watcher.
* `ProjectionIsReplay`: with an ordering key an event is processed after every
  earlier one that was not given up, and at every moment the projection of a video is
  the catalog after the events marked processed, those given up left out. Where an
  event was given up and is processed late all the same, because the catalog repeats
  it, that equality is not claimed: only `ImplementsReplica` speaks of it.
  `AckedIsProcessed`: no message is acknowledged without its event being processed.
  `ImplementsReplica`: refinement of `CatalogReplica`; each event is taken once and
  whole, onto the row that it was judged by, and passed only when it was given up.
  `EveryEventIsProcessed` (liveness): in the end an event is processed, or was given
  up because it is broken or because as many faults happened as it has deliveries;
  and this of every video, whatever another one's events are.
* `ShownUnlessShrunk`, `ShownOnceUnlessGrown`: an item that nobody touched during a
  reading is shown unless another one left the list or moved down, and once unless
  another one came in or moved up. These are the two errors of offset pages, and
  the properties say that there is no other. Where favorites are tied in
  `created_at` nothing is promised. `ShownInOrder`: newest first across pages.
  `ShownWithItsVideo`: the second query gives each item its own video, no older
  than the question, and no older than on an earlier page.
* `MarkedIsSent`: what is marked published, the broker has. `CopiesNeedFaults`: every
  copy beyond the first has a fault behind it. `TokensFence`: the
  lock token keeps out a publisher that was overtaken, from published events and from
  the lease of another.
  `EveryEventIsPublished` (liveness).
* `NeedsAreOpen`: what is open has what it was handed, and a request all it uses;
  so has the worker, except in `cmd/grpc` when main goes to its cleanup without
  having seen the worker end. `NothingLeftOpen`: main's way out closes everything
  once; only a signal that nobody listens for, the panic of `ProvideOutboxConfig` and
  the `os.Exit` of a task leave components open. `RuntimeAsWritten`: precedence
  (`EnvironmentWins`); no request lasts longer than a timeout that is written, of the
  server or of its handler, and if both are it is one of them (`DeadlinesAsWritten`);
  one schema for tables and outbox; the topic is an entry of the file as a whole, the
  one called default if there is one (`TopicAsWritten`), and a publisher runs only
  with a topic. `StopLeadsToEnd` (liveness).

**Fairness.** `SharedStats` assumes that as long as anybody can go on somebody does
(`WF` of the disjunction of all steps): weaker than fairness for each call, and
enough. It does not assume that a timeout or a failure ever happens. `CatalogInbox`
assumes the same of its handlers and the subscription together: as long as a handler
can go on or a message can be delivered or given up, something of that happens. It
does not assume that the catalog publishes, and a handler waits only for one that
goes on. `OutboxPublisher`
assumes that time passes, that a publisher
goes on and that one that stopped is started again. Faults are bounded in both,
which stands for "not forever". `ServiceProcess` assumes that main goes on, that
handlers meet their deadlines, that calls of the worker return, and, as strong
fairness, that a worker which is between two calls again and again sees in the end
that its context is over, as a loop does that selects on the context: the runners are
external, and that their `Run` ends with its context is what `main` relies on. No
signal, request or failure is assumed.

## 4. Proofs

Every invariant and every action property of a passing run, and both refinements, are
stated by a theorem. The proofs hold for any sets of calls, users, videos, workers,
requests and hosts and any stated times, versions, ratios and totals, totals below
zero included, under the named assumptions of the modules:

| assumption | what it says |
| --- | --- |
| `EngagementAssumption`, `ProfileAssumption`, `WatchAssumption` | the marker `None` is not a call, row or event; times, versions and ratios are naturals, totals integers; the users of `WatchHistory`, whose number is a counter, are finitely many |
| `SharedAssumption` | the same of both services together; mutations and reports are different calls; the batch is a sequence of videos |
| `RequestsAssumption` | a preferences request carries no profile field, one that gives preferences has the message for them, columns are not keys of `extra` |
| `CatalogAssumption` | a catalog starts with a creation or a broken event, has no other creation, and gives event i the version i or none; some videos have an ordering key; a message is delivered once at least |
| `ListAssumption` | items are finitely many numbers; the default page size is positive and not above the maximum |
| `OutboxAssumption` | publishers and events are finitely many, batches are not empty |
| `HostsAssumption` | files have the shape of the protobuf message, `None` is no section of it, and a `PORT` is text |

Batch and page sizes, repeats, changes and faults are bounded by constants of any
value.
The parts of the inductive invariants that are defined beside the properties in a
component's module, or in its module of proofs, were model-checked on the instance of
its run before they were proved.

`EngagementProofs`

* `TypeCorrect`: `TypeOK` is inductive.
* `SnapshotsCorrect`: `SnapshotsFormAChain` says nothing of calls in flight, so it
  is not inductive. The strengthening `AddedUnderLock` says that from its
  statistics statement to its end a transaction holds the row and its pending sum
  is still the committed row plus its delta; nobody else can change that row
  meanwhile. `Commit` then appends exactly the next link.
* `EventsAtomicWithCalls` (`OneEventPerCommittedCall`), from the same invariant:
  a call that reaches its commit has its event pending.
* `RowsFollowEventsCorrect`, from `RowsMarked`: what a call in flight has pending for
  its row follows from its action, and a Remove that found its row still finds it at
  its commit, because no step makes a row absent. `CommitExtendsKey` says which
  events of a key a commit adds.
* `AnswerStatsNotOlderCorrect`: the row that the response reads is the last link of
  the chain of `SnapshotsFormAChain`, and the event of a committed call has a place in
  that chain which no later step takes away (`CommittedKept`, `LogGrows`).
* `AnswerReflectsCorrect` (`AnswerReflectsMutation`) needs two facts the property does
  not state. `RowsUndoneInTurn`: a deleted row has a Remove after each of its Adds, and
  a set row an Add after each Remove that marked it. `ReadsReflect`: what a call has
  read is true of the log from the read on, not only in the answer; the log only grows
  (`UndoneKept`), so the later event it relies on stays.
* `EngagementImplementsLedger`: the initial states map to initial states; `Commit`
  maps to `Post`, every other step to a stutter (`OtherStepsKeepStats`), the
  lemma `PostingsAppend` moves the mapping through the append.
* `NoDeadlock` (`NoLockCycle`), from `LocksHeldInTurn`: an engagement row is held
  only past its statement and a statistics row only past its own, so a call that
  waits for a statistics row waits for one that waits for nothing, and a call
  that waits for an engagement row waits for one that is further on.

`WatchHistoryProofs`

* `LockInv` is the invariant: `TypeOK`; `WrittenUnderLock`, from the upsert to the
  end a call holds its log row and what it is about to write stays what the upsert
  made of the committed row; `AddedUnderLock`, the same for the statistics row if
  it has anything to add. `TypeOK` is not inductive alone: that a committed row is
  a row comes from `WrittenUnderLock`.
* `TotalsOnlyGrowCorrect`: a commit writes the committed total plus a difference
  that is never negative (`WrittenType`), however old the loaded row is.
* `EventsInOrderCorrect`: a commit appends the event of its own row, whose seconds
  are no fewer than those of every earlier event of the viewer.
* `WatchersExactCorrect`: a commit whose loaded row is still the committed one
  changes the set of watchers by exactly the viewer it judged (`WatchersChange`).
* `SecondsAgreeCorrect`: `SecondsInv` adds to `LockInv` that a row which a call has
  loaded is there to stay (`RowsStay`), and that no row has less than it began with
  (`GainsOnly`). So a call that found no row adds what its row has gained since it
  began, one that found a row adds the growth of the committed row, and `CommitGains`
  says that the row and the video gain alike. The sum over the rows is a fold over a
  set. What it adds up to is an induction over data; it goes by the smallest
  counterexample instead: `SmallestSubset` gives a smallest set for which a claim fails,
  and `SumsUnique`, `SumsExist` and `SumOfStep` make the recursion of the fold a fact,
  from which follow the sum when one member changes (`SumOfChange`), its bound and zero.
* `AnswerIsCoherentCorrect`: the answer's seconds are one summand of a sum that the
  answer's statistics had reached (`SecondsCover`). For an answer without statistics,
  `UncountedIsNothing`: while a video has no statistics row, no row of it has seconds
  or qualifies, because a report that would make one so has something to add
  (`NothingWritten`).

`CatalogInboxProofs`

* `IInv`: types; `TopicInOrder`, the topic repeats events and skips none;
  `JobsSound`, what is ready to be acknowledged is processed; `AckedIsProcessed`;
  `JobsInOrder`, of a video with an ordering key one worker at a time handles one
  message, every earlier event is processed or given up, and what it judged by is
  still the committed projection. Any number of videos may be without a key.
* `TypeCorrect` and `AckedIsProcessedCorrect` from it, with a key or without.
* `ProjectionIsReplayCorrect`: `JudgedByThePreceding` shows that applying an event to
  the catalog after some earlier ones gives the catalog after those and itself, for
  each kind of event. `CommitTakes` lifts it to the step: one video takes one event
  that it has not, onto the row it was judged by; `TakenInOrder` says that this event
  is later than all it has if none of them was given up. `Replayed` adds to the
  property that only events that can be handled are processed, and that a row has the
  version of one of them or none (`Versioned`, kept by `BecomesVersioned`), which is
  why the version never refuses an event that comes in order.
* `InboxImplementsReplica`: `CommitTakes` is the `Take` of `CatalogReplica`, a
  dead letter its `Skip` (`GivenUpKept`); no other step is visible (`OnlyCommits`).

`ProfileUsersProofs`

* `TypeCorrect`, with `RowReady`: a call at its commit has a row.
* `BuildOnLoadedCorrect`: each call in flight keeps the row it loaded, as it was
  at that position of the history, and its patch of it.
* `RowsAreBuiltOnLoaded` (`RowsBuiltOnLoaded`) and `AnswersMatchHistory`
  (`OneRowPerCommittedCall`), from it.
* `RequestsRunService`: `ProfileApi` runs `ProfileUsers` with the inputs that the
  handlers make of the requests, so the theorems above hold of it.
* `MaskConfinesCorrect`, from `RowsBuiltOnLoaded` and `Asked` (each call is given what
  its request says, for good): `SetsAbout` says, path by path of the mask, that what a
  request sets is what it is about and gives.

`OutboxPublisherProofs`

* `TypeCorrect`, with the bound on batches (`BatchShrinks`).
* `Leases`, the invariant behind the fencing: a publisher at work has a token, no
  two have the same, a row with a token waits to be published. `TokensFence`
  follows from it: `SettledStep` for what is published, `LeaseEndStep` for the leases.
* `MarkedIsSentCorrect`, from `SentBeforeMark`.
* `CopiesNeedFaultsCorrect`: the bound forgets what is still to be sent, so it is not
  inductive. `CopiesPaid` counts a publisher that is about to send as a copy; the
  one copy that costs no fault (`FreeCopy`) belongs to the publisher that works
  under a lease that is not over, and to the row once it is published.

`SharedStatsProofs`

* The two services are not proved again. With `favLocks` and `watchLocks`, the part of
  `statsLock` that its own calls hold, a step of a mutation is a step of `Engagement`
  (`MutationSteps`), a step of a report one of `WatchHistory` (`ReportSteps`), and the
  lemmas of the two modules are instantiated (`EP`, `WP`). What remains is what one
  service does to the invariant of the other: `MutationKeeps` and `ReportKeeps` rest on
  a holder of the row's lock being in one service only, and on a mutation leaving the
  seconds, a report the likes and bookmarks. `ServicesInv` is the result.
* `StatsAreSumsCorrect`: `AllSums` says of each event, not only of the row, that it is
  the sum of the events up to it; `PostedStep` adds one event to a sum.
* `BatchNotOlderCorrect`: `ReaderInv` says that what has been read so far fits the
  events up to some moment after the question (`SeenAt`), at every point between two
  reads. A state that is read as not set although the counter has its Add needs a
  later Remove, which `RowsFollowEvents` gives.

`ListPagesProofs`

* `TypeCorrect`, with `ReadInv`: a client that is not at the end is at the token
  that counts the items it was shown; a page that another one follows is full; a row
  nobody touched is as it was.
* `ShownWithItsVideoCorrect`, from `AskedInv`: projections only become newer.
* The offsets are reasoned about through the `Rank` of an item, the number of items
  ahead of it; `RankOfPosition` says that position k of any result holds rank k - 1, so
  a page holds the ranks from its token on, and all that follow if it is the last
  (`PageRanks`). A change that does not let an item come in or move up raises no rank
  (`RankNotUp`), one that does not let an item leave or move down lowers none
  (`RankNotDown`). Ties never go
  away (`TiesStay`), so a reading that ends without ties had none before.
* `ShownOnceCorrect` (`ShownOnceUnlessGrown`), from `OnceInv`: what was shown has a rank
  below the token. `ShownAllCorrect` (`ShownUnlessShrunk`), from `ReachInv`: what was not
  shown has a rank the token has not passed. `ShownInOrderCorrect`, from `OrderInv`:
  what was shown at position k has rank k - 1.

`ServiceProcessProofs`

* `NeedsAreOpenCorrect` and `NothingLeftOpenCorrect`: `OpenKept` says that what is open
  was opened once, after what it needs, and that what is left to close is the open
  components from the newest back, so that closing one takes the last away
  (`CloseNewest`). `StepsKept` ties the phase of main to the step of the injector;
  `UsersKept` says who may still be at work in which phase. `StepsOrdered` and
  `StepsSuffice` are what the three generated orders have in common.
* `RuntimeAsWrittenCorrect`: `ConfigKept` says that what runs is what `Load` made of the
  host, and that its topic is one that `PubSubConfigs` allows. The rest is about the
  functions of `ServiceConfig`: what the environment replaces (`Applied`), what each
  section of a file becomes (`Parsed`...), what the defaults leave of it (`Filled`),
  together `Configured`; which entry is picked (`TopicPicked`); and that the shorter
  of two timeouts ends a request, whichever of them is written (`DeadlinesKept`).

Only model-checked: liveness (`EveryCallEnds`, `EveryEventIsProcessed`,
`EveryEventIsPublished`, `StopLeadsToEnd`), since neither fairness nor `ENABLED` is in
the prover's reach. Client-stated times (`ClientTimes`) are empty in the runs and
arbitrary in the proofs.

## 5. Where the code and the documents disagree

* `engagement_likes`: a Remove without a like counts -1 and a repeated Add
  counts again, although the documents call the operation idempotent and the
  counter the number of likes.
* `engagement_versions`: event versions come from a clock read before the row
  locks, or from the client; they need not follow the order of the effects.
* `profile_version`: two updates with the same expected version can both
  succeed; the second overwrites the first.
* `watch_watchers`: two overlapping first reports of one viewer count as two
  watchers.

What the documents say of the consumer, where the code does something else, and what
`inbox` then shows of the code:

* `docs/pubsub-conventions.md:439-441` sorts the errors of a consumer: transient ones
  are to be retried, business errors acknowledged and logged, poison messages sent to
  the dead-letter topic by the consumer; lines 448-452 and 469-472 acknowledge the
  latter two. The handler has no such classes. A bad aggregate id
  (`handler.go:46`), a bad time (`handler.go:54`) and a missing payload
  (`handler.go:89`, `handler.go:116`) are returned like a lost connection, and the
  decoder's error too. So such a message is never acknowledged by the service:
  it comes back, with an ordering key before all later events of its video, until the
  subscription has delivered it five times and dead-letters it (`Reject`,
  `DeadLetter`). `AckedIsProcessed` holds of the code for that reason, and would not
  hold of a consumer as documented; that an event can be acknowledged and not
  processed is what lines 469-472 ask for.
* `docs/pubsub-conventions.md:383-395` keeps older versions out by a condition of the
  UPDATE, "AND version < $4". The code compares versions in the handler, against a row
  that it read without a lock (`handler.go:119-124`), and its upsert has no condition
  (`video_projection.sql.go:114-125`). Two handlers of one video leave the older
  version when the older event is written last; only the ordering key keeps them apart.
  Hence `ProjectionIsReplay` and `ImplementsReplica` speak of the videos in `Keyed`:
  of the others they do not hold.

Met while modelling, without a run:

* The documents speak of cursors (`ARCHITECTURE.md:425`, `ARCHITECTURE.md:429`)
  where the code counts offsets, which is why a list that changes can hide an item;
  and of at most 5 publishing attempts (`ARCHITECTURE.md:472`) where
  `configs/config.yaml:159` says 20.
* `ARCHITECTURE.md:424` says that the mask decides which preferences an update
  changes. In `UpdateProfile` every path of the preferences brings the whole of
  `extra` along (`ProfileSets`).
* `ARCHITECTURE.md:52` says that a progress below 5 percent clears the record
  ("自动清除记录"). `UpsertWatchProgress` stores it like any other, and no code deletes
  a row of `watch_logs`; `TotalsOnlyGrow` says that none disappears.
* A first report of fewer than zero seconds is stored as it is, while what is counted
  for it is cut to zero (`watch_history_service.go:187-189`): from then on the row has
  fewer seconds than were counted for it. Nothing says what is intended; `below` keeps
  the account.
* `configs/conf.proto:120` calls `messaging.schema` the schema of the outbox and inbox
  tables. The loader takes the schema of `data.postgres` for both
  (`MessagingFromProto`).
* `.env` is loaded after `.env.local` and overwrites it; `CONF_PATH`, which
  `configs/.env.example:17` offers, is read before the `.env` files and has no effect
  there; a configuration without the `data` section passes the validation.
* `cmd/tasks/catalog_inbox/main.go:1` says that the task consumes the events of the
  catalog. The shipped configuration gives it the topic of the publisher and
  `source_service: profile`.
* A publisher in `cmd/grpc` that fails is logged and not started again: the server
  goes on without one (`WorkerFails`).

## 6. Plan

Done: `Engagement` with `StatsLedger`, `ProfileUsers` with `ProfileApi`,
`WatchHistory`, `SharedStats`, `CatalogInbox` with `CatalogReplica`, `OutboxPublisher`,
`ListPages`, `ServiceConfig` and `ServiceProcess`, with their runs, and the proofs of section 4.

What would come next: an abstract specification of at-least-once delivery that
`OutboxPublisher` implements, with the outbox of `Engagement` as its input.

## 7. Not modelled, and why

* The timing of PostgreSQL and Pub/Sub beyond order and failure: no property
  here depends on durations. What is done with a dead letter: no code reads that topic.
* A progress that creeps up by less than five percent per report is compared with the
  previous report and never told (`watch_history_service.go:228`); the model has it, and no
  document promises otherwise.
* Conversion of numbers between Go, the driver and `numeric` columns: it depends
  on the driver accepting a double, as the integration tests assert.
* What becomes of an event after `max_attempts`, and the order of the events of one
  video at the broker: both are decided by the external runner. The length of a
  backoff is time, and only that it ends matters here.
* A page token that the service did not issue; the handler cuts it to 32 bits
  (`profile_handler.go:259`). The statistics joined to a page: they are looked up by
  item as the videos are.
* Field-by-field copies (`mappers`, `vo`, `dto`, the protobuf encoding of events),
  generated protobuf code, and metrics, which nothing reads back. The gRPC client,
  which no program builds. `PurgeUserData`, which answers "unimplemented".
