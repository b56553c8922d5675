---------------------------- MODULE ServiceProcess ----------------------------
(***************************************************************************)
(* The life of one process of the service: cmd/grpc, cmd/tasks/outbox or   *)
(* cmd/tasks/catalog_inbox.  The generated injector opens the components   *)
(* one after the other and, when one fails, closes those already open.     *)
(* main then runs the worker itself (the tasks) or starts it beside the    *)
(* gRPC server (cmd/grpc), until a signal or a failure, and its deferred   *)
(* cleanup closes the components.                                          *)
(*                                                                         *)
(* Kratos, the gRPC server and the components are external.  What cmd/grpc *)
(* relies on: Stop cancels the context of the application, which is also   *)
(* the context of BeforeStart and AfterStop; the server lets the requests  *)
(* it has accepted end; Run skips AfterStop when the server fails; closing *)
(* the pool waits for the connections in use.                              *)
(***************************************************************************)
EXTENDS ServiceConfig, FiniteSets

CONSTANT Hosts  \* what the processes may find when they start

\* What a file and the environment can hold: another file is one that does not
\* load.
ASSUME HostsAssumption ==
    /\ \A h \in Hosts : LET env == LoadEnvFiles(h, ResolveConfPath(h)) IN
                           env # None => env["PORT"] \in STRING
    /\ \A h \in Hosts : \A path \in DOMAIN h.yaml : IsBootstrap(h.yaml[path])
    /\ None \notin ServerSections /\ None \notin GrpcSections

VARIABLES kind,       \* which of the three programs runs
          host,       \* the flag, the environment and the files it finds
          config,     \* the RuntimeConfig, once loaded
          pubsub,     \* the Pub/Sub configuration picked for the process
          inbox,      \* the inbox configuration picked for the process
          step,       \* how far the injector is, counted in steps
          open,       \* the components that are open, oldest first
          todo,       \* the components still to be closed, next first
          phase,      \* where main is
          how,        \* how main ended or is about to end
          worker,     \* the publisher or the inbox task
          using,      \* the component a call of the worker is in
          cancelled,  \* the context of the worker has ended
          waited,     \* AfterStop saw the worker end
          request     \* the kind of handler that runs in the server

vars == <<kind, host, config, pubsub, inbox, step, open, todo, phase, how,
          worker, using, cancelled, waited, request>>
wiringVars == <<config, pubsub, inbox, step>>
workerVars == <<worker, using, cancelled, waited>>

Programs == {"grpc", "outbox", "inbox"}

\* The calls of each injector that can fail, stop the program or leave the
\* worker out, in the order wire generated.
GrpcSteps == <<"config", "log", "obs", "jwt", "middleware", "pgx", "tx", "settings", "pubsub", "worker">>
OutboxSteps == <<"config", "log", "obs", "pgx", "settings", "pubsub", "worker">>
InboxSteps == <<"config", "log", "obs", "pubsub", "pgx", "settings", "tx", "worker">>
Steps(k) == CASE k = "grpc" -> GrpcSteps [] k = "outbox" -> OutboxSteps [] k = "inbox" -> InboxSteps

\* The steps that open a component and return its cleanup.
Components == {"log", "obs", "jwt", "pgx", "tx", "pubsub"}

\* What each component is handed when it is built, and keeps.
Needs(c) ==
    CASE c = "log" -> {}
      [] c \in {"obs", "jwt", "pgx", "pubsub"} -> {"log"}
      [] c = "tx" -> {"pgx", "log"}

\* What the worker of a program calls while it runs.
WorkerNeeds(k) == IF k = "inbox" THEN {"pubsub", "pgx", "tx"} ELSE {"pubsub", "pgx"}

Running == phase \in {"serving", "stopping", "working"}
CurrentStep == Steps(kind)[step]
Proceeds == step' = step + 1 /\ UNCHANGED <<todo, phase, how>>

-------------------------------------------------------------------------------
(***************************************************************************)
(* The injector.                                                           *)
(***************************************************************************)

\* MUTANT: the error path forgets the cleanup of the newest component.
Cleanups_SkipNewest(opened) ==
    IF phase = "wiring" THEN SubSeq(Reverse(opened), 2, Len(opened)) ELSE Reverse(opened)

\* Every error path and the cleanup function close the newest first.
Cleanups(opened) == Reverse(opened)

StartClosing(reason) ==
    /\ phase' = "closing" /\ how' = reason
    /\ todo' = Cleanups(open)

LoadRuntimeConfig ==
    /\ phase = "wiring" /\ CurrentStep = "config"
    /\ config' = Load(host)
    /\ IF config' = None THEN StartClosing("failed") /\ step' = step
       ELSE Proceeds
    /\ UNCHANGED <<kind, host, pubsub, inbox, open, request>> /\ UNCHANGED workerVars

\* A component opens, or its constructor fails and everything is closed.  The
\* Pub/Sub component is built from the topic entry that was picked.
OpenComponent ==
    /\ phase = "wiring" /\ CurrentStep \in Components
    /\ \/ /\ open' = Append(open, CurrentStep)
          /\ Proceeds
       \/ StartClosing("failed") /\ UNCHANGED <<open, step>>
    /\ IF CurrentStep = "pubsub" THEN pubsub' \in PubSubConfigs(config.messaging)
       ELSE pubsub' = pubsub
    /\ UNCHANGED <<kind, host, config, inbox, request>> /\ UNCHANGED workerVars

\* ProvideServerMiddleware opens nothing and may fail.
ProvideMiddleware ==
    /\ phase = "wiring" /\ CurrentStep = "middleware"
    /\ Proceeds \/ (StartClosing("failed") /\ step' = step)
    /\ UNCHANGED <<kind, host, config, pubsub, inbox, open, request>> /\ UNCHANGED workerVars

\* ProvideOutboxConfig panics when its configuration does not validate (the
\* rules are external); no cleanup runs, and the program is gone.
ProvideOutboxConfig ==
    /\ phase = "wiring" /\ CurrentStep = "settings"
    /\ \/ /\ inbox' \in {settings.inbox : settings \in OutboxConfigs(config.messaging)}
          /\ Proceeds
       \/ /\ phase' = "ended" /\ how' = "settingsPanic"
          /\ UNCHANGED <<inbox, step, todo>>
    /\ UNCHANGED <<kind, host, config, pubsub, open, request>> /\ UNCHANGED workerVars

\* The publisher needs a topic, the inbox the service it listens to.
PublisherConfigured == pubsub.topic # ""
InboxConfigured == inbox.source # ""
CanWork == IF kind = "inbox" THEN InboxConfigured ELSE PublisherConfigured

\* The worker is left out when it is not configured or cannot be built.
BuildWorker ==
    /\ phase = "wiring" /\ CurrentStep = "worker"
    /\ worker' \in {"none"} \cup (IF CanWork THEN {"running"} ELSE {})
    /\ step' = step + 1
    /\ UNCHANGED <<kind, host, config, pubsub, inbox, open, using, cancelled, waited, request>>

\* The task of the outbox and the task of the inbox: with a worker main runs
\* it, without one it returns at once.
StartTask ==
    /\ kind # "grpc"
    /\ BuildWorker
    /\ \/ worker' = "none" /\ StartClosing("returned")
       \/ worker' = "running" /\ phase' = "working" /\ UNCHANGED <<how, todo>>

\* cmd/grpc serves with or without a publisher.
StartApp ==
    /\ kind = "grpc"
    /\ BuildWorker
    /\ phase' = "starting" /\ UNCHANGED <<how, todo>>

\* Who takes a signal: Kratos once it serves, and to the end of the program;
\* in a task the context of the worker, until main goes to its cleanup.
Listening ==
    \/ phase \in {"serving", "stopping", "working"}
    \/ phase = "closing" /\ kind = "grpc" /\ how \in {"returned", "panicked"}

\* While nobody listens, a signal kills the program where it is.
Killed ==
    /\ phase # "ended" /\ ~Listening
    /\ phase' = "ended" /\ how' = "killed" /\ worker' = "ended" /\ using' = None
    /\ UNCHANGED <<kind, host, open, todo, cancelled, waited, request>> /\ UNCHANGED wiringVars

-------------------------------------------------------------------------------
(***************************************************************************)
(* The worker: it calls one component at a time until its context ends.    *)
(***************************************************************************)

WorkerCalls ==
    /\ phase # "ended" /\ worker = "running" /\ using = None
    /\ phase \notin {"wiring", "starting"}
    /\ \E c \in WorkerNeeds(kind) \cap Range(open) : using' = c
    /\ UNCHANGED <<kind, host, open, todo, phase, how, worker, cancelled, waited, request>>
    /\ UNCHANGED wiringVars

WorkerReturns ==
    /\ phase # "ended" /\ using # None
    /\ using' = None
    /\ UNCHANGED <<kind, host, open, todo, phase, how, worker, cancelled, waited, request>>
    /\ UNCHANGED wiringVars

\* MUTANT: a task hands its worker the context of main, which no signal ends.
WorkerStops_OtherContext ==
    /\ phase # "ended" /\ worker = "running" /\ using = None /\ cancelled
    /\ kind = "grpc"
    /\ worker' = "ended"
    /\ UNCHANGED <<phase, how, todo>>
    /\ UNCHANGED <<kind, host, open, using, cancelled, waited, request>> /\ UNCHANGED wiringVars

\* Run returns because its context ended; in a task, main returns with it.
WorkerStops ==
    /\ phase # "ended" /\ worker = "running" /\ using = None /\ cancelled
    /\ worker' = "ended"
    /\ IF phase = "working" THEN StartClosing("returned") ELSE UNCHANGED <<phase, how, todo>>
    /\ UNCHANGED <<kind, host, open, using, cancelled, waited, request>> /\ UNCHANGED wiringVars

\* Run returns an error.  A task exits on the spot, without its deferred
\* cleanup; cmd/grpc logs a warning and serves on without a publisher.
WorkerFails ==
    /\ Running /\ worker = "running" /\ using = None
    /\ worker' = "ended"
    /\ \/ /\ phase = "working"
          /\ phase' = "ended" /\ how' = "exited"
       \/ phase # "working" /\ UNCHANGED <<phase, how>>
    /\ UNCHANGED <<kind, host, open, todo, using, cancelled, waited, request>> /\ UNCHANGED wiringVars

\* A signal ends the context of a task.
SignalTask ==
    /\ phase = "working" /\ ~cancelled
    /\ cancelled' = TRUE
    /\ UNCHANGED <<kind, host, open, todo, phase, how, worker, using, waited, request>>
    /\ UNCHANGED wiringVars

-------------------------------------------------------------------------------
(***************************************************************************)
(* cmd/grpc.                                                               *)
(***************************************************************************)

\* BeforeStart starts the worker; then the server listens, or cannot, and main
\* panics: AfterStop does not run, the deferred cleanup does.  Whether Kratos
\* takes signals by then is left open.
StartServer ==
    /\ phase = "starting"
    /\ \/ phase' = "serving" /\ UNCHANGED <<how, todo>>
       \/ \E reason \in {"panicked", "unheard"} : StartClosing(reason)
    /\ UNCHANGED <<kind, host, open, request>> /\ UNCHANGED wiringVars /\ UNCHANGED workerVars

\* The listener breaks while it serves.  The server lets the requests it has
\* end; then Run returns the error, and main panics as above.
ServerFails ==
    /\ phase = "serving" /\ request = None
    /\ StartClosing("panicked")
    /\ UNCHANGED <<kind, host, open, request>> /\ UNCHANGED wiringVars /\ UNCHANGED workerVars

Accept ==
    /\ phase = "serving" /\ request = None
    /\ request' \in {"command", "query"}
    /\ UNCHANGED <<kind, host, open, todo, phase, how>>
    /\ UNCHANGED wiringVars /\ UNCHANGED workerVars

Answer ==
    /\ request # None
    /\ request' = None
    /\ UNCHANGED <<kind, host, open, todo, phase, how>>
    /\ UNCHANGED wiringVars /\ UNCHANGED workerVars

\* The handler is answered no later than its deadline, or that of the server.
Expire == request # None /\ Deadline(config, request) > 0 /\ Answer

\* Stop cancels the context of the application, the worker's with it.
SignalServer ==
    /\ phase = "serving"
    /\ phase' = "stopping" /\ cancelled' = TRUE
    /\ UNCHANGED <<kind, host, open, todo, how, worker, using, waited, request>> /\ UNCHANGED wiringVars

\* MUTANT: main does not wait for the requests the server has accepted.
AfterStop_Hurries ==
    /\ phase = "stopping"
    /\ waited' = (worker # "running")
    /\ StartClosing("returned")
    /\ UNCHANGED <<kind, host, open, worker, using, cancelled, request>> /\ UNCHANGED wiringVars

\* AfterStop waits for the workers or for the end of a context that has ended
\* already: it may go on although the worker still runs.
AfterStop ==
    /\ phase = "stopping" /\ request = None
    /\ \/ worker # "running" /\ waited' = TRUE
       \/ worker = "running" /\ waited' = FALSE
    /\ StartClosing("returned")
    /\ UNCHANGED <<kind, host, open, worker, using, cancelled, request>> /\ UNCHANGED wiringVars

-------------------------------------------------------------------------------
(***************************************************************************)
(* The cleanup.                                                            *)
(***************************************************************************)

\* The next component refuses new calls; the pool is only closed when its
\* connections are back.
CloseNext ==
    /\ phase = "closing" /\ todo # <<>>
    /\ using = "pgx" => "pgx" \in Range(open)
    /\ \E i \in DOMAIN open : open[i] = Head(todo) /\ open' = RemoveAt(open, i)
    /\ todo' = Tail(todo)
    /\ UNCHANGED <<kind, host, phase, how, request>> /\ UNCHANGED wiringVars /\ UNCHANGED workerVars

\* The program ends, and a worker that still runs with it.
Exit ==
    /\ phase = "closing" /\ todo = <<>>
    /\ using = "pgx" => "pgx" \in Range(open)
    /\ phase' = "ended" /\ worker' = "ended" /\ using' = None
    /\ UNCHANGED <<kind, host, open, todo, how, cancelled, waited, request>> /\ UNCHANGED wiringVars

-------------------------------------------------------------------------------
Init ==
    /\ kind \in Programs
    /\ host \in Hosts
    /\ config = None /\ pubsub = None /\ inbox = None
    /\ step = 1 /\ open = <<>> /\ todo = <<>>
    /\ phase = "wiring" /\ how = None
    /\ worker = "none" /\ using = None /\ cancelled = FALSE /\ waited = FALSE
    /\ request = None

Wire == LoadRuntimeConfig \/ OpenComponent \/ ProvideMiddleware \/ ProvideOutboxConfig
        \/ StartTask \/ StartApp
Done == phase = "ended" /\ UNCHANGED vars

Next ==
    \/ Wire \/ Killed
    \/ WorkerCalls \/ WorkerReturns \/ WorkerStops \/ WorkerFails \/ SignalTask
    \/ StartServer \/ ServerFails \/ Accept \/ Answer \/ SignalServer \/ AfterStop
    \/ CloseNext \/ Exit
    \/ Done

Spec == Init /\ [][Next]_vars

\* main goes on whenever it can; a call of the worker returns and the worker
\* looks at its context between two calls; a handler meets its deadline.  No
\* signal, request or failure is assumed to come.
Fairness ==
    /\ WF_vars(Wire) /\ WF_vars(StartServer) /\ WF_vars(AfterStop)
    /\ WF_vars(CloseNext) /\ WF_vars(Exit)
    /\ WF_vars(WorkerReturns) /\ SF_vars(WorkerStops) /\ WF_vars(Expire)
FairSpec == Spec /\ Fairness

-------------------------------------------------------------------------------
\* Whatever is open has what it was handed, at every moment of the opening and
\* of the closing: a component is never closed under one that still uses it,
\* and a request finds all it needs.  The worker does too, except in cmd/grpc
\* when main goes to its cleanup without having seen the worker end.
NeedsAreOpen ==
    /\ \A c \in Range(open) : Needs(c) \subseteq Range(open)
    /\ request # None => {"jwt", "pgx", "tx"} \subseteq Range(open)
    /\ using # None /\ using \notin Range(open) =>
          kind = "grpc" /\ phase = "closing" /\ ~waited

\* Nothing stays open behind a program that ended by way of main, and nothing
\* is closed twice; only a signal that nobody listens for, the panic of
\* ProvideOutboxConfig and the os.Exit of a task leave components behind.
NothingLeftOpen ==
    /\ phase = "closing" => Range(todo) = Range(open) /\ Len(todo) = Len(open)
    /\ phase = "ended" => open = <<>> \/ how \in {"killed", "settingsPanic", "exited"}

HandlerKinds == {"default", "command", "query"}

\* The topics of a file, and those that name a project and can be used.
TopicsOf(b) == IF b.messaging = None THEN NoEntries ELSE b.messaging.topics
Usable(b) ==
    {key \in DOMAIN TopicsOf(b) : TopicsOf(b)[key] # None /\ TopicsOf(b)[key].project # ""}

\* The DSN and the port that a process runs with are those of the last .env
\* file before the environment before the YAML file.
EnvironmentWins(b, env) ==
    /\ config.database.dsn # "" /\ env["DATABASE_URL"] # "" =>
          config.database.dsn = env["DATABASE_URL"]
    /\ env["PORT"] # "" /\ b.server # None /\ b.server.grpc # None =>
          config.server.addr.port = env["PORT"]

\* A request ends by the timeout of the server and by that of its handler,
\* whichever is written and comes first, and by nothing else if both are.
DeadlinesAsWritten(b) ==
    \A k \in HandlerKinds :
       LET server == IF b.server = None \/ b.server.grpc = None THEN 0
                     ELSE DurationOrZero(b.server.grpc.timeout)
           handler == IF b.server = None \/ b.server.handlers = None THEN 0
                      ELSE DurationOrZero(b.server.handlers[k]) IN
       /\ server > 0 => Deadline(config, k) <= server
       /\ handler > 0 => Deadline(config, k) <= handler
       /\ server > 0 /\ handler > 0 => Deadline(config, k) \in {server, handler}

\* The topic is the one called default, and without that an entry of the file
\* as a whole; none is picked only if the file has one that cannot be used, or
\* none at all.
TopicAsWritten(b) ==
    /\ "default" \in Usable(b) => pubsub = TopicsOf(b)["default"]
    /\ "default" \in DOMAIN TopicsOf(b) \ Usable(b) => pubsub = NoTopic
    /\ pubsub = NoTopic => Usable(b) # DOMAIN TopicsOf(b) \/ Usable(b) = {}
    /\ pubsub # NoTopic => \E key \in Usable(b) : pubsub = TopicsOf(b)[key]

\* What the process runs with is what it was told: the environment before the
\* file; a request no longer than the timeouts that are written; one schema for
\* the tables and their outbox; the topic of the file; and a publisher only
\* with a topic.
RuntimeAsWritten ==
    config # None =>
        LET path == ResolveConfPath(host)
            written == host.yaml[path] IN
        /\ EnvironmentWins(written, LoadEnvFiles(host, path))
        /\ DeadlinesAsWritten(written)
        /\ config.messaging.schema = config.database.schema
        /\ Len(config.server.keys) > 0 /\ Len(config.client.keys) > 0
        /\ pubsub # None => TopicAsWritten(written)
        /\ worker = "running" /\ kind # "inbox" => pubsub.project # "" /\ pubsub.topic # ""

\* A program that was told to stop, or that failed, ends: no request, no worker
\* and no close holds it for ever.
StopLeadsToEnd == (cancelled \/ how # None) ~> phase = "ended"

===============================================================================
