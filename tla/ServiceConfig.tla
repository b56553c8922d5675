---------------------------- MODULE ServiceConfig ----------------------------
(***************************************************************************)
(* internal/infrastructure/configloader: how a process turns the flag, the *)
(* environment, the .env files and the YAML file into the RuntimeConfig,   *)
(* and how the providers derive from it what the components are built      *)
(* from.                                                                   *)
(*                                                                         *)
(* A section that is left out is None.  Strings are compared and never     *)
(* taken apart; durations are whole seconds.  An address is a pair of host *)
(* and port; one that does not parse has no host.  Fields that are only    *)
(* copied and that no property tells apart are left out of the records.    *)
(***************************************************************************)
EXTENDS Integers, SequencesExt

CONSTANTS None,  \* a section, a file or a duration that is not given
          Urls   \* the strings that conf.proto takes for a PostgreSQL URL

\* The two sections that the environment reaches into, as conf.proto shapes
\* them; the others are only read.
Optional(S) == S \cup {None}
GrpcSections == [addr : [host : STRING, port : STRING], timeout : Optional(Int)]
ServerSections ==
    [grpc : Optional(GrpcSections),
     handlers : Optional([default : Optional(Int), command : Optional(Int), query : Optional(Int)]),
     keys : Seq(STRING)]
DataSections ==
    [postgres : Optional([dsn : STRING, maxOpenConns : Int, minOpenConns : Int, schema : STRING,
                          tx : Optional([timeout : Optional(Int), lockTimeout : Optional(Int),
                                         retries : Int])]),
     client : Optional([target : STRING, keys : Seq(STRING)])]

IsBootstrap(b) ==
    /\ DOMAIN b = {"server", "data", "messaging"}
    /\ b.server \in Optional(ServerSections) /\ b.data \in Optional(DataSections)

-------------------------------------------------------------------------------
(***************************************************************************)
(* loader.go.  A host is what the process finds: the -conf flag, the       *)
(* environment, the directory it runs in, the directory each path lies in, *)
(* the .env files by <<directory, name>>, None for one that does not       *)
(* parse, and the YAML files by path.                                      *)
(***************************************************************************)

DefaultConfPath == "configs/config.yaml"

FirstNonEmpty(a, b) == IF a # "" THEN a ELSE b

\* The flag, the environment, the default: decided before any .env file is read.
ResolveConfPath(host) ==
    FirstNonEmpty(host.flag, FirstNonEmpty(host.env["CONF_PATH"], DefaultConfPath))

\* The directory of the file if the path exists, then the working directory.
CandidateDirs(host, path) ==
    IF path \in DOMAIN host.dirOf /\ host.dirOf[path] # host.cwd
    THEN <<host.dirOf[path], host.cwd>> ELSE <<host.cwd>>

\* The .env files that exist, in the order in which they are loaded.
EnvFiles(host, path) ==
    LET dirs == CandidateDirs(host, path)
        pairs == FlattenSeq([i \in DOMAIN dirs |-> <<<<dirs[i], ".env.local">>, <<dirs[i], ".env">>>>])
    IN  SelectSeq(pairs, LAMBDA file : file \in DOMAIN host.files)

Assign(env, file) == [v \in DOMAIN env |-> IF v \in DOMAIN file THEN file[v] ELSE env[v]]

\* godotenv.Overload: every file overwrites the environment and the files
\* before it; None when one of them does not parse.
LoadEnvFiles(host, path) ==
    LET files == EnvFiles(host, path) IN
    IF \E file \in Range(files) : host.files[file] = None THEN None
    ELSE FoldLeft(LAMBDA env, file : Assign(env, host.files[file]), host.env, files)

\* MUTANT: DATABASE_URL only fills a dsn that is empty.
ApplyEnvOverrides_KeepsDsn(b, env) ==
    LET withDsn == IF env["DATABASE_URL"] # "" /\ b.data # None /\ b.data.postgres # None
                      /\ b.data.postgres.dsn = ""
                   THEN [b EXCEPT !.data.postgres.dsn = env["DATABASE_URL"]] ELSE b
    IN  IF env["PORT"] # "" /\ b.server # None /\ b.server.grpc # None
        THEN [withDsn EXCEPT !.server.grpc.addr.port = env["PORT"]] ELSE withDsn

\* DATABASE_URL and PORT replace what the file says, where it has the section.
ApplyEnvOverrides(b, env) ==
    LET withDsn == IF env["DATABASE_URL"] # "" /\ b.data # None /\ b.data.postgres # None
                   THEN [b EXCEPT !.data.postgres.dsn = env["DATABASE_URL"]] ELSE b
    IN  IF env["PORT"] # "" /\ b.server # None /\ b.server.grpc # None
        THEN [withDsn EXCEPT !.server.grpc.addr.port = env["PORT"]] ELSE withDsn

\* The rules of conf.proto.  They lie inside data: a file without that section
\* is valid.
Valid(b) ==
    b.data # None => /\ b.data.postgres # None
                     /\ b.data.postgres.dsn \in Urls \ {""}
                     /\ b.data.postgres.maxOpenConns \in 1 .. 100
                     /\ b.data.postgres.minOpenConns \in 0 .. 50

ResolveEnvironment(raw) ==
    CASE raw \in {"", "dev", "development"} -> "development"
      [] raw \in {"prod", "production"} -> "production"
      [] OTHER -> raw

BuildServiceInfo(host, env) ==
    [name |-> FirstNonEmpty(env["SERVICE_NAME"], "template"),
     version |-> FirstNonEmpty(env["SERVICE_VERSION"], "dev"),
     environment |-> ResolveEnvironment(env["APP_ENV"]),
     instance |-> FirstNonEmpty(host.name, "unknown-instance")]

-------------------------------------------------------------------------------
(***************************************************************************)
(* normalize.go: the sections of the file, each with its own defaults.     *)
(***************************************************************************)

DurationOrZero(d) == IF d = None THEN 0 ELSE d
Positive(d, otherwise) == IF d > 0 THEN d ELSE otherwise

\* The timeouts of a server section: those that are not positive are filled.
HandlerTimeouts(h) ==
    IF h = None THEN [default |-> 5, command |-> 5, query |-> 3]
    ELSE LET default == Positive(DurationOrZero(h.default), 5) IN
         [default |-> default,
          command |-> Positive(DurationOrZero(h.command), default),
          query |-> Positive(DurationOrZero(h.query), 3)]

NoServer == [addr |-> None, timeout |-> 0, keys |-> <<>>,
             handlers |-> [default |-> 0, command |-> 0, query |-> 0]]

ServerFromProto(s) ==
    IF s = None THEN NoServer
    ELSE [addr |-> IF s.grpc = None THEN None ELSE s.grpc.addr,
          timeout |-> IF s.grpc = None THEN 0 ELSE DurationOrZero(s.grpc.timeout),
          keys |-> s.keys,
          handlers |-> HandlerTimeouts(s.handlers)]

NoDatabase == [dsn |-> "", maxOpenConns |-> 0, minOpenConns |-> 0, schema |-> "",
               tx |-> [timeout |-> 0, lockTimeout |-> 0, retries |-> 0]]

DatabaseFromProto(pg) ==
    IF pg = None THEN NoDatabase
    ELSE [dsn |-> pg.dsn, maxOpenConns |-> pg.maxOpenConns, minOpenConns |-> pg.minOpenConns,
          schema |-> pg.schema,
          tx |-> IF pg.tx = None THEN NoDatabase.tx
                 ELSE [timeout |-> DurationOrZero(pg.tx.timeout),
                       lockTimeout |-> DurationOrZero(pg.tx.lockTimeout),
                       retries |-> pg.tx.retries]]

NoClient == [target |-> "", keys |-> <<>>]

GrpcClientFromProto(client) ==
    IF client = None THEN NoClient
    ELSE [target |-> client.target, keys |-> client.keys]

NoTopic == [project |-> "", topic |-> "", subscription |-> "", ordering |-> FALSE]
NoInbox == [source |-> "", concurrency |-> 0]
NoOutbox == [workers |-> 0, lockTtl |-> 0, maxAttempts |-> 0]
NoEntries == [name \in {} |-> None]

PubSubFromProto(p) == IF p = None THEN NoTopic ELSE p
InboxFromProto(in) == IF in = None THEN NoInbox ELSE in
OutboxFromProto(ob) ==
    IF ob = None THEN NoOutbox
    ELSE [workers |-> ob.workers, lockTtl |-> DurationOrZero(ob.lockTtl), maxAttempts |-> ob.maxAttempts]

\* The schema of the outbox and inbox tables is the one of the database
\* section; the schema of the messaging section is not read.
MessagingFromProto(msg, data) ==
    [schema |-> IF data = None \/ data.postgres = None THEN "" ELSE data.postgres.schema,
     outbox |-> OutboxFromProto(IF msg = None THEN None ELSE msg.outbox),
     topics |-> IF msg = None THEN NoEntries
                ELSE [key \in DOMAIN msg.topics |-> PubSubFromProto(msg.topics[key])],
     inboxes |-> IF msg = None THEN NoEntries
                 ELSE [key \in DOMAIN msg.inboxes |-> InboxFromProto(msg.inboxes[key])]]

FromProto(b) ==
    LET pg == IF b.data = None THEN None ELSE b.data.postgres
        client == IF b.data = None THEN None ELSE b.data.client IN
    [service |-> None,
     server |-> ServerFromProto(b.server),
     database |-> DatabaseFromProto(pg),
     client |-> GrpcClientFromProto(client),
     messaging |-> MessagingFromProto(b.messaging, b.data)]

DefaultKeys == <<"x-apigateway-api-userinfo", "x-md-", "x-md-idempotency-key",
                 "x-md-if-match", "x-md-if-none-match">>

FillDefaults(rc) ==
    LET serverKeys == IF rc.server.keys = <<>> THEN DefaultKeys ELSE rc.server.keys IN
    [rc EXCEPT !.server.keys = serverKeys,
               !.client.keys = IF @ = <<>> THEN serverKeys ELSE @]

\* The RuntimeConfig, or None when a .env file does not parse or the YAML file
\* is missing or breaks a rule.
Load(host) ==
    LET path == ResolveConfPath(host)
        env == LoadEnvFiles(host, path)
    IN  IF env = None \/ path \notin DOMAIN host.yaml THEN None
        ELSE LET b == ApplyEnvOverrides(host.yaml[path], env) IN
             IF ~Valid(b) THEN None
             ELSE FillDefaults([FromProto(b) EXCEPT !.service = BuildServiceInfo(host, env)])

-------------------------------------------------------------------------------
(***************************************************************************)
(* wire.go, NewBaseHandler and NewGRPCServer: what the components get.     *)
(***************************************************************************)

\* The timeouts of the handlers: NewBaseHandler fills what the loader left at
\* zero, which is everything when the server section is missing.
BaseTimeouts(t) ==
    LET default == Positive(t.default, Positive(t.command, Positive(t.query, 5))) IN
    [default |-> default,
     command |-> Positive(t.command, default),
     query |-> Positive(t.query, default)]

\* The seconds the server gives a request: those of the file, or else the one
\* second of Kratos.
ServerTimeout(rc) == Positive(rc.server.timeout, 1)

\* The seconds a handler has.  WithTimeout narrows the context that the server
\* has bounded already: the shorter of the two ends it.
Deadline(rc, kind) ==
    LET own == BaseTimeouts(rc.server.handlers)[kind] IN
    IF own \in 1 .. ServerTimeout(rc) THEN own ELSE ServerTimeout(rc)

\* The entry "default", or whichever entry the map iteration meets first.
Selected(entries, none) ==
    IF "default" \in DOMAIN entries THEN {entries["default"]}
    ELSE IF DOMAIN entries = {} THEN {none} ELSE {entries[key] : key \in DOMAIN entries}

\* The topic and the subscription of a process.  Without a project nothing is
\* configured.  Everything but the dead letter topic is handed on.
PubSubConfigs(msg) ==
    {IF entry.project = "" THEN NoTopic ELSE entry : entry \in Selected(msg.topics, NoTopic)}

\* What the outbox and the inbox of a process are configured with.
OutboxConfigs(msg) ==
    {[schema |-> msg.schema, publisher |-> msg.outbox, inbox |-> inbox] :
        inbox \in Selected(msg.inboxes, NoInbox)}

===============================================================================
