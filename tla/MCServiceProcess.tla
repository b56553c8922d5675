--------------------------- MODULE MCServiceProcess ---------------------------
(***************************************************************************)
(* Instances of ServiceProcess for TLC: one complete file, and hosts that  *)
(* leave out or change one thing each.                                     *)
(***************************************************************************)
EXTENDS ServiceProcess

Topic(project, topic) == [project |-> project, topic |-> topic, subscription |-> "catalog", ordering |-> TRUE]

\* The shape of configs/config.yaml.
Complete ==
    [server |-> [grpc |-> [addr |-> [host |-> "0.0.0.0", port |-> "9000"], timeout |-> 5],
                 handlers |-> [default |-> 5, command |-> 5, query |-> 3],
                 keys |-> <<"x-md-">>],
     data |-> [postgres |-> [dsn |-> "", maxOpenConns |-> 4, minOpenConns |-> 0, schema |-> "profile",
                             tx |-> [timeout |-> 3, lockTimeout |-> 1, retries |-> 3]],
               client |-> [target |-> "", keys |-> <<"x-md-">>]],
     messaging |-> [schema |-> "profile",
                    topics |-> [default |-> Topic("lingo", "engagement")],
                    outbox |-> [workers |-> 4, lockTtl |-> 120, maxAttempts |-> 20],
                    inboxes |-> [default |-> [source |-> "profile", concurrency |-> 4]]]]

Files ==
    {Complete,
     [Complete EXCEPT !.server = None],
     [Complete EXCEPT !.server.grpc = None, !.server.keys = <<>>],
     [Complete EXCEPT !.server.grpc.timeout = None],
     [Complete EXCEPT !.server.grpc.timeout = 2],
     [Complete EXCEPT !.server.handlers = None],
     [Complete EXCEPT !.server.handlers = [default |-> 7, command |-> None, query |-> None]],
     [Complete EXCEPT !.server.handlers = [default |-> None, command |-> -1, query |-> 2]],
     [Complete EXCEPT !.data = None],
     [Complete EXCEPT !.data.postgres = None],
     [Complete EXCEPT !.data.postgres.maxOpenConns = 0],
     [Complete EXCEPT !.data.postgres.minOpenConns = 51],
     [Complete EXCEPT !.data.postgres.dsn = "postgres://file", !.data.postgres.tx = None],
     [Complete EXCEPT !.data.client = None, !.data.postgres.schema = "other"],
     [Complete EXCEPT !.messaging = None],
     [Complete EXCEPT !.messaging.outbox = None, !.messaging.inboxes = NoEntries],
     [Complete EXCEPT !.messaging.topics = NoEntries],
     [Complete EXCEPT !.messaging.topics = [default |-> Topic("", "engagement"), other |-> Topic("lingo", "other")]],
     [Complete EXCEPT !.messaging.topics = [a |-> Topic("lingo", "a"), b |-> Topic("lingo", "")]],
     [Complete EXCEPT !.messaging.topics = [default |-> Topic("lingo", "engagement"), other |-> Topic("lingo", "other")]]}

Unset == [v \in {"CONF_PATH", "DATABASE_URL", "PORT", "SERVICE_NAME", "SERVICE_VERSION", "APP_ENV"} |-> ""]
Url(value) == [v \in {"DATABASE_URL"} |-> value]
AFile(place, value) == [f \in {place} |-> Url(value)]

\* The file under its default path, the DSN in the environment.
Deployed(file) ==
    [flag |-> "", env |-> [Unset EXCEPT !["DATABASE_URL"] = "postgres://env"], cwd |-> ".",
     dirOf |-> [path \in {DefaultConfPath} |-> "configs"], files |-> NoEntries,
     yaml |-> [path \in {DefaultConfPath} |-> file], name |-> "pod"]

FourEnvFiles == [f \in {"configs", "."} \X {".env.local", ".env"} |->
                    Url("postgres://" \o f[1] \o "/" \o f[2])]

FewUrls == {"postgres://env", "postgres://file", "postgres://configs"}
           \cup {FourEnvFiles[f]["DATABASE_URL"] : f \in DOMAIN FourEnvFiles}

FewHosts ==
    {Deployed(file) : file \in Files} \cup
    {[Deployed(Complete) EXCEPT !.files = AFile(<<"configs", ".env">>, "postgres://configs")],
     [Deployed(Complete) EXCEPT !.files = FourEnvFiles],
     [Deployed(Complete) EXCEPT !.files = FourEnvFiles, !.cwd = "configs"],
     [Deployed([Complete EXCEPT !.data.postgres.dsn = "postgres://file"]) EXCEPT
        !.env = [Unset EXCEPT !["PORT"] = "8080", !["APP_ENV"] = "prod"]],
     [Deployed(Complete) EXCEPT !.flag = "missing.yaml"],
     [Deployed(Complete) EXCEPT !.env["DATABASE_URL"] = "mysql://env"],
     [Deployed(Complete) EXCEPT !.files = [f \in {<<"configs", ".env">>, <<".", ".env">>} |->
                                            IF f[1] = "." THEN None ELSE Url("postgres://configs")]],
     [Deployed(Complete) EXCEPT !.env["DATABASE_URL"] = "", !.name = ""]}
===============================================================================
