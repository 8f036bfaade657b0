---------------------------- MODULE ServiceLifespan ----------------------------
(***************************************************************************)
(* The life of one process: the lifespan of the application and /ready     *)
(* (app/main.py), the runtime of Redis (app/operations/redis_runtime.py)   *)
(* and the database (app/database.py).  One action per await; each may     *)
(* fail.  The server takes requests between the end of the startup and     *)
(* the shutdown, which waits for them.                                     *)
(***************************************************************************)
EXTENDS Naturals

CONSTANT MaxChanges     \* bound: dependencies that come or go

ASSUME LifespanAssumption == MaxChanges \in Nat

VARIABLES
    config,             \* the settings
    up,                 \* the dependencies that answer; "migrated": with the right revision
    changes,            \* changes of up so far
    phase,              \* where lifespan is
    held,               \* the client of the runtime is set
    pool,               \* the connections of Redis, the database and the bot
    unclosed,           \* history: the pools whose closing failed
    broken,             \* history: the startup has failed
    initialized,        \* app.state.initialized
    probe,              \* a request for /ready or for the diagnostics
    wasUp               \* history: what has been up at some time of the probe

lifespanVars == <<config, up, changes, phase, held, pool, unclosed, broken, initialized, probe, wasUp>>

Dependencies == {"redis", "database", "migrated"}
Pools == {"redis", "database", "bot"}
Phases == {"off", "ping", "drop", "database", "schema", "setup", "webhook", "menu", "serving",
           "close_bot", "close_redis", "dispose", "stopped"}

Configs == [redis_url : BOOLEAN, redis_required : BOOLEAN, sqlite : BOOLEAN,
            webhook_url : BOOLEAN]

NoProbe == [kind |-> "ready", step |-> "none"]

LifespanTypeOK ==
    /\ config \in Configs /\ up \subseteq Dependencies /\ changes \in 0..MaxChanges
    /\ phase \in Phases /\ held \in BOOLEAN /\ initialized \in BOOLEAN /\ broken \in BOOLEAN
    /\ pool \in [Pools -> {"none", "open", "closed"}]
    /\ unclosed \subseteq Pools /\ wasUp \subseteq Dependencies
    /\ probe \in [kind : {"ready", "diagnostics"},
                  step : {"none", "database", "migration", "redis", "ok", "unavailable"}]

LifespanInit ==
    /\ config \in Configs /\ up = Dependencies /\ changes = 0
    /\ phase = "off" /\ held = FALSE /\ initialized = FALSE /\ broken = FALSE
    /\ pool = [p \in Pools |-> "none"] /\ unclosed = {}
    /\ probe = NoProbe /\ wasUp = {}

NoProbing == UNCHANGED <<probe, wasUp>>
SameWorld == UNCHANGED <<config, up, changes>>

\* A dependency stops answering, or answers again.
ChangeDependency ==
    /\ changes < MaxChanges /\ changes' = changes + 1
    /\ \E d \in Dependencies : up' = (up \ {d}) \union ({d} \ up)
    /\ wasUp' = IF probe.step \in {"none", "ok", "unavailable"} THEN wasUp ELSE wasUp \union up'
    /\ UNCHANGED <<config, phase, held, pool, unclosed, broken, initialized, probe>>

-----------------------------------------------------------------------------
(* Startup. *)

\* RedisRuntime.create
CreateRedis ==
    /\ phase = "off"
    /\ IF config.redis_url
       THEN /\ phase' = "ping" /\ held' = TRUE /\ pool' = [pool EXCEPT !["redis"] = "open"]
            /\ UNCHANGED broken
       ELSE /\ phase' = IF config.redis_required THEN "stopped" ELSE "database"
            /\ broken' = config.redis_required
            /\ UNCHANGED <<held, pool>>
    /\ SameWorld /\ NoProbing /\ UNCHANGED <<unclosed, initialized>>

PingRedis ==
    /\ phase = "ping"
    /\ phase' = IF "redis" \in up THEN "database" ELSE "drop"
    /\ SameWorld /\ NoProbing /\ UNCHANGED <<held, pool, unclosed, broken, initialized>>

\* close of a pool; the runtime of Redis gives up its client first.
Closed(p) == pool' = [pool EXCEPT ![p] = "closed"] /\ UNCHANGED unclosed
NotClosed(p) == unclosed' = unclosed \union {p} /\ UNCHANGED pool

\* The ping has failed: the client is closed, and Redis does without or the startup ends.
DropRedis ==
    /\ phase = "drop" /\ held' = FALSE
    /\ \/ /\ Closed("redis")
          /\ phase' = IF config.redis_required THEN "stopped" ELSE "database"
          /\ broken' = config.redis_required
       \/ NotClosed("redis") /\ phase' = "stopped" /\ broken' = TRUE
    /\ SameWorld /\ NoProbing /\ UNCHANGED initialized

OpenDatabase ==
    /\ phase = "database"
    /\ \/ /\ pool' = [pool EXCEPT !["database"] = "open"]
          /\ phase' = IF config.sqlite THEN "schema" ELSE "setup"
          /\ UNCHANGED broken
       \/ phase' = "close_redis" /\ broken' = TRUE /\ UNCHANGED pool
    /\ SameWorld /\ NoProbing /\ UNCHANGED <<held, unclosed, initialized>>

CreateSchema ==
    /\ phase = "schema"
    /\ phase' = IF "database" \in up THEN "setup" ELSE "close_redis"
    /\ broken' = ("database" \notin up)
    /\ SameWorld /\ NoProbing /\ UNCHANGED <<held, pool, unclosed, initialized>>

\* The repositories and services, the bot and the state of the application.  Bot raises
\* where the token has not the form of one.
Setup ==
    /\ phase = "setup"
    /\ \/ /\ pool' = [pool EXCEPT !["bot"] = "open"] /\ initialized' = TRUE
          /\ phase' = IF config.webhook_url THEN "webhook" ELSE "serving"
          /\ UNCHANGED broken
       \/ phase' = "close_redis" /\ broken' = TRUE /\ UNCHANGED <<pool, initialized>>
    /\ SameWorld /\ NoProbing /\ UNCHANGED <<held, unclosed>>

\* set_webhook: outside of the try that closes the session of the bot
SetWebhook ==
    /\ phase = "webhook"
    /\ \/ phase' = "menu" /\ UNCHANGED broken
       \/ phase' = "close_redis" /\ broken' = TRUE
    /\ SameWorld /\ NoProbing /\ UNCHANGED <<held, pool, unclosed, initialized>>

\* The button of the Mini App, whose errors are logged
SetMenu ==
    /\ phase = "menu" /\ phase' = "serving"
    /\ SameWorld /\ NoProbing /\ UNCHANGED <<held, pool, unclosed, broken, initialized>>

-----------------------------------------------------------------------------
(* Shutdown. *)

StopServing ==
    /\ phase = "serving" /\ probe.step \in {"none", "ok", "unavailable"}
    /\ phase' = "close_bot" /\ initialized' = FALSE
    /\ SameWorld /\ NoProbing /\ UNCHANGED <<held, pool, unclosed, broken>>

CloseBot ==
    /\ phase = "close_bot" /\ phase' = "close_redis"
    /\ Closed("bot") \/ NotClosed("bot")
    /\ SameWorld /\ NoProbing /\ UNCHANGED <<held, broken, initialized>>

\* Faulty: the database is disposed of only when the startup has come to its end.
AfterRedis == IF ~broken THEN "dispose" ELSE "stopped"

\* if database is not None
BehindRedis == IF pool["database"] # "none" THEN "dispose" ELSE "stopped"

\* redis_runtime.close(); when it fails the database is left as it is.
CloseRedis ==
    /\ phase = "close_redis" /\ held' = FALSE
    /\ IF held
       THEN \/ Closed("redis") /\ phase' = BehindRedis
            \/ NotClosed("redis") /\ phase' = "stopped"
       ELSE phase' = BehindRedis /\ UNCHANGED <<pool, unclosed>>
    /\ SameWorld /\ NoProbing /\ UNCHANGED <<broken, initialized>>

DisposeDatabase ==
    /\ phase = "dispose" /\ phase' = "stopped"
    /\ Closed("database") \/ NotClosed("database")
    /\ SameWorld /\ NoProbing /\ UNCHANGED <<held, broken, initialized>>

-----------------------------------------------------------------------------
(* Requests while the service runs. *)

Probing(step) ==
    /\ phase = "serving"
    /\ probe.step = step
    /\ UNCHANGED <<config, up, changes, phase, held, pool, unclosed, broken, initialized>>

AskReady ==
    \E step \in {"none", "ok", "unavailable"}, kind \in {"ready", "diagnostics"} :
        /\ Probing(step)
        /\ probe' = [kind |-> kind,
                     step |-> IF kind = "ready" /\ ~initialized THEN "unavailable" ELSE "database"]
        /\ wasUp' = up

Continue(works, next) ==
    probe' = [probe EXCEPT !.step = IF works THEN next ELSE "unavailable"] /\ UNCHANGED wasUp

\* The diagnostics ask for the revision last, and of any database.
AskDatabase ==
    Probing("database") /\ Continue("database" \in up,
        IF probe.kind = "diagnostics" THEN IF held THEN "redis" ELSE "migration"
        ELSE IF ~config.sqlite THEN "migration"
        ELSE IF config.redis_required THEN "redis" ELSE "ok")

\* Any revision will do for the diagnostics.  A database that does not answer has none.
AskMigration ==
    Probing("migration") /\ Continue(
        /\ "database" \in up \/ (config.sqlite /\ probe.kind = "diagnostics")
        /\ "migrated" \in up \/ probe.kind = "diagnostics",
        IF probe.kind = "ready" /\ config.redis_required THEN "redis" ELSE "ok")

\* ping raises where there is no client.
AskRedis ==
    Probing("redis") /\ Continue(held /\ "redis" \in up,
        IF probe.kind = "diagnostics" THEN "migration" ELSE "ok")

LifespanNext ==
    \/ ChangeDependency
    \/ CreateRedis \/ PingRedis \/ DropRedis
    \/ OpenDatabase \/ CreateSchema \/ Setup \/ SetWebhook \/ SetMenu
    \/ StopServing \/ CloseBot \/ CloseRedis \/ DisposeDatabase
    \/ AskReady \/ AskDatabase \/ AskMigration \/ AskRedis

LifespanSpec == LifespanInit /\ [][LifespanNext]_lifespanVars

-----------------------------------------------------------------------------
(* Properties. *)

\* What /ready has to have found.
Required ==
    {"database"} \union (IF config.sqlite THEN {} ELSE {"migrated"})
                 \union (IF config.redis_required THEN {"redis"} ELSE {})

\* /ready says "ready" only where every dependency the service needs has answered while it
\* asked, and the pools behind it are open: "readiness fails when REDIS_REQUIRED=true and
\* Redis cannot be reached" (docs/superpowers/specs/
\* 2026-07-26-chatpulse-production-scale-3-0-design.md:109), also for a process that has
\* begun without Redis.
ReadyIsBacked ==
    phase = "serving" =>
        /\ pool["database"] = "open" /\ initialized
        /\ config.redis_required => held /\ pool["redis"] = "open"
        /\ probe = [kind |-> "ready", step |-> "ok"] => Required \subseteq wasUp

\* A process that has stopped has closed what it opened, wherever its startup failed; but
\* for the closing that failed, which keeps the database from being closed, and for the
\* bot of a startup that failed behind it (set_webhook, app/main.py:213).
ClosedWhenStopped ==
    phase = "stopped" =>
        /\ ~held
        /\ pool["redis"] = "open" => "redis" \in unclosed
        /\ pool["database"] = "open" => unclosed \intersect {"redis", "database"} # {}
        /\ pool["bot"] = "open" => "bot" \in unclosed \/ broken

\* Both, of one life.
LifespanIsClean == ReadyIsBacked /\ ClosedWhenStopped

================================================================================
