---------------------------- MODULE ServiceLifespan ----------------------------
(***************************************************************************)
(* The life of a service: the lifespan of market-service (main.py) and the *)
(* one of the template (service.py), which differ in the pipeline.  NATS,  *)
(* Redis, pipeline, health event; then requests; then all of it backwards. *)
(* Requests are served in between only.  The Redis client is synchronous:  *)
(* while a ping has no answer, nothing else of the service runs.           *)
(***************************************************************************)
EXTENDS NatsClient

VARIABLES redis,        \* the server: up, down, or it takes requests and is silent
          life,         \* where each process is
          pipe,         \* its pipeline runs
          mode,         \* provider_mode of that
          blocked       \* its event loop waits for Redis

lifeVars == <<redis, life, pipe, mode, blocked>>

HasPipeline(s) == s = "market-service"
HealthEvent == <<"v1", "system", "health">>
ASSUME HealthAssumption == HealthEvent \in Subjects

Modes == {"starting", "primary", "degraded"}     \* "fallback" tells the same as "degraded"
LifeStates == {"off", "connectNats", "connectRedis", "startPipeline", "announce",
               "serving", "stopPipeline", "closeNats", "closeRedis"}

LifeInit ==
    /\ redis = "up"
    /\ life = [s \in Services |-> "off"] /\ pipe = [s \in Services |-> FALSE]
    /\ mode = [s \in Services |-> "starting"] /\ blocked = [s \in Services |-> FALSE]

At(s, place) == life[s] = place /\ ~blocked[s]
Goto(s, place) == life' = [life EXCEPT ![s] = place]

Launch(s) == At(s, "off") /\ Goto(s, "connectNats") /\ UNCHANGED <<redis, pipe, mode, blocked>> /\ NatsIdle

\* The process ends without the second half of the lifespan.
Exit(s) ==
    /\ Goto(s, "off") /\ Vanish(s)
    /\ pipe' = [pipe EXCEPT ![s] = FALSE]
    /\ mode' = [mode EXCEPT ![s] = "starting"]
    /\ blocked' = [blocked EXCEPT ![s] = FALSE]
    /\ UNCHANGED redis

ConnectNats(s) ==
    /\ At(s, "connectNats")
    /\ Connect(s) /\ Goto(s, "connectRedis")
    /\ UNCHANGED <<redis, pipe, mode, blocked>>

ConnectRedis(s) ==
    /\ At(s, "connectRedis") /\ redis = "up"
    /\ Goto(s, IF HasPipeline(s) THEN "startPipeline" ELSE "announce")
    /\ UNCHANGED <<redis, pipe, mode, blocked>> /\ NatsIdle

StartPipeline(s) ==
    /\ At(s, "startPipeline")
    /\ pipe' = [pipe EXCEPT ![s] = TRUE]
    /\ Goto(s, "announce")
    /\ UNCHANGED <<redis, mode, blocked>> /\ NatsIdle

Announce(s) ==
    /\ At(s, "announce")
    /\ Publish(s, HealthEvent) /\ Goto(s, "serving")
    /\ UNCHANGED <<redis, pipe, mode, blocked>>

\* A step of the start raises, and the process exits: NATS or TimescaleDB cannot
\* be reached, Redis refuses, or the health event cannot be published, although
\* the pipeline runs.
StartFails(s) ==
    /\ \/ At(s, "connectNats") \/ At(s, "startPipeline")
       \/ At(s, "connectRedis") /\ redis = "down"
       \/ At(s, "announce") /\ link[s] = "closed"
    /\ Exit(s)

Crash(s) == life[s] # "off" /\ Exit(s)

Shutdown(s) ==
    /\ At(s, "serving")
    /\ Goto(s, IF HasPipeline(s) THEN "stopPipeline" ELSE "closeNats")
    /\ UNCHANGED <<redis, pipe, mode, blocked>> /\ NatsIdle

StopPipeline(s) ==
    /\ At(s, "stopPipeline")
    /\ pipe' = [pipe EXCEPT ![s] = FALSE]
    /\ Goto(s, "closeNats")
    /\ UNCHANGED <<redis, mode, blocked>> /\ NatsIdle

\* Mutant: NATS is closed before the pipeline is stopped.
CloseNatsFirst(s) ==
    /\ At(s, "serving") \/ At(s, "closeNats")
    /\ Close(s)
    /\ Goto(s, IF pipe[s] THEN "stopPipeline" ELSE "closeRedis")
    /\ UNCHANGED <<redis, pipe, mode, blocked>>

CloseNats(s) ==
    /\ At(s, "closeNats")
    /\ Close(s) /\ Goto(s, "closeRedis")
    /\ UNCHANGED <<redis, pipe, mode, blocked>>

CloseRedis(s) == At(s, "closeRedis") /\ Exit(s)

\* Whatever publishes in a service: the consumer of the pipeline, a handler.
PublishSome(s) ==
    /\ ~blocked[s] /\ (life[s] = "serving" \/ pipe[s])
    /\ \E subject \in Subjects : Publish(s, subject)
    /\ UNCHANGED lifeVars

\* The pipeline follows its provider.
ChangeMode(s) ==
    /\ pipe[s] /\ ~blocked[s]
    /\ \E m \in Modes \ {"starting"} : mode' = [mode EXCEPT ![s] = m]
    /\ UNCHANGED <<redis, life, pipe, blocked>> /\ NatsIdle

-----------------------------------------------------------------------------
(* The endpoints.                                                          *)

Ready(s) == IsConnected(s) /\ redis = "up"

Health(s) ==
    IF Ready(s) /\ mode[s] # "degraded" THEN "healthy" ELSE "degraded"

\* connect() at the start, or anybody's /health, pings Redis while it is silent:
\* ping() waits for it, and with it the event loop.
Ping(s) ==
    /\ At(s, "connectRedis") \/ At(s, "serving")
    /\ redis = "silent"
    /\ blocked' = [blocked EXCEPT ![s] = TRUE]
    /\ UNCHANGED <<redis, life, pipe, mode>> /\ NatsIdle

\* Redis comes, goes, and falls silent; a ping that waits gets its answer.
RedisTurns ==
    /\ redis' \in {"up", "down", "silent"} \ {redis}
    /\ blocked' = [s \in Services |-> redis' = "silent" /\ blocked[s]]
    /\ UNCHANGED <<life, pipe, mode>> /\ NatsIdle

ServiceStep(s) ==
    \/ Launch(s) \/ ConnectNats(s) \/ ConnectRedis(s) \/ StartPipeline(s) \/ Announce(s)
    \/ StartFails(s) \/ Crash(s)
    \/ Shutdown(s) \/ StopPipeline(s) \/ CloseNats(s) \/ CloseRedis(s)
    \/ PublishSome(s) \/ ChangeMode(s) \/ Ping(s)
    \/ ~blocked[s] /\ ClientStep(s) /\ UNCHANGED lifeVars

ServicesStep == \/ \E s \in Services : ServiceStep(s)
                \/ RedisTurns

-----------------------------------------------------------------------------
\* The pipeline publishes to the end: its service does not close NATS under it.
NatsOutlivesPipeline == \A s \in Services : pipe[s] => link[s] \notin {"none", "drained"}

\* While a client stays connected it loses no event but by the end of its process:
\* close() drains it.  Only one whose connection breaks while it sends, or that was
\* not connected when it gave up, was closed or ended, keeps an event from the server.
LostOnlyOffline ==
    [][\A s \in Services : \A e \in pending[s] \ pending'[s] :
          \/ [from |-> s, subject |-> e] \in bus'
          \/ link[s] # "open" \/ link'[s] = "lost"
          \/ life'[s] = "off"]_<<natsVars, lifeVars>>
=============================================================================
