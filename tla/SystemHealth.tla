----------------------------- MODULE SystemHealth ------------------------------
(***************************************************************************)
(* GET /system/health of the gateway: it asks each service for its /health,*)
(* one after the other, 3 seconds each, while the services come, go, lose  *)
(* their connections and block.                                            *)
(***************************************************************************)
EXTENDS ServiceLifespan

CONSTANT Upstreams      \* SERVICE_UPSTREAMS, in its order

ASSUME UpstreamsAssumption ==
    Upstreams \in Seq(Services) /\ Services = {Upstreams[i] : i \in DOMAIN Upstreams} /\ Services # {}

VARIABLES asked,        \* the service that is asked, by its place; 0: no request
          reply,        \* what that service said, on its way back
          allHealthy,   \* all_healthy
          answer,       \* the last answer of the gateway
          witnessed     \* history: who was healthy at some moment of the request

healthVars == <<asked, reply, allHealthy, answer, witnessed>>
vars == <<natsVars, lifeVars, healthVars>>

Replies == {"none", "healthy", "degraded"}
Healthy == {s \in Services : life[s] = "serving" /\ ~blocked[s] /\ Health(s) = "healthy"}

Init == /\ NatsInit /\ LifeInit
        /\ asked = 0 /\ reply = "none" /\ allHealthy = TRUE /\ answer = "none" /\ witnessed = {}

Request ==
    /\ asked = 0
    /\ asked' = 1 /\ answer' = "none" /\ witnessed' = Healthy
    /\ UNCHANGED <<reply, allHealthy>>

\* The service answers, unless Redis keeps it from doing so (Ping).
Serve ==
    /\ asked # 0 /\ reply = "none"
    /\ At(Upstreams[asked], "serving") /\ redis # "silent"
    /\ reply' = Health(Upstreams[asked])
    /\ UNCHANGED <<asked, allHealthy, answer, witnessed>>

\* Mutant: one service too many.
HeardOneMore(healthy) ==
    /\ asked' = IF asked > Len(Upstreams) THEN 0 ELSE asked + 1
    /\ reply' = "none" /\ allHealthy' = (allHealthy /\ healthy)
    /\ UNCHANGED <<answer, witnessed>>

\* On to the next service, or the answer.
Heard(healthy) ==
    /\ reply' = "none" /\ UNCHANGED witnessed
    /\ \/ /\ asked < Len(Upstreams)
          /\ asked' = asked + 1 /\ allHealthy' = (allHealthy /\ healthy) /\ answer' = "none"
       \/ /\ asked = Len(Upstreams)
          /\ asked' = 0 /\ allHealthy' = TRUE
          /\ answer' = IF allHealthy /\ healthy THEN "healthy" ELSE "degraded"

Answered == reply # "none" /\ Heard(reply = "healthy")

\* Mutant: an exception is noted in the results and not in all_healthy.
UnreachableIgnored == asked # 0 /\ Heard(TRUE)

\* Mutant: no timeout; only a connection that is refused raises.
UnreachableRefused == asked # 0 /\ life[Upstreams[asked]] # "serving" /\ Heard(FALSE)

\* The connection is refused, or breaks, or there is no answer within 3 seconds.
Unreachable == asked # 0 /\ Heard(FALSE)

Elsewhere == NatsIdle /\ UNCHANGED lifeVars
Poll == (Request \/ Serve \/ Answered \/ Unreachable) /\ Elsewhere

\* The services go on.  An answer that was given is forgotten,
\* and so is the history of a request that can only be answered "degraded".
ServicesGoOn ==
    /\ ServicesStep
    /\ UNCHANGED <<asked, reply, allHealthy>> /\ answer' = "none"
    /\ witnessed' = IF asked = 0 \/ ~allHealthy THEN {} ELSE witnessed \cup Healthy'

Next == Poll \/ ServicesGoOn

Spec == Init /\ [][Next]_vars

\* The request goes on: each service answers or is timed out.
FairSpec == Spec /\ WF_vars((Answered \/ Unreachable) /\ Elsewhere)

-----------------------------------------------------------------------------
\* The type invariant.
TypeOK ==
    /\ link \in [Services -> LinkStates] /\ pending \in [Services -> SUBSET Subjects]
    /\ bus \subseteq [from : Services, subject : Subjects]
    /\ redis \in {"up", "down", "silent"} /\ life \in [Services -> LifeStates]
    /\ pipe \in [Services -> BOOLEAN] /\ mode \in [Services -> Modes]
    /\ blocked \in [Services -> BOOLEAN] /\ \A s \in Services : blocked[s] => redis = "silent"
    /\ asked \in 0..Len(Upstreams) /\ allHealthy \in BOOLEAN
    /\ {reply, answer} \subseteq Replies /\ witnessed \subseteq Services

\* "healthy" is no snapshot, but it is not made up either: each service was healthy
\* at some moment of the request.
HealthyWasSeen == answer = "healthy" => witnessed = Services

\* The request is answered, although services hang and never answer.
HealthIsAnswered == asked # 0 ~> asked = 0
=============================================================================
