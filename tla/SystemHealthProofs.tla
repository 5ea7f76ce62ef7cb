-------------------------- MODULE SystemHealthProofs ---------------------------
(***************************************************************************)
(* The lives of the services, what becomes of their events, and what the   *)
(* gateway says of them, for any services, subjects and orders to ask in.  *)
(***************************************************************************)
EXTENDS SystemHealth, TLAPS

USE UpstreamsAssumption

-----------------------------------------------------------------------------
(* The types, client by client and service by service.                     *)

ClientsTyped ==
    /\ link \in [Services -> LinkStates] /\ pending \in [Services -> SUBSET Subjects]
    /\ bus \subseteq [from : Services, subject : Subjects]

ServicesTyped ==
    /\ redis \in {"up", "down", "silent"} /\ life \in [Services -> LifeStates]
    /\ pipe \in [Services -> BOOLEAN] /\ mode \in [Services -> Modes]
    /\ blocked \in [Services -> BOOLEAN] /\ \A s \in Services : blocked[s] => redis = "silent"

RequestTyped ==
    /\ asked \in 0..Len(Upstreams) /\ allHealthy \in BOOLEAN
    /\ reply \in Replies /\ answer \in Replies /\ witnessed \subseteq Services

\* The invariant of the client of NATS: only publish() adds to what is kept.
LEMMA ClientTypes ==
    ASSUME ClientsTyped, ServicesStep PROVE ClientsTyped'
  <1> USE DEF ClientsTyped, LinkStates
  <1>1. NatsIdle => ClientsTyped'
    BY DEF NatsIdle, NothingSent
  <1>2. ASSUME NEW s \in Services, Vanish(s) PROVE ClientsTyped'
    BY <1>2 DEF Vanish, Emptied, NothingSent
  <1>3. ASSUME NEW s \in Services, ClientStep(s) \/ Connect(s) \/ Close(s) PROVE ClientsTyped'
    <2>1. CASE Sent(s) /\ Emptied(s) /\ link' \in [Services -> LinkStates]
      <3>1. pending[s] \subseteq Subjects
        OBVIOUS
      <3>2. bus' \subseteq [from : Services, subject : Subjects]
        BY <2>1, <3>1 DEF Sent
      <3> QED BY <2>1, <3>2 DEF Emptied
    <2>2. CASE NothingSent /\ Emptied(s) /\ link' \in [Services -> LinkStates]
      BY <2>2 DEF NothingSent, Emptied
    <2>3. CASE NothingSent /\ UNCHANGED pending /\ link' \in [Services -> LinkStates]
      BY <2>3 DEF NothingSent
    <2>4. CASE Lose(s)
      <3>1. PICK written \in SUBSET pending[s] : \E got \in SUBSET written :
                /\ bus' = {[from |-> s, subject |-> e] : e \in got}
                /\ pending' = [pending EXCEPT ![s] = @ \ written]
        BY <2>4 DEF Lose
      <3>2. bus' \subseteq [from : Services, subject : Subjects]
        <4>1. pending[s] \subseteq Subjects
          OBVIOUS
        <4> QED BY <3>1, <4>1
      <3>3. pending' \in [Services -> SUBSET Subjects]
        BY <3>1
      <3> QED BY <2>4, <3>2, <3>3 DEF Lose
    <2> QED BY <1>1, <1>3, <2>1, <2>2, <2>3, <2>4
            DEF ClientStep, Transmit, Reconnect, GiveUp, Connect, Close
  <1>4. ASSUME NEW s \in Services, \E subject \in Subjects : Publish(s, subject)
        PROVE  ClientsTyped'
    BY <1>4, SMTT(30) DEF Publish, NothingSent
  <1>5. CASE RedisTurns
    BY <1>1, <1>5 DEF RedisTurns
  <1>6. ASSUME NEW s \in Services, Announce(s) PROVE ClientsTyped'
    <2>1. Publish(s, HealthEvent)
      BY <1>6 DEF Announce
    <2> QED BY <1>4, <2>1, HealthAssumption
  <1>7. ASSUME NEW s \in Services, ServiceStep(s) PROVE ClientsTyped'
    BY <1>1, <1>2, <1>3, <1>4, <1>6, <1>7
       DEF ServiceStep, Launch, ConnectNats, ConnectRedis, StartPipeline, StartFails, Crash,
           Exit, Shutdown, StopPipeline, CloseNats, CloseRedis, PublishSome, ChangeMode, Ping
  <1> QED BY <1>5, <1>7 DEF ServicesStep

\* The services: where each is, and what its pipeline and its event loop do.
LEMMA ServiceTypes ==
    ASSUME ServicesTyped, ServicesStep PROVE ServicesTyped'
  <1> USE DEF ServicesTyped, LifeStates, Modes
  <1>1. UNCHANGED lifeVars => ServicesTyped'
    BY DEF lifeVars
  <1>2. ASSUME NEW s \in Services, Exit(s) PROVE ServicesTyped'
    BY <1>2 DEF Exit, Goto
  <1>3. ASSUME NEW s \in Services, NEW place \in LifeStates, Goto(s, place),
               UNCHANGED <<redis, mode, blocked>>, pipe' \in [Services -> BOOLEAN]
        PROVE  ServicesTyped'
    BY <1>3 DEF Goto
  <1>4. ASSUME NEW s \in Services,
               Launch(s) \/ ConnectNats(s) \/ ConnectRedis(s) \/ StartPipeline(s) \/ Announce(s)
                 \/ Shutdown(s) \/ StopPipeline(s) \/ CloseNats(s)
        PROVE  ServicesTyped'
    <2>1. UNCHANGED <<redis, mode, blocked>> /\ pipe' \in [Services -> BOOLEAN]
      BY <1>4 DEF Launch, ConnectNats, ConnectRedis, StartPipeline, Announce, Shutdown,
                  StopPipeline, CloseNats
    <2>2. PICK place \in LifeStates : Goto(s, place)
      BY <1>4 DEF Launch, ConnectNats, ConnectRedis, StartPipeline, Announce, Shutdown,
                  StopPipeline, CloseNats
    <2> QED BY <1>3, <2>1, <2>2
  <1>5. ASSUME NEW s \in Services, ChangeMode(s) \/ Ping(s) PROVE ServicesTyped'
    BY <1>5, ZenonT(30) DEF ChangeMode, Ping
  <1>6. CASE RedisTurns
    BY <1>6 DEF RedisTurns
  <1>7. ASSUME NEW s \in Services, ServiceStep(s) PROVE ServicesTyped'
    BY <1>1, <1>2, <1>4, <1>5, <1>7
       DEF ServiceStep, StartFails, Crash, CloseRedis, PublishSome
  <1> QED BY <1>6, <1>7 DEF ServicesStep

-----------------------------------------------------------------------------
(* The request of the gateway.  As long as it can still be answered        *)
(* "healthy", whoever is healthy now, and whoever was asked, was seen.     *)

RequestInv ==
    /\ RequestTyped
    /\ reply # "none" => asked # 0
    /\ answer # "none" => asked = 0
    /\ asked # 0 /\ allHealthy => Healthy \subseteq witnessed
    /\ asked # 0 /\ allHealthy => \A i \in 1..asked - 1 : Upstreams[i] \in witnessed
    /\ asked # 0 /\ reply = "healthy" /\ allHealthy => Upstreams[asked] \in witnessed
    /\ HealthyWasSeen

LEMMA SomebodyIsAsked == Len(Upstreams) \in Nat \ {0}
  <1>1. PICK i \in DOMAIN Upstreams : TRUE
    OBVIOUS
  <1> QED BY <1>1

\* The services that are healthy stay so while the gateway takes a step.
LEMMA HealthyStays == ASSUME Elsewhere PROVE Healthy' = Healthy
  BY DEF Elsewhere, NatsIdle, lifeVars, Healthy, Health, Ready, IsConnected

LEMMA RequestStep ==
    ASSUME ServicesTyped, RequestInv, Poll \/ ServicesGoOn PROVE RequestInv'
  <1> USE SomebodyIsAsked DEF RequestInv, RequestTyped, Replies, HealthyWasSeen
  <1>1. CASE Request /\ Elsewhere
    BY <1>1, HealthyStays DEF Request, Healthy
  <1>2. CASE Serve /\ Elsewhere
    <2>1. Upstreams[asked] \in Services
      BY <1>2 DEF Serve
    <2>2. reply' \in {"healthy", "degraded"}
      BY <1>2 DEF Serve, Health
    <2>3. reply' = "healthy" => Upstreams[asked] \in Healthy
      BY <1>2, <2>1 DEF Serve, At, Healthy
    <2> QED BY <1>2, <2>1, <2>2, <2>3, HealthyStays DEF Serve
  <1>3. ASSUME asked # 0, Elsewhere, NEW healthy \in BOOLEAN, Heard(healthy),
               healthy => reply = "healthy"
        PROVE  RequestInv'
    <2>1. CASE asked < Len(Upstreams)
      BY <1>3, <2>1, HealthyStays DEF Heard
    <2>2. CASE asked = Len(Upstreams)
      <3>1. allHealthy /\ healthy => \A i \in 1..Len(Upstreams) : Upstreams[i] \in witnessed
        BY <1>3, <2>2
      <3>2. \A s \in Services : \E i \in 1..Len(Upstreams) : s = Upstreams[i]
        OBVIOUS
      <3>3. allHealthy /\ healthy => witnessed = Services
        BY <3>1, <3>2
      <3>4. /\ asked' = 0 /\ allHealthy' = TRUE /\ reply' = "none" /\ UNCHANGED witnessed
            /\ answer' = IF allHealthy /\ healthy THEN "healthy" ELSE "degraded"
        BY <1>3, <2>2 DEF Heard
      <3>5. answer' \in {"healthy", "degraded"} /\ (answer' = "healthy" => witnessed = Services)
        BY <3>3, <3>4
      <3> QED BY <3>4, <3>5
    <2> QED BY <1>3, <2>1, <2>2 DEF Heard
  <1>4. CASE Answered /\ Elsewhere
    BY <1>3, <1>4 DEF Answered
  <1>5. CASE Unreachable /\ Elsewhere
    BY <1>3, <1>5 DEF Unreachable
  <1>6. CASE ServicesGoOn
    <2>1. Healthy' \subseteq Services
      BY DEF Healthy
    <2> QED BY <1>6, <2>1 DEF ServicesGoOn
  <1> QED BY <1>1, <1>2, <1>4, <1>5, <1>6 DEF Poll
-----------------------------------------------------------------------------
(* NATS and the pipeline: who runs a pipeline, and where its service is.   *)

LifeInv ==
    /\ \A s \in Services : pipe[s] => HasPipeline(s) /\ life[s] \in {"announce", "serving", "stopPipeline"}
    /\ \A s \in Services : life[s] = "startPipeline" => HasPipeline(s)
    /\ \A s \in Services :
          life[s] \in {"connectRedis", "startPipeline", "announce", "serving", "stopPipeline"}
            => link[s] \notin {"none", "drained"}

\* The services that do not take the step, and the links nats-py moves by itself.
LEMMA LifeStep ==
    ASSUME ClientsTyped, ServicesTyped, LifeInv, ServicesStep PROVE LifeInv'
  <1> USE DEF ClientsTyped, ServicesTyped, LifeInv
  <1>1. ASSUME UNCHANGED <<link, pipe, life>> PROVE LifeInv'
    BY <1>1
  <1>2. ASSUME NEW s \in Services, Launch(s) PROVE LifeInv'
    BY <1>2 DEF Launch, At, Goto, NatsIdle
  <1>3. ASSUME NEW s \in Services, Exit(s) PROVE LifeInv'
    BY <1>3, ZenonT(30) DEF Exit, Goto, Vanish
  <1>4. ASSUME NEW s \in Services, ConnectNats(s) PROVE LifeInv'
    BY <1>4, ZenonT(30) DEF ConnectNats, At, Goto, Connect
  <1>5. ASSUME NEW s \in Services, ConnectRedis(s) PROVE LifeInv'
    BY <1>5 DEF ConnectRedis, At, Goto, NatsIdle
  <1>6. ASSUME NEW s \in Services, StartPipeline(s) PROVE LifeInv'
    BY <1>6 DEF StartPipeline, At, Goto, NatsIdle
  <1>7. ASSUME NEW s \in Services, Announce(s) PROVE LifeInv'
    BY <1>7 DEF Announce, At, Goto, Publish
  <1>8. ASSUME NEW s \in Services, Shutdown(s) PROVE LifeInv'
    BY <1>8 DEF Shutdown, At, Goto, NatsIdle
  <1>9. ASSUME NEW s \in Services, StopPipeline(s) PROVE LifeInv'
    BY <1>9 DEF StopPipeline, At, Goto, NatsIdle
  <1>10. ASSUME NEW s \in Services, CloseNats(s) PROVE LifeInv'
    <2>1. ~pipe[s] /\ life[s] = "closeNats" /\ life' = [life EXCEPT ![s] = "closeRedis"] /\ UNCHANGED pipe
      BY <1>10 DEF CloseNats, At, Goto
    <2>2. link' = link \/ link' = [link EXCEPT ![s] = "drained"]
      BY <1>10 DEF CloseNats, Close, NatsIdle
    <2> QED BY <2>1, <2>2
  <1>11. ASSUME NEW s \in Services, ClientStep(s), UNCHANGED lifeVars PROVE LifeInv'
    <2>1. \/ UNCHANGED link
          \/ link[s] \in {"open", "lost"} /\ \E l \in {"open", "lost", "closed"} : link' = [link EXCEPT ![s] = l]
      BY <1>11 DEF ClientStep, Transmit, Lose, Reconnect, GiveUp, IsConnected
    <2> QED BY <1>11, <2>1 DEF lifeVars
  <1>12. ASSUME NEW s \in Services, PublishSome(s) \/ ChangeMode(s) \/ Ping(s) PROVE LifeInv'
    BY <1>1, <1>12 DEF PublishSome, Publish, ChangeMode, Ping, NatsIdle, lifeVars
  <1>13. CASE RedisTurns
    BY <1>1, <1>13 DEF RedisTurns, NatsIdle
  <1>14. ASSUME NEW s \in Services, ServiceStep(s) PROVE LifeInv'
    BY <1>2, <1>3, <1>4, <1>5, <1>6, <1>7, <1>8, <1>9, <1>10, <1>11, <1>12, <1>14
       DEF ServiceStep, StartFails, Crash, CloseRedis
  <1> QED BY <1>13, <1>14 DEF ServicesStep

-----------------------------------------------------------------------------
(* Orders: what a client keeps and what the server got, its service may    *)
(* publish.                                                                *)

Permitted ==
    /\ \A s \in Services : \A subject \in pending[s] : CanPublish(s, subject)
    /\ \A e \in bus : CanPublish(e.from, e.subject)

LEMMA PermittedStep ==
    ASSUME ClientsTyped, Permitted, ServicesStep PROVE Permitted'
  <1> USE DEF ClientsTyped, Permitted
  <1>1. ASSUME NothingSent, UNCHANGED pending PROVE Permitted'
    BY <1>1 DEF NothingSent
  <1>2. ASSUME NEW s \in Services, NothingSent, Emptied(s) PROVE Permitted'
    BY <1>2 DEF NothingSent, Emptied
  <1>3. ASSUME NEW s \in Services, Sent(s), Emptied(s) PROVE Permitted'
    <2>1. \A e \in bus' : e.from = s /\ e.subject \in pending[s]
      BY <1>3 DEF Sent
    <2> QED BY <1>3, <2>1 DEF Emptied
  <1>4. ASSUME NEW s \in Services, NEW subject \in Subjects, Publish(s, subject) PROVE Permitted'
    BY <1>4 DEF Publish, NothingSent
  <1>6. ASSUME NEW s \in Services, Lose(s) PROVE Permitted'
    <2>1. PICK written \in SUBSET pending[s] : \E got \in SUBSET written :
              /\ bus' = {[from |-> s, subject |-> e] : e \in got}
              /\ pending' = [pending EXCEPT ![s] = @ \ written]
      BY <1>6 DEF Lose
    <2>2. \A e \in bus' : e.from = s /\ e.subject \in pending[s]
      BY <2>1
    <2>3. \A t \in Services : pending'[t] \subseteq pending[t]
      BY <2>1
    <2> QED BY <2>2, <2>3
  <1>5. ASSUME NEW s \in Services, ServiceStep(s) PROVE Permitted'
    BY <1>1, <1>2, <1>3, <1>4, <1>5, <1>6, HealthAssumption
       DEF ServiceStep, Launch, ConnectNats, Connect, ConnectRedis, StartPipeline, Announce,
           StartFails, Crash, Exit, Vanish, Shutdown, StopPipeline, CloseNats, Close, CloseRedis,
           PublishSome, ChangeMode, Ping, ClientStep, Transmit, Reconnect, GiveUp, NatsIdle
  <1> QED BY <1>1, <1>5 DEF ServicesStep, RedisTurns, NatsIdle

-----------------------------------------------------------------------------
HealthInv == ClientsTyped /\ ServicesTyped /\ LifeInv /\ Permitted /\ RequestInv

LEMMA HealthInit == Init => HealthInv
  BY SomebodyIsAsked
     DEF Init, NatsInit, LifeInit, HealthInv, ClientsTyped, ServicesTyped, LifeInv, Permitted,
         RequestInv, RequestTyped, HealthyWasSeen, LinkStates, LifeStates, Modes, Replies

LEMMA HealthStep == HealthInv /\ [Next]_vars => HealthInv'
  <1> SUFFICES ASSUME HealthInv, [Next]_vars PROVE HealthInv'
    OBVIOUS
  <1> USE DEF HealthInv
  <1>1. CASE ServicesGoOn
    BY <1>1, ClientTypes, ServiceTypes, LifeStep, PermittedStep, RequestStep DEF ServicesGoOn
  <1>2. ASSUME NatsIdle, UNCHANGED lifeVars 
        PROVE  ClientsTyped' /\ ServicesTyped' /\ LifeInv' /\ Permitted'
    BY <1>2 DEF NatsIdle, NothingSent, lifeVars, ClientsTyped, ServicesTyped, LifeInv, Permitted
  <1>3. CASE Poll
    BY <1>2, <1>3, RequestStep DEF Poll, Elsewhere
  <1>4. CASE UNCHANGED vars
    BY <1>4 DEF vars, natsVars, lifeVars, healthVars, ClientsTyped, ServicesTyped, LifeInv,
               Permitted, RequestInv, RequestTyped, HealthyWasSeen, Healthy, Health, Ready, IsConnected
  <1> QED BY <1>1, <1>3, <1>4 DEF Next

LEMMA HealthAlways == Spec => []HealthInv
  BY HealthInit, HealthStep, PTL DEF Spec

\* Type correctness: whatever services there are, in whatever order they are asked.
THEOREM TypeCorrect == Spec => []TypeOK
  <1>1. HealthInv => TypeOK
    BY DEF HealthInv, ClientsTyped, ServicesTyped, RequestInv, RequestTyped, TypeOK
  <1> QED BY HealthAlways, <1>1, PTL

\* Only the execution service publishes orders, with the permission that publish()
\* checks, whatever is kept, sent later, or left behind by a life that ended.
THEOREM OrdersArePermitted == Spec => []OrdersComeFromExecution
  <1>1. HealthInv => OrdersComeFromExecution
    BY ContractAssumption
       DEF HealthInv, ClientsTyped, Permitted, CanPublish, OrdersComeFromExecution
  <1> QED BY HealthAlways, <1>1, PTL

\* The lifespan of a service never closes NATS under its pipeline: not when the start
\* fails, nor when the service stops or ends, whatever the connection does meanwhile.
THEOREM NatsOutlives == Spec => []NatsOutlivesPipeline
  <1>1. HealthInv => NatsOutlivesPipeline
    BY DEF HealthInv, LifeInv, NatsOutlivesPipeline
  <1> QED BY HealthAlways, <1>1, PTL

\* The gateway says "healthy" only if it saw each service healthy during the request,
\* for any number of services, which come and go while they are asked.
THEOREM HealthyIsTrue == Spec => []HealthyWasSeen
  <1>1. HealthInv => HealthyWasSeen
    BY DEF HealthInv, RequestInv
  <1> QED BY HealthAlways, <1>1, PTL

\* The client of NATS keeps what it was given until the server has it, its connection
\* breaks while it sends, it is not connected any more, or its process ends.
THEOREM ConnectedLosesNothing == Spec => LostOnlyOffline
  <1> DEFINE Kept ==
        \A s \in Services : \A e \in pending[s] \ pending'[s] :
            \/ [from |-> s, subject |-> e] \in bus'
            \/ link[s] # "open" \/ link'[s] = "lost"
            \/ life'[s] = "off"
  <1>1. HealthInv /\ [Next]_vars => [Kept]_<<natsVars, lifeVars>>
    <2> SUFFICES ASSUME HealthInv, [Next]_vars PROVE Kept
      OBVIOUS
    <2> USE DEF HealthInv, ClientsTyped, ServicesTyped
    <2>1. ASSUME UNCHANGED pending PROVE Kept
      BY <2>1
    <2>2. ASSUME NEW s \in Services, Exit(s) PROVE Kept
      <3>1. life'[s] = "off" /\ \A t \in Services \ {s} : pending'[t] = pending[t]
        BY <2>2 DEF Exit, Goto, Vanish, Emptied
      <3> QED BY <3>1
    <2>3. ASSUME NEW s \in Services, Sent(s), Emptied(s) PROVE Kept
      BY <2>3 DEF Sent, Emptied
    <2>4. ASSUME NEW s \in Services, GiveUp(s) PROVE Kept
      BY <2>4 DEF GiveUp, Emptied
    <2>5. ASSUME NEW s \in Services, NEW subject \in Subjects, Publish(s, subject) PROVE Kept
      BY <2>5 DEF Publish
    <2>9. ASSUME NEW s \in Services, Lose(s) PROVE Kept
      BY <2>9 DEF Lose
    <2>6. ASSUME NEW s \in Services, ServiceStep(s) PROVE Kept
      BY <2>1, <2>2, <2>3, <2>4, <2>5, <2>6, <2>9, HealthAssumption
         DEF ServiceStep, Launch, ConnectNats, Connect, ConnectRedis, StartPipeline, Announce,
             StartFails, Crash, Shutdown, StopPipeline, CloseNats, Close, CloseRedis, PublishSome,
             ChangeMode, Ping, ClientStep, Transmit, Reconnect, NatsIdle
    <2>7. CASE RedisTurns
      BY <2>1, <2>7 DEF RedisTurns, NatsIdle
    <2>8. CASE Poll \/ UNCHANGED vars
      BY <2>1, <2>8 DEF Poll, Elsewhere, NatsIdle, vars, natsVars
    <2> QED BY <2>6, <2>7, <2>8 DEF Next, ServicesGoOn, ServicesStep
  <1> QED BY HealthAlways, <1>1, PTL DEF Spec, LostOnlyOffline
=============================================================================
