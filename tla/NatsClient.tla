------------------------------ MODULE NatsClient -------------------------------
(***************************************************************************)
(* NatsClient of src/shared, one per service: who may publish what, and    *)
(* what becomes of an event between publish() and the server.  nats-py     *)
(* keeps events in memory, sends them while it is connected, reconnects by *)
(* itself and after a while gives up.  An event is its subject.            *)
(***************************************************************************)
EXTENDS Integers, Sequences, FiniteSets

CONSTANTS Services,
          Subjects,      \* a subject is a sequence of tokens
          Versions,      \* the tokens that begin with "v"
          MaxPending     \* bound on the events a client keeps

ASSUME NatsAssumption == \A subject \in Subjects : subject # <<>>

VARIABLES link,        \* the connection of each service
          pending,     \* what it was given and has not sent
          bus          \* what the server was given in the last step

natsVars == <<link, pending, bus>>

\* "lost": nats-py tries to reconnect; "closed": it gave up; "drained": close().
LinkStates == {"none", "open", "lost", "closed", "drained"}

NatsInit == link = [s \in Services |-> "none"] /\ pending = [s \in Services |-> {}] /\ bus = {}

IsConnected(s) == link[s] = "open"

\* The event type is the subject without a leading version, whichever it is.
EventType(subject) == IF Head(subject) \in Versions THEN Tail(subject) ELSE subject
IsOrder(subject) == Len(subject) > 1 /\ Head(subject) = "order"

\* Mutant: the version is not taken off.
CanPublishVersioned(s, subject) == IsOrder(subject) => s = "execution-service"

CanPublish(s, subject) == IsOrder(EventType(subject)) => s = "execution-service"

\* A subject that speaks of orders is of the form "order.*", with or without a version.
ASSUME ContractAssumption ==
    \A subject \in Subjects :
        (\E i \in DOMAIN subject : subject[i] = "order") => IsOrder(EventType(subject))

NothingSent == bus' = {}
NatsIdle == UNCHANGED <<link, pending>> /\ NothingSent

\* publish, publish_event: permitted, and the client is not closed.  A client
\* that reconnects takes the event all the same.
Publish(s, subject) ==
    /\ CanPublish(s, subject)
    /\ link[s] \in {"open", "lost"}
    /\ pending' = [pending EXCEPT ![s] = @ \cup {subject}]
    /\ Cardinality(pending'[s]) <= MaxPending
    /\ UNCHANGED link /\ NothingSent

Connect(s) == link' = [link EXCEPT ![s] = "open"] /\ UNCHANGED pending /\ NothingSent

Sent(s) == bus' = {[from |-> s, subject |-> e] : e \in pending[s]}
Emptied(s) == pending' = [pending EXCEPT ![s] = {}]

\* Mutant: the connection is closed and not drained.
CloseUndrained(s) ==
    /\ link' = [link EXCEPT ![s] = "drained"]
    /\ Emptied(s) /\ NothingSent

\* close: drain, if connected.
Close(s) ==
    \/ /\ IsConnected(s)
       /\ link' = [link EXCEPT ![s] = "drained"]
       /\ Sent(s) /\ Emptied(s)
    \/ ~IsConnected(s) /\ NatsIdle

\* The process is gone, and the client with it.
Vanish(s) == link' = [link EXCEPT ![s] = "none"] /\ Emptied(s) /\ NothingSent

\* What nats-py does by itself.
Transmit(s) == IsConnected(s) /\ pending[s] # {} /\ Sent(s) /\ Emptied(s) /\ UNCHANGED link

\* The connection breaks: of what has been written to the socket, the server got a part.
Lose(s) ==
    /\ IsConnected(s)
    /\ link' = [link EXCEPT ![s] = "lost"]
    /\ \E written \in SUBSET pending[s] : \E got \in SUBSET written :
        /\ bus' = {[from |-> s, subject |-> e] : e \in got}
        /\ pending' = [pending EXCEPT ![s] = @ \ written]

Reconnect(s) ==
    link[s] = "lost" /\ link' = [link EXCEPT ![s] = "open"] /\ UNCHANGED pending /\ NothingSent

GiveUp(s) ==
    link[s] = "lost" /\ link' = [link EXCEPT ![s] = "closed"] /\ Emptied(s) /\ NothingSent

ClientStep(s) == Transmit(s) \/ Lose(s) \/ Reconnect(s) \/ GiveUp(s)

-----------------------------------------------------------------------------
\* src/docs/infrastructure.md: only the execution service publishes "order.*",
\* under a versioned subject or the bare one.
OrdersComeFromExecution ==
    \A e \in bus : (\E i \in DOMAIN e.subject : e.subject[i] = "order") => e.from = "execution-service"
=============================================================================
