---------------------------- MODULE MarketDelivery ----------------------------
(***************************************************************************)
(* The events of the pipeline on their way to the subscribers.             *)
(* publish_event (nats_client.py) returns when nats-py has put the event   *)
(* into its memory; nats-py writes from there while it is connected, keeps *)
(* what it has not written while it reconnects, and drops it when it gives *)
(* up or its process ends.  What it has written is no longer in its        *)
(* memory, so what a broken connection swallows is not written again.      *)
(***************************************************************************)
EXTENDS MarketPipeline

VARIABLES link,          \* the connection of the NATS client
          outbox,        \* the events in its memory, in order
          published,     \* the events the server has received, in order
          lost           \* history: the events it was given and will never receive

clientVars == <<link, outbox, published, lost>>
dvars == <<vars, clientVars>>

\* "lost": nats-py tries to reconnect; "closed": it gave up, or its process ended
\* without a drain; "drained": close() of the lifespan is done.
LinkStates == {"open", "lost", "closed", "drained"}

\* The lifespan connects NATS before it starts the pipeline.
DInit == Init /\ link = "open" /\ outbox = <<>> /\ published = <<>> /\ lost = {}

-----------------------------------------------------------------------------
\* nats-py has the event that the consumer publishes; a closed client refuses it.
Entrusted ==
    \/ accepted' = accepted /\ UNCHANGED clientVars
    \/ /\ accepted' # accepted
       /\ link \in {"open", "lost"}
       /\ outbox' = Append(outbox, cur)
       /\ UNCHANGED <<link, published, lost>>

ProcessStep == LifeNext /\ Entrusted

\* nats-py loses the first n events of its memory.
Lost(n) ==
    /\ lost' = lost \cup {outbox[i] : i \in 1..n}
    /\ outbox' = SubSeq(outbox, n + 1, Len(outbox))
    /\ UNCHANGED published

\* What nats-py had in memory goes with the process, and a new client connects.
RestartClient == Restart /\ Lost(Len(outbox)) /\ link' = "open"

\* What nats-py does by itself.  An event that has been written reaches the server.
Transmit ==
    /\ link = "open" /\ outbox # <<>>
    /\ published' = Append(published, Head(outbox))
    /\ outbox' = Tail(outbox)
    /\ UNCHANGED <<link, lost>>

\* The connection breaks: the events that were written and had not arrived are lost.
Break ==
    /\ "nats" \in Faults
    /\ link = "open" /\ link' = "lost"
    /\ \E n \in 0..Len(outbox) : Lost(n)

Reconnect == link = "lost" /\ link' = "open" /\ UNCHANGED <<outbox, published, lost>>

GiveUp == link = "lost" /\ link' = "closed" /\ Lost(Len(outbox))

\* Mutant: the connection is closed and not drained.
CloseUndrained ==
    /\ life \in {"stopped", "failed"} /\ link = "open"
    /\ link' = "drained" /\ Lost(Len(outbox))

\* close: a client that is connected is drained, then closed.  One that is not goes
\* down with the process, as when it gives up.
Close ==
    /\ life \in {"stopped", "failed"} /\ link = "open"
    /\ outbox = <<>>
    /\ link' = "drained"
    /\ UNCHANGED <<outbox, published, lost>>

ClientStep == (Transmit \/ Break \/ Reconnect \/ GiveUp \/ Close) /\ UNCHANGED vars

DNext == ProcessStep \/ RestartClient \/ ClientStep

DSpec == DInit /\ [][DNext]_dvars

-----------------------------------------------------------------------------
\* The event of a row, wherever it is now.
StoredEvents ==
    dbTicks \cup {r \in Records : r.kind = "candle" /\ dbCandles[r.source] = r.id}
Sent(r)    == r \in Rows(published)
Waiting(r) == r \in Rows(outbox)

\* A row and its event.  The event of every row in the tables has reached the
\* server, waits in the client's memory, or was lost there; and it can only be lost
\* with the process, or in the moment in which the client ceases to be connected or
\* to try to be.  A row without an event on the stream is so a trace of an outage:
\* the pipeline never stores what it has not published.
PersistedWerePublished ==
    [][/\ \A r \in StoredEvents' : (Sent(r) \/ Waiting(r))' \/ r \in lost'
       /\ \A r \in Rows(outbox) :
             \/ Sent(r)' \/ Waiting(r)' \/ Restart
             \/ link' # link /\ link' \in {"lost", "closed"}]_dvars

\* The server receives the events in the order in which the queue admitted their
\* records, and none twice, through failures of NATS, new connections, switches of
\* the provider and restarts.
PublishedInArrivalOrder ==
    \A i, j \in DOMAIN published : i < j => published[i].id < published[j].id

\* Every step is a step of the abstract feed, in which what nats-py holds waits.
Feed == INSTANCE MarketFeed WITH waiting <- outbox
FeedSpec == Feed!Spec

-----------------------------------------------------------------------------
(* The inductive strengthening that the proofs use.                        *)

DTypeOK ==
    /\ link \in LinkStates
    /\ outbox \in Seq(Records) /\ published \in Seq(Records)
    /\ lost \subseteq Records

\* What the client was given has reached the server, is in memory or was lost.
Accounted == Rows(accepted) = Rows(published) \cup Rows(outbox) \cup lost

\* The stream, then the memory: one sequence in the order of arrival.
OneOrder ==
    /\ PublishedInArrivalOrder
    /\ \A i, j \in DOMAIN outbox : i < j => outbox[i].id < outbox[j].id
    /\ \A i \in DOMAIN published, j \in DOMAIN outbox : published[i].id < outbox[j].id

DInv == DTypeOK /\ Accounted /\ OneOrder
=============================================================================
