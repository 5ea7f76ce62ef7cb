---------------------------- MODULE GatewayStream ----------------------------
(***************************************************************************)
(* The WebSocket stream of the gateway: one task broadcasts messages to the*)
(* list _active_connections, over which it iterates with an await in the   *)
(* body, while the handlers of the clients append to that list and remove  *)
(* from it.  A Python list iterator is an index: a removal before it makes *)
(* it skip an element, an append is still visited.                         *)
(***************************************************************************)
EXTENDS Integers, Sequences, FiniteSets

CONSTANT Clients         \* the WebSocket connections

ASSUME ClientsAssumption == IsFiniteSet(Clients)

VARIABLES client,        \* each connection, as its socket and its handler are
          conns,         \* _active_connections
          msg,           \* what _stream_loop is broadcasting, or "sleep"
          idx,           \* index of the next element of the iteration
          target,        \* the clients, at most one, whose send is awaited
          dead,          \* the clients whose send raised, in order
          served,        \* the clients whose send returned in this broadcast
          owed,          \* the clients listed when it began, but for those that
                         \* have left or that the iteration was made to skip
          announced      \* has_changed has seen the tickets of _positions

loopVars == <<msg, idx, target, dead, served, owed, announced>>
vars == <<client, conns, loopVars>>

\*  new    not connected yet
\*  open   accepted and appended to the list; the handler waits for text
\*  gone   the socket is closed, the handler has not noticed
\*  left   the handler has finished
ClientStates == {"new", "open", "gone", "left"}

Messages == {"price", "status", "account", "positions"}

Init ==
    /\ client = [c \in Clients |-> "new"]
    /\ conns = <<>>
    /\ msg = "sleep"
    /\ idx = 1 /\ target = {} /\ dead = <<>> /\ served = {} /\ owed = {}
    /\ announced = FALSE

-----------------------------------------------------------------------------
(* list.append, `in` and list.remove.                                      *)

Elements(list) == {list[i] : i \in DOMAIN list}
IndexOf(list, x) == CHOOSE i \in DOMAIN list : list[i] = x /\ \A j \in 1..i - 1 : list[j] # x
RemoveAt(list, i) == SubSeq(list, 1, i - 1) \o SubSeq(list, i + 1, Len(list))

\* What is left when the elements xs are removed: the places kept, in their order.
Kept(list, xs) == {i \in DOMAIN list : list[i] \notin xs}
Rank(i, places) == Cardinality({j \in places : j <= i})
Place(k, places) == CHOOSE i \in places : Rank(i, places) = k
Without(list, xs) ==
    [k \in 1..Cardinality(Kept(list, xs)) |-> list[Place(k, Kept(list, xs))]]

-----------------------------------------------------------------------------
(* market_stream, the handler of a client.                                 *)

\* Mutant: the newest connection is put first.
ListedFirst(c) == <<c>> \o conns

Listed(c) == Append(conns, c)

Accept(c) ==
    /\ client[c] = "new"
    /\ client' = [client EXCEPT ![c] = "open"]
    /\ conns' = Listed(c)
    /\ UNCHANGED loopVars

\* The network or the client closes the connection.
Disconnect(c) ==
    /\ client[c] = "open"
    /\ client' = [client EXCEPT ![c] = "gone"]
    /\ UNCHANGED <<conns, loopVars>>

\* Mutant: the handler does not clean up.
LeaveListed(c) ==
    /\ client[c] = "gone"
    /\ client' = [client EXCEPT ![c] = "left"]
    /\ UNCHANGED <<conns, loopVars>>

\* receive_text raises: the handler removes its connection if it is listed.  A
\* removal before the iterator moves the element it would visit next out of
\* its way.
Leave(c) ==
    /\ client[c] = "gone"
    /\ client' = [client EXCEPT ![c] = "left"]
    /\ \/ /\ c \in Elements(conns)
          /\ conns' = RemoveAt(conns, IndexOf(conns, c))
          /\ owed' = owed \ ({c} \cup {conns[i] : i \in
                        {j \in DOMAIN conns : j = idx /\ IndexOf(conns, c) < j}})
       \/ /\ c \notin Elements(conns)
          /\ UNCHANGED <<conns, owed>>
    /\ UNCHANGED <<msg, idx, target, dead, served, announced>>

\* Another connection takes the place of one that nothing refers to any more.
Renew(c) ==
    /\ client[c] = "left"
    /\ c \notin Elements(conns) \cup Elements(dead) \cup target
    /\ client' = [client EXCEPT ![c] = "new"]
    /\ served' = served \ {c}
    /\ UNCHANGED <<conns, msg, idx, target, dead, owed, announced>>

-----------------------------------------------------------------------------
(* _broadcast, message after message.                                      *)

Begin(m) ==
    /\ msg' = m
    /\ idx' = 1 /\ target' = {} /\ dead' = <<>> /\ served' = {}
    /\ owed' = IF m = "sleep" THEN {} ELSE Elements(conns')

\* Mutant: a send is started while another is awaited.
MayStart == msg # "sleep"

Resumed == msg # "sleep" /\ target = {}

\* The iteration reaches the next element, and its send is awaited.
Pick ==
    /\ Resumed
    /\ idx <= Len(conns)
    /\ target' = target \cup {conns[idx]}
    /\ idx' = idx + 1
    /\ UNCHANGED <<client, conns, msg, dead, served, owed, announced>>

SendOk(c) ==
    /\ c \in target
    /\ target' = {}
    /\ served' = served \cup {c}
    /\ UNCHANGED <<client, conns, msg, idx, dead, owed, announced>>

\* Mutant: the dead connection is removed at once.
RemoveNow(c) == conns' = Without(conns, {c}) /\ UNCHANGED dead

NoteDead(c) == dead' = Append(dead, c) /\ UNCHANGED conns

\* send_json raises on a connection that is closed.
SendRaises(c) ==
    /\ c \in target
    /\ client[c] # "open"
    /\ target' = {} /\ NoteDead(c)
    /\ UNCHANGED <<client, msg, idx, served, owed, announced>>

\* The next message of the cycle: an account update only if the equity moved,
\* the positions only if their tickets are new.
Continue ==
    \/ msg = "price" /\ Begin("status") /\ UNCHANGED announced
    \/ msg = "status" /\ Begin("account") /\ UNCHANGED announced
    \/ msg \in {"status", "account"} /\ ~announced /\ Begin("positions") /\ announced' = TRUE
    \/ msg \in {"status", "account"} /\ announced /\ Begin("sleep") /\ UNCHANGED announced
    \/ msg = "positions" /\ Begin("sleep") /\ UNCHANGED announced

\* A handler may have removed a dead connection meanwhile: then list.remove raises,
\* and the rest of the cycle is dropped.
Missing == {i \in DOMAIN dead : dead[i] \notin Elements(conns)}
DeadUpTo(i) == {dead[j] : j \in 1..i - 1}

\* Mutant: the ValueError ends the task.
RemoveKills == FALSE

RemoveRaises ==
    \E i \in Missing :
        /\ \A j \in Missing : i <= j
        /\ conns' = Without(conns, DeadUpTo(i))
        /\ Begin("sleep") /\ UNCHANGED announced

\* All have been visited: the dead are removed one by one.
Reap ==
    /\ Resumed
    /\ idx > Len(conns)
    /\ \/ Missing = {} /\ conns' = Without(conns, Elements(dead)) /\ Continue
       \/ RemoveRaises
    /\ UNCHANGED client

\* The sleep between two cycles is over.
NextCycle ==
    /\ msg = "sleep"
    /\ UNCHANGED <<client, conns, announced>>
    /\ Begin("price")

-----------------------------------------------------------------------------
LoopStep == Pick \/ Reap \/ NextCycle \/ \E c \in Clients : SendOk(c) \/ SendRaises(c)

Next == \/ LoopStep
        \/ \E c \in Clients : Accept(c) \/ Disconnect(c) \/ Leave(c) \/ Renew(c)

Spec == Init /\ [][Next]_vars

\* Every send ends, and a handler notices that its connection is closed.  No
\* client has to come or to go.
FairSpec == Spec /\ WF_vars(LoopStep) /\ \A c \in Clients : WF_vars(Leave(c))

-----------------------------------------------------------------------------
\* The type invariant.
TypeOK ==
    /\ client \in [Clients -> ClientStates]
    /\ conns \in Seq(Clients)
    /\ msg \in Messages \cup {"sleep"}
    /\ idx \in 1..Cardinality(Clients) + 1
    /\ target \subseteq Clients /\ Cardinality(target) <= 1
    /\ dead \in Seq(Clients)
    /\ served \subseteq Clients
    /\ owed \subseteq Clients
    /\ announced \in BOOLEAN

\* Nobody is listed twice, and whoever is connected is listed: the broadcaster
\* and the handlers, which both remove, remove only what is closed.
ListedOnceWhileOpen ==
    /\ \A i, j \in DOMAIN conns : conns[i] = conns[j] => i = j
    /\ \A c \in Clients : client[c] = "open" => c \in Elements(conns)
    /\ \A c \in Elements(conns) : client[c] \in {"open", "gone"}

\* A broadcast never reaches a client twice, however the list changes under it.
NobodyServedTwice ==
    msg # "sleep" => \A i \in DOMAIN conns : i >= idx => conns[i] \notin served \cup target

\* A client that was connected when a broadcast began, and still is, has got the
\* message when the list is through, unless its send raised or the iterator was
\* made to skip it: there is no other way to miss a message.
MissedOnlyIfSkipped ==
    msg # "sleep" /\ target = {} /\ idx > Len(conns)
        => owed \subseteq served \cup Elements(dead)

\* The broadcasts that may follow in this cycle, and the turns of this one: an element
\* to reach and a send to end for each connection there can be.
Stage ==
    CASE msg = "price" -> 4 [] msg = "status" -> 3 [] msg = "account" -> 2
      [] msg = "positions" -> 1 [] OTHER -> 0
SendsLeft == 2 * (Cardinality(Clients) + 1 - idx) + Cardinality(target)

\* Every turn of the broadcaster brings the end of its cycle nearer, and no handler
\* sets it back: the list may grow under the iteration, but not without end.
CycleAdvances ==
    [][msg # "sleep" =>
          IF LoopStep
          THEN Stage' < Stage \/ (Stage' = Stage /\ SendsLeft' \in 0..SendsLeft - 1)
          ELSE UNCHANGED <<msg, idx, target>>]_vars

\* The stream goes on, whoever comes and goes and whatever raises.
StreamGoesOn == []<>(msg = "price")

\* A closed connection does not stay listed.
ClosedIsForgotten == \A c \in Clients : client[c] = "gone" ~> c \notin Elements(conns)
=============================================================================
