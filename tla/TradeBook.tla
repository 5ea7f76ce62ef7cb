------------------------------- MODULE TradeBook -------------------------------
(***************************************************************************)
(* The trade book of the gateway: the open positions and the history of    *)
(* MockTradeProvider, as the routes of trades.py change them, and the copy *)
(* of the positions that the WebSocket stream makes when the gateway starts*)
(* and announces once.  No operation awaits anything: each is one step.  A *)
(* position is its ticket; prices and profits are left out.                *)
(***************************************************************************)
EXTENDS Integers, Sequences, SequencesExt

CONSTANTS MaxOpens,      \* bound on the trades opened in one life of the process
          Requests       \* the tickets that clients ask to close, whoever gave them

ASSUME TradeBookAssumption == MaxOpens \in Nat /\ Requests \subseteq Int

VARIABLES positions,     \* _positions: the open tickets, oldest first
          history,       \* _history: the closed tickets, latest first
          counter,       \* _ticket_counter
          shown,         \* the list _positions of the stream
          announced,     \* what has_changed remembers under "ws_positions"
          opened,        \* the tickets given in answers to open_trade
          closed,        \* the tickets answered as closed, with the symbol of the trade
          unknown        \* the tickets answered as closed with the symbol UNKNOWN, and
                         \* whether the ticket had been given to anyone by then

book == <<positions, history, counter>>
stream == <<shown, announced>>
answers == <<opened, closed, unknown>>
vars == <<book, stream, answers>>

SeededPositions == <<1001, 1002, 1003>>
SeededHistory == [i \in 1..20 |-> 9899 + i]
FirstTicket == 10000

Tickets == ToSet(SeededPositions) \cup ToSet(SeededHistory)
               \cup FirstTicket + 1 .. FirstTicket + MaxOpens

\* __init__ of the provider, then the lifespan of the application.
Init ==
    /\ positions = SeededPositions /\ history = SeededHistory
    /\ counter = FirstTicket
    /\ shown = SeededPositions /\ announced = <<>>
    /\ opened = <<>> /\ closed = <<>> /\ unknown = {}

-----------------------------------------------------------------------------
\* Mutants: the ticket is derived from the number of open positions; the counter is
\* incremented after the ticket was taken from it.
TicketByLength == FirstTicket + Len(positions)
TicketPostIncrement == counter

NewTicket == counter + 1

\* open_trade
OpenTrade ==
    /\ counter < FirstTicket + MaxOpens
    /\ counter' = counter + 1
    /\ positions' = Append(positions, NewTicket)
    /\ opened' = Append(opened, NewTicket)
    /\ UNCHANGED <<history, stream, closed, unknown>>

\* Mutants: the last position is popped instead of the one found; the closed one is
\* thrown away.
PoppedAtEnd(i) == Front(positions)
NotFiled(ticket) == history

\* pop(i), and insert(0, closed) in the history.
Popped(i) == RemoveAt(positions, i)
Filed(ticket) == <<ticket>> \o history

\* close_trade of an open ticket: the first position that has it.
CloseTrade(ticket) ==
    \E i \in DOMAIN positions :
        /\ positions[i] = ticket /\ \A j \in 1..i - 1 : positions[j] # ticket
        /\ history' = Filed(ticket)
        /\ positions' = Popped(i)
        /\ closed' = Append(closed, ticket)
        /\ UNCHANGED <<counter, stream, opened, unknown>>

\* The tickets that somebody has been given: seeded, or in an answer to open_trade.
Given == ToSet(SeededHistory \o SeededPositions \o opened)

\* close_trade of any other ticket, a repeated request or a mistaken one: the book stays,
\* and the route answers success and that the trade was closed all the same.
CloseUnknown(ticket) ==
    /\ \A i \in DOMAIN positions : positions[i] # ticket
    /\ unknown' = unknown \cup {[ticket |-> ticket, given |-> ticket \in Given]}
    /\ UNCHANGED <<book, stream, opened, closed>>

\* _build_positions_update of the stream: the whole list, when its tickets are
\* new to has_changed.
AnnouncePositions ==
    /\ shown # <<>> /\ announced # shown
    /\ announced' = shown
    /\ UNCHANGED <<book, shown, answers>>

\* The process ends and another starts; nothing of the book is stored.
Restart ==
    /\ positions' = SeededPositions /\ history' = SeededHistory
    /\ counter' = FirstTicket
    /\ shown' = SeededPositions /\ announced' = <<>>
    /\ opened' = <<>> /\ closed' = <<>> /\ unknown' = {}

Next == \/ OpenTrade \/ AnnouncePositions \/ Restart
        \/ \E t \in Requests : CloseTrade(t) \/ CloseUnknown(t)

Spec == Init /\ [][Next]_vars

-----------------------------------------------------------------------------
\* The type invariant.
TypeOK ==
    /\ positions \in Seq(Tickets) /\ history \in Seq(Tickets)
    /\ counter \in FirstTicket .. FirstTicket + MaxOpens
    /\ shown \in Seq(Tickets) /\ announced \in Seq(Tickets)
    /\ opened \in Seq(Tickets) /\ closed \in Seq(Tickets)
    /\ unknown \subseteq [ticket : Requests, given : BOOLEAN]

\* A ticket names one trade: no two answers to open_trade give the same, nor one
\* that the book was seeded with, whatever was closed in between.
TicketNamesOneTrade == IsInjective(SeededHistory \o SeededPositions \o opened)

\* The tickets of trades that some client was told are closed: by the answer that closed
\* it, or by one with the symbol UNKNOWN, which a repeated request gets.  An answer about
\* a ticket that nobody had says nothing of the trade that may be given it later.
ToldClosed == ToSet(closed) \cup {a.ticket : a \in {b \in unknown : b.given}}

\* What the answers said is what the book holds.  Open are the trades that were opened
\* and of which no answer, not even one with the symbol UNKNOWN, said that they are
\* closed, in the order of their opening, which is that of their tickets.  In the
\* history is every trade that an answer said is closed, those closed in this life
\* latest first, and none is closed twice, however often the request is repeated.
BookMatchesAnswers ==
    /\ ToSet(positions) = ToSet(SeededPositions \o opened) \ ToldClosed
    /\ ToldClosed \subseteq ToSet(history)
    /\ \A i, j \in DOMAIN positions : i < j => positions[i] < positions[j]
    /\ history = Reverse(closed) \o SeededHistory
    /\ IsInjective(closed)

\* What the stream has announced may be stale, but it was never invented: each
\* of its tickets is open or in the history.
AnnouncedIsOnRecord == ToSet(announced) \subseteq ToSet(positions) \cup ToSet(history)
=============================================================================
