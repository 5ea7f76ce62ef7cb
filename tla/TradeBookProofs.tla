---------------------------- MODULE TradeBookProofs ----------------------------
(***************************************************************************)
(* What tickets mean, for books of any size and requests in any order.     *)
(***************************************************************************)
EXTENDS TradeBook, SequenceTheorems, TLAPS

USE TradeBookAssumption

Distinct(list) == \A i, j \in DOMAIN list : list[i] = list[j] => i = j
Increasing(list) == \A i, j \in DOMAIN list : i < j => list[i] < list[j]
Among(ticket, list) == \E i \in DOMAIN list : list[i] = ticket

LEMMA TicketsAreNumbers == \A t \in Tickets : t \in Nat
  BY DEF Tickets, ToSet, SeededPositions, SeededHistory, FirstTicket

-----------------------------------------------------------------------------
(* Lists: what append, pop and insert do to the tickets they hold.         *)

LEMMA AppendedTickets ==
    ASSUME NEW S, NEW list \in Seq(S), NEW ticket
    PROVE  /\ \A t : Among(t, Append(list, ticket)) <=> t = ticket \/ Among(t, list)
           /\ Distinct(list) /\ ~Among(ticket, list) => Distinct(Append(list, ticket))
  <1> DEFINE longer == Append(list, ticket)
  <1>1. /\ Len(longer) = Len(list) + 1 /\ longer[Len(list) + 1] = ticket
        /\ \A i \in 1..Len(list) : longer[i] = list[i]
        /\ DOMAIN longer = 1..Len(list) + 1 /\ DOMAIN list = 1..Len(list) /\ Len(list) \in Nat
    OBVIOUS
  <1> HIDE DEF longer
  <1>2. \A t : Among(t, longer) <=> t = ticket \/ Among(t, list)
    BY <1>1 DEF Among
  <1>3. Distinct(list) /\ ~Among(ticket, list) => Distinct(longer)
    BY <1>1 DEF Among, Distinct
  <1> QED BY <1>2, <1>3 DEF longer

LEMMA Popping ==
    ASSUME NEW S, NEW list \in Seq(S), NEW i \in DOMAIN list
    PROVE  /\ RemoveAt(list, i) \in Seq(S) /\ Len(RemoveAt(list, i)) = Len(list) - 1
           /\ \A j \in 1..Len(list) - 1 : RemoveAt(list, i)[j] = list[IF j < i THEN j ELSE j + 1]
  <1> DEFINE before == SubSeq(list, 1, i - 1)
             after  == SubSeq(list, i + 1, Len(list))
  <1>1. Len(list) \in Nat /\ i \in 1..Len(list)
    OBVIOUS
  <1>2. /\ before \in Seq(S) /\ Len(before) = i - 1
        /\ \A j \in 1..i - 1 : before[j] = list[j]
    BY <1>1
  <1>3. /\ after \in Seq(S) /\ Len(after) = Len(list) - i
        /\ \A j \in 1..Len(list) - i : after[j] = list[i + j]
    BY <1>1
  <1>4. RemoveAt(list, i) = before \o after
    BY DEF RemoveAt
  <1> HIDE DEF before, after
  <1>5. /\ before \o after \in Seq(S) /\ Len(before \o after) = Len(list) - 1
        /\ \A j \in 1..Len(list) - 1 :
              (before \o after)[j] = IF j < i THEN before[j] ELSE after[j - (i - 1)]
    BY <1>1, <1>2, <1>3, SMTT(30)
  <1>6. ASSUME NEW j \in 1..Len(list) - 1
        PROVE  (before \o after)[j] = list[IF j < i THEN j ELSE j + 1]
    <2>1. CASE j < i
      BY <1>1, <1>2, <1>5, <2>1
    <2>2. CASE ~(j < i)
      <3>1. j - (i - 1) \in 1..Len(list) - i /\ i + (j - (i - 1)) = j + 1
        BY <1>1, <2>2
      <3> QED BY <1>3, <1>5, <2>2, <3>1
    <2> QED BY <2>1, <2>2
  <1> QED BY <1>4, <1>5, <1>6

LEMMA PoppedTickets ==
    ASSUME NEW list \in Seq(Tickets), NEW i \in DOMAIN list, Increasing(list)
    PROVE  /\ RemoveAt(list, i) \in Seq(Tickets)
           /\ Increasing(RemoveAt(list, i))
           /\ \A t : Among(t, RemoveAt(list, i)) <=> Among(t, list) /\ t # list[i]
  <1> DEFINE shorter == RemoveAt(list, i)
  <1>1. /\ shorter \in Seq(Tickets) /\ Len(shorter) = Len(list) - 1
        /\ \A j \in 1..Len(list) - 1 : shorter[j] = list[IF j < i THEN j ELSE j + 1]
    BY Popping
  <1>2. /\ DOMAIN shorter = 1..Len(list) - 1 /\ DOMAIN list = 1..Len(list)
        /\ Len(list) \in Nat /\ i \in 1..Len(list)
    BY <1>1
  <1>0. \A j, k \in 1..Len(list) : j < k => list[j] < list[k]
    BY <1>2 DEF Increasing
  <1>3. \A j, k \in 1..Len(list) : j # k => list[j] # list[k]
    <2>1. \A j \in 1..Len(list) : list[j] \in Int
      <3>1. \A j \in 1..Len(list) : list[j] \in Tickets
        BY <1>2
      <3> QED BY <3>1, TicketsAreNumbers
    <2> QED BY <1>0, <1>2, <2>1
  <1> HIDE DEF shorter
  <1>4. Increasing(shorter)
    <2> SUFFICES ASSUME NEW j \in 1..Len(list) - 1, NEW k \in 1..Len(list) - 1, j < k
                 PROVE  shorter[j] < shorter[k]
      BY <1>2 DEF Increasing
    <2>1. PICK p \in 1..Len(list) : p = IF j < i THEN j ELSE j + 1
      BY <1>2
    <2>2. PICK q \in 1..Len(list) : q = IF k < i THEN k ELSE k + 1
      BY <1>2
    <2>3. p < q
      BY <1>2, <2>1, <2>2
    <2>4. list[p] < list[q]
      BY <1>0, <2>3
    <2> QED BY <1>1, <2>1, <2>2, <2>4
  <1>5. ASSUME NEW t, Among(t, shorter) PROVE Among(t, list) /\ t # list[i]
    <2>1. PICK j \in 1..Len(list) - 1 : shorter[j] = t
      BY <1>2, <1>5 DEF Among
    <2> DEFINE k == IF j < i THEN j ELSE j + 1
    <2>2. k \in 1..Len(list) /\ k # i /\ list[k] = t
      BY <1>1, <1>2, <2>1
    <2> QED BY <1>2, <1>3, <2>2 DEF Among
  <1>6. ASSUME NEW t, Among(t, list), t # list[i] PROVE Among(t, shorter)
    <2>1. PICK j \in 1..Len(list) : list[j] = t /\ j # i
      BY <1>2, <1>6 DEF Among
    <2> DEFINE k == IF j < i THEN j ELSE j - 1
    <2>2. k \in 1..Len(list) - 1 /\ shorter[k] = t
      BY <1>1, <1>2, <2>1
    <2> QED BY <1>2, <2>2 DEF Among
  <1> QED BY <1>1, <1>4, <1>5, <1>6 DEF shorter

LEMMA FiledTickets ==
    ASSUME NEW S, NEW list \in Seq(S), NEW ticket \in S
    PROVE  /\ <<ticket>> \o list \in Seq(S)
           /\ \A t : Among(t, <<ticket>> \o list) <=> t = ticket \/ Among(t, list)
  <1> DEFINE longer == <<ticket>> \o list
  <1>1. /\ longer \in Seq(S) /\ Len(longer) = Len(list) + 1 /\ longer[1] = ticket
        /\ \A i \in 2..Len(list) + 1 : longer[i] = list[i - 1]
        /\ DOMAIN longer = 1..Len(list) + 1 /\ DOMAIN list = 1..Len(list) /\ Len(list) \in Nat
    OBVIOUS
  <1> HIDE DEF longer
  <1>2. \A i \in 1..Len(list) : longer[i + 1] = list[i] /\ i + 1 \in 1..Len(list) + 1
    BY <1>1
  <1>3. \A t : Among(t, longer) <=> t = ticket \/ Among(t, list)
    BY <1>1, <1>2, SMTT(30) DEF Among
  <1> QED BY <1>1, <1>3 DEF longer
LEMMA ConcatTickets ==
    ASSUME NEW S, NEW one \in Seq(S), NEW two \in Seq(S)
    PROVE  /\ \A t : Among(t, one \o two) <=> Among(t, one) \/ Among(t, two)
           /\ Distinct(one) /\ Distinct(two) /\ (\A t : ~(Among(t, one) /\ Among(t, two)))
                => Distinct(one \o two)
  <1> DEFINE both == one \o two
             n == Len(one)
             m == Len(two)
  <1>1. /\ n \in Nat /\ m \in Nat /\ DOMAIN one = 1..n /\ DOMAIN two = 1..m
        /\ DOMAIN both = 1..n + m
        /\ \A i \in 1..n + m : both[i] = IF i <= n THEN one[i] ELSE two[i - n]
    BY ConcatProperties
  <1> HIDE DEF both, n, m
  <1>2. ASSUME NEW t, Among(t, both) PROVE Among(t, one) \/ Among(t, two)
    <2>1. PICK i \in 1..n + m : both[i] = t
      BY <1>1, <1>2 DEF Among
    <2>2. CASE i <= n
      BY <1>1, <2>1, <2>2 DEF Among
    <2>3. CASE i > n
      <3>1. i - n \in 1..m /\ two[i - n] = t
        BY <1>1, <2>1, <2>3
      <3> QED BY <1>1, <3>1 DEF Among
    <2> QED BY <1>1, <2>2, <2>3
  <1>3. ASSUME NEW t, Among(t, one) PROVE Among(t, both)
    BY <1>1, <1>3 DEF Among
  <1>4. ASSUME NEW t, Among(t, two) PROVE Among(t, both)
    <2>1. PICK i \in 1..m : two[i] = t
      BY <1>1, <1>4 DEF Among
    <2>2. i + n \in 1..n + m /\ both[i + n] = t
      BY <1>1, <2>1
    <2> QED BY <1>1, <2>2 DEF Among
  <1>5. ASSUME Distinct(one), Distinct(two), \A t : ~(Among(t, one) /\ Among(t, two)),
               NEW i \in 1..n + m, NEW j \in 1..n + m, both[i] = both[j]
        PROVE  i = j
    <2>1. CASE i <= n /\ j <= n
      BY <1>1, <1>5, <2>1 DEF Distinct
    <2>2. CASE i > n /\ j > n
      <3>1. i - n \in 1..m /\ j - n \in 1..m /\ two[i - n] = two[j - n]
        BY <1>1, <1>5, <2>2
      <3>2. i - n = j - n
        BY <1>1, <1>5, <3>1 DEF Distinct
      <3> QED BY <1>1, <3>2
    <2>3. ASSUME NEW a \in 1..n + m, NEW b \in 1..n + m, a <= n, b > n, both[a] = both[b] PROVE FALSE
      <3>1. a \in 1..n /\ b - n \in 1..m /\ one[a] = two[b - n]
        BY <1>1, <2>3
      <3>2. Among(one[a], one) /\ Among(one[a], two)
        BY <1>1, <3>1 DEF Among
      <3> QED BY <1>5, <3>2
    <2> QED BY <1>1, <1>5, <2>1, <2>2, <2>3
  <1>6. ASSUME Distinct(one), Distinct(two), \A t : ~(Among(t, one) /\ Among(t, two))
        PROVE  Distinct(both)
    BY <1>1, <1>5, <1>6 DEF Distinct
  <1> QED BY <1>2, <1>3, <1>4, <1>6 DEF both

-----------------------------------------------------------------------------
(* The book and the answers.                                               *)

Lists ==
    /\ positions \in Seq(Tickets) /\ history \in Seq(Tickets)
    /\ opened \in Seq(Tickets) /\ closed \in Seq(Tickets)
    /\ shown = SeededPositions /\ announced \in {<<>>, SeededPositions}
    /\ counter \in FirstTicket .. FirstTicket + MaxOpens

\* The tickets given are those the counter went through.
OpenedByCounter ==
    /\ counter = FirstTicket + Len(opened)
    /\ \A i \in DOMAIN opened : opened[i] = FirstTicket + i

\* A ticket is open or closed if it was seeded open or given, and not both.
OnRecord ==
    /\ \A t : Among(t, positions) <=>
          (Among(t, SeededPositions) \/ Among(t, opened)) /\ ~Among(t, closed)
    /\ \A t : Among(t, closed) => Among(t, SeededPositions) \/ Among(t, opened)
    /\ history = Reverse(closed) \o SeededHistory

\* An answer with the symbol UNKNOWN about a ticket that somebody has been given: it is
\* closed, in this life or since the seeding.
UnknownIsClosed ==
    /\ unknown \subseteq [ticket : Requests, given : BOOLEAN]
    /\ \A a \in unknown : a.given => Among(a.ticket, closed) \/ Among(a.ticket, SeededHistory)

BookInv ==
    /\ Lists /\ OpenedByCounter /\ OnRecord /\ UnknownIsClosed
    /\ Increasing(positions) /\ Distinct(closed)

LEMMA SeededTickets ==
    /\ SeededPositions \in Seq(Tickets) /\ SeededHistory \in Seq(Tickets)
    /\ Increasing(SeededPositions)
    /\ \A t : Among(t, SeededPositions) => t \in 1001..1003
  <1>1. SeededPositions \in Seq(Tickets)
    BY DEF SeededPositions, Tickets, ToSet
  <1>2. SeededHistory \in Seq(Tickets)
    BY DEF SeededHistory, Tickets, ToSet
  <1>3. Increasing(SeededPositions) /\ \A t : Among(t, SeededPositions) => t \in 1001..1003
    BY DEF SeededPositions, Increasing, Among
  <1> QED BY <1>1, <1>2, <1>3

LEMMA ReversedIsSeq ==
    ASSUME NEW S, NEW list \in Seq(S) PROVE Reverse(list) \in Seq(S) /\ Len(Reverse(list)) = Len(list)
  BY DEF Reverse

LEMMA ReversedAppend ==
    ASSUME NEW S, NEW list \in Seq(S), NEW ticket \in S
    PROVE  Reverse(Append(list, ticket)) = <<ticket>> \o Reverse(list)
  BY DEF Reverse

LEMMA BookInit == Init => BookInv
  <1> SUFFICES ASSUME Init PROVE BookInv
    OBVIOUS
  <1>1. Lists
    BY SeededTickets DEF Init, Lists, FirstTicket
  <1>2. OpenedByCounter
    BY DEF Init, OpenedByCounter, FirstTicket
  <1>3. \A t : ~Among(t, <<>>)
    BY DEF Among
  <1>4. Reverse(<<>>) \o SeededHistory = SeededHistory
    BY SeededTickets DEF Reverse
  <1>5. OnRecord
    BY <1>3, <1>4 DEF Init, OnRecord
  <1> QED BY <1>1, <1>2, <1>5, SeededTickets DEF Init, BookInv, Distinct, UnknownIsClosed

\* A new ticket is one that no list has.
LEMMA NewTicketIsNew ==
    ASSUME BookInv, OpenTrade
    PROVE  /\ NewTicket \in Tickets
           /\ \A i \in DOMAIN positions : positions[i] < NewTicket
           /\ ~Among(NewTicket, opened) /\ ~Among(NewTicket, SeededPositions)
  <1>1. counter \in Nat /\ NewTicket = counter + 1 /\ counter < FirstTicket + MaxOpens
    BY DEF BookInv, Lists, OpenTrade, NewTicket, FirstTicket
  <1>2. \A t : Among(t, opened) => t \in FirstTicket + 1 .. counter
    BY DEF BookInv, Lists, OpenedByCounter, Among, FirstTicket
  <1>3. \A t : Among(t, positions) => t \in 1001..1003 \cup FirstTicket + 1 .. counter
    BY <1>2, SeededTickets DEF BookInv, OnRecord
  <1>4. \A i \in DOMAIN positions : positions[i] < NewTicket
    <2> TAKE i \in DOMAIN positions
    <2>1. Among(positions[i], positions)
      BY DEF Among
    <2>2. positions[i] \in 1001..1003 \cup FirstTicket + 1 .. counter
      BY <1>3, <2>1
    <2> QED BY <1>1, <2>2 DEF FirstTicket, BookInv, Lists
  <1>5. NewTicket \in Tickets
    BY <1>1 DEF Tickets, FirstTicket, BookInv, Lists
  <1>6. ~Among(NewTicket, opened)
    BY <1>1, <1>2 DEF FirstTicket
  <1>7. ~Among(NewTicket, SeededPositions)
    <2>1. NewTicket > 10000
      BY <1>1 DEF BookInv, Lists, FirstTicket
    <2> QED BY <2>1, SeededTickets
  <1> QED BY <1>4, <1>5, <1>6, <1>7

LEMMA OpenStep == ASSUME BookInv, OpenTrade PROVE BookInv'
  <1> USE DEF BookInv
  <1>1. /\ positions' = Append(positions, NewTicket) /\ opened' = Append(opened, NewTicket)
        /\ UNCHANGED <<history, closed, unknown, shown, announced>>
        /\ counter' = counter + 1 /\ counter < FirstTicket + MaxOpens /\ NewTicket = counter + 1
    BY DEF OpenTrade, NewTicket, stream
  <1>2. /\ NewTicket \in Tickets /\ \A i \in DOMAIN positions : positions[i] < NewTicket
        /\ ~Among(NewTicket, opened) /\ ~Among(NewTicket, SeededPositions)
    BY NewTicketIsNew
  <1>3. Lists'
    BY <1>1, <1>2 DEF Lists, FirstTicket
  <1>4. OpenedByCounter'
    BY <1>1 DEF Lists, OpenedByCounter, FirstTicket
  <1>5. Increasing(positions)'
    <2>1. /\ DOMAIN positions' = 1..Len(positions) + 1 /\ positions'[Len(positions) + 1] = NewTicket
          /\ \A i \in 1..Len(positions) : positions'[i] = positions[i]
          /\ DOMAIN positions = 1..Len(positions) /\ Len(positions) \in Nat
      BY <1>1 DEF Lists
    <2> QED BY <1>2, <2>1 DEF Increasing
  <1>6. /\ \A t : Among(t, positions') <=> t = NewTicket \/ Among(t, positions)
        /\ \A t : Among(t, opened') <=> t = NewTicket \/ Among(t, opened)
    BY <1>1, AppendedTickets DEF Lists
  <1>7. ~Among(NewTicket, closed)
    BY <1>2 DEF OnRecord
  <1>8. OnRecord'
    BY <1>1, <1>6, <1>7 DEF OnRecord
  <1>9. UnknownIsClosed'
    BY <1>1 DEF UnknownIsClosed
  <1> QED BY <1>1, <1>3, <1>4, <1>5, <1>8, <1>9

LEMMA CloseStep ==
    ASSUME BookInv, NEW ticket, CloseTrade(ticket) PROVE BookInv'
  <1> USE DEF BookInv
  <1>1. PICK i \in DOMAIN positions :
            /\ positions[i] = ticket
            /\ history' = <<ticket>> \o history /\ positions' = RemoveAt(positions, i)
            /\ closed' = Append(closed, ticket)
            /\ UNCHANGED <<counter, stream, opened, unknown>>
    BY DEF CloseTrade, Filed, Popped
  <1>0. ticket \in Tickets
    BY <1>1 DEF Lists
  <1>2. Among(ticket, positions)
    BY <1>1 DEF Among
  <1>3. ~Among(ticket, closed) /\ (Among(ticket, SeededPositions) \/ Among(ticket, opened))
    BY <1>2 DEF OnRecord
  <1>4. /\ positions' \in Seq(Tickets) /\ Increasing(positions')
        /\ \A t : Among(t, positions') <=> Among(t, positions) /\ t # ticket
    BY <1>1, PoppedTickets DEF Lists
  <1>5. /\ closed' \in Seq(Tickets) /\ Distinct(closed')
        /\ \A t : Among(t, closed') <=> t = ticket \/ Among(t, closed)
    BY <1>0, <1>1, <1>3, AppendedTickets DEF Lists
  <1>6. history' \in Seq(Tickets)
    BY <1>0, <1>1 DEF Lists
  <1>7. history' = Reverse(closed') \o SeededHistory
    <2>1. Reverse(closed') = <<ticket>> \o Reverse(closed)
      BY <1>0, <1>1, ReversedAppend DEF Lists
    <2>2. Reverse(closed) \in Seq(Tickets)
      BY ReversedIsSeq DEF Lists
    <2>3. (<<ticket>> \o Reverse(closed)) \o SeededHistory
            = <<ticket>> \o (Reverse(closed) \o SeededHistory)
      BY <1>0, <2>2, SeededTickets, ConcatAssociative
    <2> QED BY <1>1, <2>1, <2>3 DEF OnRecord
  <1>8. Lists'
    BY <1>1, <1>4, <1>5, <1>6 DEF Lists, stream
  <1>9. OnRecord'
    BY <1>1, <1>3, <1>4, <1>5, <1>7 DEF OnRecord
  <1>10. UnknownIsClosed'
    BY <1>1, <1>5 DEF UnknownIsClosed
  <1> QED BY <1>1, <1>4, <1>5, <1>8, <1>9, <1>10 DEF OpenedByCounter

LEMMA SetOfAmong ==
    ASSUME NEW list, NEW t PROVE t \in ToSet(list) <=> Among(t, list)
  BY DEF ToSet, Among

LEMMA SeedsAreApart == \A t : Among(t, SeededHistory) => t \in 9900..9919
  <1>1. DOMAIN SeededHistory = 1..20 /\ \A i \in 1..20 : SeededHistory[i] = 9899 + i
    BY DEF SeededHistory
  <1> QED BY <1>1 DEF Among

\* A ticket that somebody has been given and that is not open is closed.
LEMMA UnknownStep ==
    ASSUME BookInv, NEW ticket \in Requests, CloseUnknown(ticket) PROVE BookInv'
  <1> USE DEF BookInv
  <1>1. /\ UNCHANGED <<book, stream, opened, closed>>
        /\ unknown' = unknown \cup {[ticket |-> ticket, given |-> ticket \in Given]}
        /\ ~Among(ticket, positions)
    BY DEF CloseUnknown, Among
  <1>2. ASSUME ticket \in Given PROVE Among(ticket, closed) \/ Among(ticket, SeededHistory)
    <2> DEFINE seeded == SeededHistory \o SeededPositions
    <2>1. /\ seeded \in Seq(Tickets)
          /\ Among(ticket, seeded) => Among(ticket, SeededHistory) \/ Among(ticket, SeededPositions)
      BY SeededTickets, ConcatTickets
    <2> HIDE DEF seeded
    <2>2. Among(ticket, seeded \o opened) => Among(ticket, seeded) \/ Among(ticket, opened)
      BY <2>1, ConcatTickets DEF Lists
    <2>3. Among(ticket, seeded \o opened)
      BY <1>2, SetOfAmong DEF Given, seeded
    <2> QED BY <1>1, <2>1, <2>2, <2>3 DEF OnRecord
  <1> DEFINE told   == ticket \in Given
             answer == [ticket |-> ticket, given |-> told]
  <1>6. told \in BOOLEAN
    OBVIOUS
  <1>4. /\ answer \in [ticket : Requests, given : BOOLEAN] /\ answer.ticket = ticket
        /\ answer.given <=> ticket \in Given
    <2>1. answer.given = told
      <3> HIDE DEF told
      <3> QED OBVIOUS
    <2>2. answer \in [ticket : Requests, given : BOOLEAN] /\ answer.ticket = ticket
      <3> HIDE DEF told
      <3> QED BY <1>6
    <2> QED BY <2>1, <2>2, Zenon
  <1>5. unknown' = unknown \cup {answer} /\ UNCHANGED closed
    BY <1>1
  <1> HIDE DEF answer
  <1>3. UnknownIsClosed'
    BY <1>2, <1>4, <1>5 DEF UnknownIsClosed
  <1> QED BY <1>1, <1>3 DEF book, stream, Lists, OpenedByCounter, OnRecord

LEMMA BookStep == BookInv /\ [Next]_vars => BookInv'
  <1> SUFFICES ASSUME BookInv, [Next]_vars PROVE BookInv'
    OBVIOUS
  <1>1. CASE OpenTrade
    BY <1>1, OpenStep
  <1>2. CASE \E t \in Requests : CloseTrade(t)
    BY <1>2, CloseStep
  <1>6. CASE \E t \in Requests : CloseUnknown(t)
    BY <1>6, UnknownStep
  <1>3. CASE AnnouncePositions
    BY <1>3 DEF AnnouncePositions, book, answers, BookInv, Lists, OpenedByCounter, OnRecord,
                UnknownIsClosed
  <1>4. CASE Restart
    <2>1. Init'
      BY <1>4 DEF Restart, Init
    <2>2. (Init => BookInv)'
      BY BookInit, PTL
    <2> QED BY <2>1, <2>2
  <1>5. CASE UNCHANGED vars
    BY <1>5 DEF vars, book, stream, answers, BookInv, Lists, OpenedByCounter, OnRecord,
                UnknownIsClosed
  <1> QED BY <1>1, <1>2, <1>3, <1>4, <1>5, <1>6 DEF Next

LEMMA BookAlways == Spec => []BookInv
  BY BookInit, BookStep, PTL DEF Spec

-----------------------------------------------------------------------------
\* Type correctness, for any number of trades.
THEOREM TypeCorrect == Spec => []TypeOK
  <1>1. BookInv => TypeOK
    <2>1. <<>> \in Seq(Tickets) /\ SeededPositions \in Seq(Tickets)
      BY SeededTickets
    <2>2. BookInv => announced \in Seq(Tickets) /\ shown \in Seq(Tickets)
      <3>1. BookInv => shown = SeededPositions /\ (announced = <<>> \/ announced = SeededPositions)
        BY DEF BookInv, Lists
      <3> QED BY <2>1, <3>1
    <2> QED BY <2>2 DEF BookInv, Lists, UnknownIsClosed, TypeOK
  <1> QED BY BookAlways, <1>1, PTL

\* The counter of the provider gives each trade a ticket of its own, which is not a
\* seeded one either, whatever is closed in between.
THEOREM TicketsAreUnique == Spec => []TicketNamesOneTrade
  <1>1. ASSUME BookInv PROVE TicketNamesOneTrade
    <2>1. /\ SeededHistory \in Seq(Nat) /\ Distinct(SeededHistory)
          /\ \A t : Among(t, SeededHistory) => t \in 9900..9919
      <3>1. /\ DOMAIN SeededHistory = 1..20 /\ SeededHistory \in [1..20 -> Nat]
            /\ \A i \in 1..20 : SeededHistory[i] = 9899 + i
        BY DEF SeededHistory
      <3>2. Distinct(SeededHistory)
        BY <3>1 DEF Distinct
      <3>3. ASSUME NEW t, Among(t, SeededHistory) PROVE t \in 9900..9919
        BY <3>1, <3>3 DEF Among
      <3>4. SeededHistory \in Seq(Nat)
        BY DEF SeededHistory
      <3> QED BY <3>2, <3>3, <3>4
    <2>2. /\ SeededPositions \in Seq(Nat) /\ Distinct(SeededPositions)
          /\ \A t : Among(t, SeededPositions) => t \in 1001..1003
      BY DEF SeededPositions, Distinct, Among
    <2>3. /\ opened \in Seq(Nat) /\ Distinct(opened)
          /\ \A t : Among(t, opened) => t \in Nat /\ t > 10000
      <3>1. /\ DOMAIN opened = 1..Len(opened) /\ Len(opened) \in Nat
            /\ \A i \in 1..Len(opened) : opened[i] = 10000 + i
        BY <1>1 DEF BookInv, Lists, OpenedByCounter, FirstTicket
      <3>2. opened \in [1..Len(opened) -> Nat]
        BY <1>1, <3>1 DEF BookInv, Lists
      <3> QED BY <3>1, <3>2 DEF Distinct, Among
    <2>4. SeededHistory \o SeededPositions \in Seq(Nat)
      BY <2>1, <2>2
    <2>5. /\ Distinct(SeededHistory \o SeededPositions)
          /\ \A t : Among(t, SeededHistory \o SeededPositions) => t \in 1001..1003 \cup 9900..9919
      <3>1. ASSUME NEW t, Among(t, SeededHistory), Among(t, SeededPositions) PROVE FALSE
        <4>1. t \in 9900..9919 /\ t \in 1001..1003
          BY <2>1, <2>2, <3>1
        <4> QED BY <4>1
      <3>2. Distinct(SeededHistory \o SeededPositions)
        BY <2>1, <2>2, <3>1, ConcatTickets
      <3>3. ASSUME NEW t, Among(t, SeededHistory \o SeededPositions)
            PROVE  t \in 1001..1003 \cup 9900..9919
        <4>1. Among(t, SeededHistory) \/ Among(t, SeededPositions)
          BY <2>1, <2>2, <3>3, ConcatTickets
        <4> QED BY <2>1, <2>2, <4>1, SMTT(30)
      <3> QED BY <3>2, <3>3
    <2>6. ASSUME NEW t, Among(t, SeededHistory \o SeededPositions), Among(t, opened) PROVE FALSE
      <3>1. t \in 1001..1003 \cup 9900..9919 /\ t > 10000
        BY <2>3, <2>5, <2>6
      <3> QED BY <3>1
    <2>7. Distinct((SeededHistory \o SeededPositions) \o opened)
      <3> DEFINE seeded == SeededHistory \o SeededPositions
      <3>1. seeded \in Seq(Nat) /\ Distinct(seeded) /\ \A t : ~(Among(t, seeded) /\ Among(t, opened))
        BY <2>4, <2>5, <2>6
      <3> HIDE DEF seeded
      <3>2. Distinct(seeded \o opened)
        BY <2>3, <3>1, ConcatTickets
      <3> QED BY <3>2 DEF seeded
    <2> QED BY <2>7 DEF Distinct, IsInjective, TicketNamesOneTrade
  <1> QED BY BookAlways, <1>1, PTL

\* What is in the history, of this life or seeded.
LEMMA HistoryHolds ==
    ASSUME BookInv, NEW t PROVE Among(t, history) <=> Among(t, closed) \/ Among(t, SeededHistory)
  <1>1. Reverse(closed) \in Seq(Tickets) /\ Len(Reverse(closed)) = Len(closed)
    BY ReversedIsSeq DEF BookInv, Lists
  <1>2. Among(t, Reverse(closed)) <=> Among(t, closed)
    <2>1. closed \in Seq(Tickets) /\ Len(closed) \in Nat /\ DOMAIN closed = 1..Len(closed)
          /\ DOMAIN Reverse(closed) = 1..Len(closed)
          /\ \A i \in 1..Len(closed) : Reverse(closed)[i] = closed[Len(closed) - i + 1]
      BY DEF BookInv, Lists, Reverse
    <2>2. \A i \in 1..Len(closed) : Len(closed) - i + 1 \in 1..Len(closed)
                                    /\ Reverse(closed)[Len(closed) - i + 1] = closed[i]
      BY <2>1
    <2>3. ASSUME Among(t, closed) PROVE Among(t, Reverse(closed))
      <3>1. PICK i \in 1..Len(closed) : closed[i] = t
        BY <2>1, <2>3 DEF Among
      <3> QED BY <2>1, <2>2, <3>1 DEF Among
    <2>4. ASSUME Among(t, Reverse(closed)) PROVE Among(t, closed)
      <3>1. PICK i \in 1..Len(closed) : Reverse(closed)[i] = t
        BY <2>1, <2>4 DEF Among
      <3>2. Len(closed) - i + 1 \in 1..Len(closed) /\ closed[Len(closed) - i + 1] = t
        BY <2>1, <3>1
      <3> QED BY <2>1, <3>2 DEF Among
    <2> QED BY <2>3, <2>4
  <1> QED BY <1>1, <1>2, SeededTickets, ConcatTickets DEF BookInv, OnRecord

\* The answers to the clients determine the book: each of its lists, and their order.  A
\* ticket leaves the positions when it is answered as closed and never comes back, so that
\* no request closes it a second time; and close_trade answers that a ticket somebody was
\* given is closed, with its symbol or with UNKNOWN, only when that is so from then on.
THEOREM BookIsWhatWasSaid == Spec => []BookMatchesAnswers
  <1>1. ASSUME BookInv PROVE BookMatchesAnswers
    <2>1. \A t : Among(t, SeededPositions \o opened) <=> Among(t, SeededPositions) \/ Among(t, opened)
      BY <1>1, SeededTickets, ConcatTickets DEF BookInv, Lists
    <2>4. \A t : t \in ToldClosed => Among(t, closed) \/ Among(t, SeededHistory)
      BY <1>1, SetOfAmong DEF ToldClosed, BookInv, UnknownIsClosed
    <2>5. \A t : Among(t, closed) => t \in ToldClosed
      BY SetOfAmong DEF ToldClosed
    <2>6. ASSUME NEW t, Among(t, SeededHistory) PROVE ~Among(t, positions)
      <3>1. t \in 9900..9919
        BY <2>6, SeedsAreApart
      <3>2. Among(t, opened) => t > 10000
        BY <1>1 DEF BookInv, Lists, OpenedByCounter, Among, FirstTicket
      <3>3. ~Among(t, opened) /\ ~Among(t, SeededPositions)
        BY <3>1, <3>2, SeededTickets
      <3> QED BY <1>1, <3>3 DEF BookInv, OnRecord
    <2>7. ASSUME NEW t PROVE Among(t, positions) <=>
              (Among(t, SeededPositions) \/ Among(t, opened)) /\ t \notin ToldClosed
      BY <1>1, <2>4, <2>5, <2>6 DEF BookInv, OnRecord
    <2>2. ToSet(positions) = ToSet(SeededPositions \o opened) \ ToldClosed
      BY <2>1, <2>7, SetOfAmong
    <2>8. ToldClosed \subseteq ToSet(history)
      BY <1>1, <2>4, HistoryHolds, SetOfAmong
    <2>3. IsInjective(closed)
      BY <1>1 DEF BookInv, Distinct, IsInjective
    <2> QED BY <1>1, <2>2, <2>3, <2>8 DEF BookInv, OnRecord, Increasing, BookMatchesAnswers
  <1> QED BY BookAlways, <1>1, PTL

\* What the stream announces was seeded open: it is open still, or in the history.
THEOREM AnnouncedWasReal == Spec => []AnnouncedIsOnRecord
  <1>1. ASSUME BookInv PROVE AnnouncedIsOnRecord
    <2> SUFFICES ASSUME NEW t \in ToSet(announced), t \notin ToSet(positions)
                 PROVE  t \in ToSet(history)
      BY DEF AnnouncedIsOnRecord
    <2>1. Among(t, SeededPositions)
      <3>1. Among(t, announced)
        BY SetOfAmong
      <3>2. announced = SeededPositions \/ announced = <<>>
        BY <1>1 DEF BookInv, Lists
      <3> QED BY <3>1, <3>2 DEF Among
    <2>2. Among(t, closed)
      BY <1>1, <2>1, SetOfAmong DEF BookInv, OnRecord
    <2> QED BY <1>1, <2>2, HistoryHolds, SetOfAmong
  <1> QED BY BookAlways, <1>1, PTL
=============================================================================
