-------------------------- MODULE GatewayStreamProofs --------------------------
(***************************************************************************)
(* The list of connections under its broadcaster and its handlers, for any *)
(* number of clients, which come and go as they like.                      *)
(***************************************************************************)
EXTENDS GatewayStream, FiniteSetTheorems, SequenceTheorems, WellFoundedInduction, TLAPS

USE ClientsAssumption

Distinct(list) == \A i, j \in DOMAIN list : list[i] = list[j] => i = j

-----------------------------------------------------------------------------
(* Places: the k-th of a set of numbers.                                   *)

LEMMA Least ==
    ASSUME NEW T \in SUBSET Nat, T # {}
    PROVE  \E m \in T : \A n \in T : m <= n
  <1> DEFINE R == OpToRel(<, Nat)
  <1>1. IsWellFoundedOn(R, Nat)
    BY NatLessThanWellFounded
  <1>2. PICK m \in T : \A n \in T : ~(<<n, m>> \in R)
    <2> HIDE DEF R
    <2> QED BY <1>1, WFMin
  <1>3. \A n \in T : ~(n < m)
    BY <1>2 DEF R, OpToRel
  <1> QED BY <1>3

\* Between two neighbours the rank grows by one.
LEMMA RankOfNext ==
    ASSUME NEW P \in SUBSET Nat, IsFiniteSet(P), NEW i \in P, NEW j \in P, i < j,
           \A x \in P : x > i => x >= j
    PROVE  Rank(j, P) = Rank(i, P) + 1
  <1>0. \A x \in P : x \in Nat
    OBVIOUS
  <1>1. {x \in P : x <= j} = {x \in P : x <= i} \cup {j}
    <2>1. \A x \in P : x <= j <=> x <= i \/ x = j
      BY <1>0
    <2> QED BY <2>1
  <1>2. IsFiniteSet({x \in P : x <= i}) /\ j \notin {x \in P : x <= i}
    BY FS_Subset
  <1> QED BY <1>1, <1>2, FS_AddElement DEF Rank

LEMMA RankIsWithin ==
    ASSUME NEW P \in SUBSET Nat, IsFiniteSet(P), NEW i \in P
    PROVE  Rank(i, P) \in 1..Cardinality(P)
  <1>1. {x \in P : x <= i} \in SUBSET P /\ i \in {x \in P : x <= i}
    OBVIOUS
  <1>2. IsFiniteSet({x \in P : x <= i}) /\ Rank(i, P) <= Cardinality(P)
    BY <1>1, FS_Subset DEF Rank
  <1>3. Rank(i, P) # 0 /\ Rank(i, P) \in Nat /\ Cardinality(P) \in Nat
    BY <1>1, <1>2, FS_EmptySet, FS_CardinalityType DEF Rank
  <1> QED BY <1>2, <1>3

LEMMA RankGrows ==
    ASSUME NEW P \in SUBSET Nat, IsFiniteSet(P), NEW i \in P, NEW j \in P, i < j
    PROVE  Rank(i, P) < Rank(j, P)
  <1> DEFINE below(n) == {x \in P : x <= n}
  <1>0. \A x \in P : x \in Nat
    OBVIOUS
  <1>1. below(i) \in SUBSET below(j) /\ j \in below(j) /\ j \notin below(i)
    <2>1. ~(j <= i) /\ j <= j /\ \A x \in P : x <= i => x <= j
      BY <1>0
    <2> QED BY <2>1
  <1>2. IsFiniteSet(below(j)) /\ IsFiniteSet(below(i))
    BY FS_Subset
  <1>3. Cardinality(below(i)) <= Cardinality(below(j)) /\ Cardinality(below(j)) # Cardinality(below(i))
    BY <1>1, <1>2, FS_Subset
  <1>4. Cardinality(below(i)) \in Nat /\ Cardinality(below(j)) \in Nat
    BY <1>2, FS_CardinalityType
  <1> QED BY <1>3, <1>4 DEF Rank

\* Each rank is that of one place, by the least rank that would not be.
LEMMA PlacesExist ==
    ASSUME NEW P \in SUBSET Nat, IsFiniteSet(P), NEW k \in 1..Cardinality(P)
    PROVE  \E i \in P : Rank(i, P) = k
  <1> DEFINE N == Cardinality(P)
             bad == {m \in 1..N : \A i \in P : Rank(i, P) # m}
  <1>0. N \in Nat
    BY FS_CardinalityType
  <1>1. SUFFICES ASSUME bad # {} PROVE FALSE
    OBVIOUS
  <1>2. PICK m \in bad : \A n \in bad : m <= n
    <2>1. bad \in SUBSET Nat
      BY <1>0
    <2> HIDE DEF bad
    <2> QED BY <1>1, <2>1, Least
  <1>3. m \in 1..N /\ \A i \in P : Rank(i, P) # m
    OBVIOUS
  <1>4. CASE m = 1
    <2>1. P # {}
      BY <1>0, <1>3, FS_EmptySet
    <2>2. PICK i \in P : \A x \in P : i <= x
      BY <2>1, Least
    <2>3. {x \in P : x <= i} = {i}
      <3>1. \A x \in P : x \in Nat
        OBVIOUS
      <3>2. \A x \in P : x <= i <=> x = i
        BY <2>2, <3>1
      <3> QED BY <3>2
    <2> QED BY <1>3, <1>4, <2>3, FS_Singleton DEF Rank
  <1>5. CASE m > 1
    <2>1. m - 1 \in 1..N /\ m - 1 \notin bad
      BY <1>0, <1>2, <1>3, <1>5
    <2>2. PICK i \in P : Rank(i, P) = m - 1
      BY <2>1
    <2> DEFINE above == {x \in P : x > i}
    <2>3. above # {}
      <3>1. SUFFICES ASSUME above = {} PROVE FALSE
        OBVIOUS
      <3>2. {x \in P : x <= i} = P
        <4>1. \A x \in P : x \in Nat
          OBVIOUS
        <4>2. \A x \in P : x <= i
          BY <3>1, <4>1
        <4> QED BY <4>2
      <3>3. Rank(i, P) = N
        BY <3>2 DEF Rank
      <3> QED BY <1>0, <1>3, <2>2, <3>3
    <2>4. PICK j \in above : \A x \in above : j <= x
      BY <2>3, Least
    <2>5. Rank(j, P) = Rank(i, P) + 1
      BY <2>4, RankOfNext
    <2>6. Rank(j, P) = m
      BY <1>0, <1>3, <2>2, <2>5
    <2> QED BY <1>3, <2>6
  <1> QED BY <1>0, <1>3, <1>4, <1>5

LEMMA PlaceOfRank ==
    ASSUME NEW P \in SUBSET Nat, IsFiniteSet(P)
    PROVE  /\ \A k \in 1..Cardinality(P) : Place(k, P) \in P /\ Rank(Place(k, P), P) = k
           /\ \A i \in P : Rank(i, P) \in 1..Cardinality(P) /\ Place(Rank(i, P), P) = i
  <1>1. ASSUME NEW k \in 1..Cardinality(P) PROVE Place(k, P) \in P /\ Rank(Place(k, P), P) = k
    BY PlacesExist DEF Place
  <1>2. ASSUME NEW i \in P PROVE Rank(i, P) \in 1..Cardinality(P) /\ Place(Rank(i, P), P) = i
    <2>1. Rank(i, P) \in 1..Cardinality(P)
      BY RankIsWithin
    <2> DEFINE j == Place(Rank(i, P), P)
    <2>2. j \in P /\ Rank(j, P) = Rank(i, P)
      BY <1>1, <2>1
    <2> HIDE DEF j
    <2>3. ~(i < j) /\ ~(j < i)
      BY <2>1, <2>2, RankGrows
    <2>4. i = j
      BY <2>2, <2>3
    <2> QED BY <2>1, <2>4 DEF j
  <1> QED BY <1>1, <1>2

-----------------------------------------------------------------------------
(* Lists of clients.                                                       *)

LEMMA RemainingClients ==
    ASSUME NEW list \in Seq(Clients), Distinct(list), NEW xs
    PROVE  /\ Without(list, xs) \in Seq(Clients)
           /\ Distinct(Without(list, xs))
           /\ Elements(Without(list, xs)) = Elements(list) \ xs
  <1> DEFINE P == Kept(list, xs)
             rest == Without(list, xs)
  <1>1. P \in SUBSET Nat /\ P \in SUBSET (DOMAIN list) /\ DOMAIN list = 1..Len(list) /\ Len(list) \in Nat
    BY DEF Kept
  <1>2. IsFiniteSet(P)
    <2>1. IsFiniteSet(1..Len(list))
      BY <1>1, FS_Interval
    <2> HIDE DEF P
    <2> QED BY <1>1, <2>1, FS_Subset
  <1>3. Cardinality(P) \in Nat
    BY <1>2, FS_CardinalityType
  <1>4. DOMAIN rest = 1..Cardinality(P) /\ \A k \in 1..Cardinality(P) : rest[k] = list[Place(k, P)]
    BY DEF Without
  <1>5. \A i \in DOMAIN list : i \in P <=> list[i] \notin xs
    BY DEF Kept
  <1>6. /\ \A k \in 1..Cardinality(P) : Place(k, P) \in P /\ Rank(Place(k, P), P) = k
        /\ \A i \in P : Rank(i, P) \in 1..Cardinality(P) /\ Place(Rank(i, P), P) = i
    BY <1>1, <1>2, PlaceOfRank
  <1>7. rest \in Seq(Clients)
    <2>1. \A k \in 1..Cardinality(P) : list[Place(k, P)] \in Clients
      BY <1>1, <1>6
    <2> QED BY <1>3, <2>1 DEF Without
  <1> HIDE DEF P, rest
  <1>8. Distinct(rest)
    <2> SUFFICES ASSUME NEW k \in 1..Cardinality(P), NEW l \in 1..Cardinality(P), rest[k] = rest[l]
                 PROVE  k = l
      BY <1>4 DEF Distinct
    <2>1. Place(k, P) = Place(l, P)
      BY <1>1, <1>4, <1>6 DEF Distinct
    <2> QED BY <1>6, <2>1
  <1>9. ASSUME NEW c PROVE c \in Elements(rest) <=> c \in Elements(list) /\ c \notin xs
    <2>1. ASSUME c \in Elements(rest) PROVE c \in Elements(list) /\ c \notin xs
      <3>1. PICK k \in 1..Cardinality(P) : c = list[Place(k, P)]
        BY <1>4, <2>1 DEF Elements
      <3> QED BY <1>1, <1>5, <1>6, <3>1 DEF Elements
    <2>2. ASSUME c \in Elements(list), c \notin xs PROVE c \in Elements(rest)
      <3>1. PICK i \in P : c = list[i]
        BY <1>5, <2>2 DEF Elements
      <3>2. Rank(i, P) \in DOMAIN rest /\ rest[Rank(i, P)] = c
        BY <1>4, <1>6, <3>1
      <3> QED BY <3>2 DEF Elements
    <2> QED BY <2>1, <2>2
  <1> QED BY <1>7, <1>8, <1>9 DEF rest

LEMMA RemovedAt ==
    ASSUME NEW list \in Seq(Clients), NEW i \in DOMAIN list
    PROVE  /\ RemoveAt(list, i) \in Seq(Clients) /\ Len(RemoveAt(list, i)) = Len(list) - 1
           /\ \A j \in 1..Len(list) - 1 : RemoveAt(list, i)[j] = list[IF j < i THEN j ELSE j + 1]
  <1> DEFINE before == SubSeq(list, 1, i - 1)
             after  == SubSeq(list, i + 1, Len(list))
  <1>1. Len(list) \in Nat /\ i \in 1..Len(list)
    OBVIOUS
  <1>2. /\ before \in Seq(Clients) /\ Len(before) = i - 1
        /\ \A j \in 1..i - 1 : before[j] = list[j]
    BY <1>1
  <1>3. /\ after \in Seq(Clients) /\ Len(after) = Len(list) - i
        /\ \A j \in 1..Len(list) - i : after[j] = list[i + j]
    BY <1>1
  <1>4. RemoveAt(list, i) = before \o after
    BY DEF RemoveAt
  <1> HIDE DEF before, after
  <1>5. /\ before \o after \in Seq(Clients) /\ Len(before \o after) = Len(list) - 1
        /\ \A j \in 1..Len(list) - 1 :
              (before \o after)[j] = IF j < i THEN before[j] ELSE after[j - (i - 1)]
    BY <1>1, <1>2, <1>3, SMTT(30)
  <1>6. ASSUME NEW j \in 1..Len(list) - 1
        PROVE  (before \o after)[j] = list[IF j < i THEN j ELSE j + 1]
    <2>1. CASE j < i
      BY <1>1, <1>2, <1>5, <2>1
    <2>2. CASE ~(j < i)
      <3>1. j - (i - 1) \in 1..Len(list) - i /\ i + (j - (i - 1)) = j + 1
        BY <1>1, <2>2
      <3> QED BY <1>3, <1>5, <2>2, <3>1
    <2> QED BY <2>1, <2>2
  <1> QED BY <1>4, <1>5, <1>6

LEMMA IndexOfListed ==
    ASSUME NEW list \in Seq(Clients), Distinct(list), NEW c \in Elements(list)
    PROVE  IndexOf(list, c) \in DOMAIN list /\ list[IndexOf(list, c)] = c
  <1>1. PICK i \in DOMAIN list : list[i] = c
    BY DEF Elements
  <1>2. DOMAIN list = 1..Len(list) /\ Len(list) \in Nat
    OBVIOUS
  <1>3. \A j \in 1..i - 1 : j \in DOMAIN list /\ j # i
    BY <1>2
  <1>4. \A j \in 1..i - 1 : list[j] # c
    BY <1>1, <1>3 DEF Distinct
  <1> QED BY <1>1, <1>4 DEF IndexOf

LEMMA RemovedClient ==
    ASSUME NEW list \in Seq(Clients), Distinct(list), NEW i \in DOMAIN list
    PROVE  /\ Distinct(RemoveAt(list, i))
           /\ Elements(RemoveAt(list, i)) = Elements(list) \ {list[i]}
  <1> DEFINE rest == RemoveAt(list, i)
  <1>1. /\ rest \in Seq(Clients) /\ Len(rest) = Len(list) - 1
        /\ \A j \in 1..Len(list) - 1 : rest[j] = list[IF j < i THEN j ELSE j + 1]
    BY RemovedAt
  <1>2. /\ DOMAIN rest = 1..Len(list) - 1 /\ DOMAIN list = 1..Len(list)
        /\ Len(list) \in Nat /\ i \in 1..Len(list)
    BY <1>1
  <1> HIDE DEF rest
  <1>3. Distinct(rest)
    BY <1>1, <1>2, SMTT(30) DEF Distinct
  <1>4. ASSUME NEW c, c \in Elements(rest) PROVE c \in Elements(list) /\ c # list[i]
    <2>1. PICK j \in 1..Len(list) - 1 : rest[j] = c
      BY <1>2, <1>4 DEF Elements
    <2>2. PICK k \in 1..Len(list) : k = IF j < i THEN j ELSE j + 1
      BY <1>2
    <2>3. k # i /\ list[k] = c
      BY <1>1, <1>2, <2>1, <2>2
    <2> QED BY <1>2, <2>3 DEF Elements, Distinct
  <1>5. ASSUME NEW c, c \in Elements(list), c # list[i] PROVE c \in Elements(rest)
    <2>1. PICK j \in 1..Len(list) : list[j] = c /\ j # i
      BY <1>2, <1>5 DEF Elements
    <2>2. PICK k \in 1..Len(list) - 1 : k = IF j < i THEN j ELSE j - 1
      BY <1>2, <2>1
    <2>3. rest[k] = c
      BY <1>1, <1>2, <2>1, <2>2
    <2> QED BY <1>2, <2>3 DEF Elements
  <1> QED BY <1>3, <1>4, <1>5 DEF rest

LEMMA ListedLast ==
    ASSUME NEW list \in Seq(Clients), NEW c \in Clients
    PROVE  /\ Append(list, c) \in Seq(Clients) /\ Len(Append(list, c)) = Len(list) + 1
           /\ Append(list, c)[Len(list) + 1] = c
           /\ \A i \in 1..Len(list) : Append(list, c)[i] = list[i]
           /\ Elements(Append(list, c)) = Elements(list) \cup {c}
  <1> DEFINE longer == Append(list, c)
  <1>1. /\ longer \in Seq(Clients) /\ Len(longer) = Len(list) + 1 /\ longer[Len(list) + 1] = c
        /\ \A i \in 1..Len(list) : longer[i] = list[i]
        /\ DOMAIN longer = 1..Len(list) + 1 /\ DOMAIN list = 1..Len(list) /\ Len(list) \in Nat
    OBVIOUS
  <1> HIDE DEF longer
  <1>2. Elements(longer) = Elements(list) \cup {c}
    BY <1>1 DEF Elements
  <1> QED BY <1>1, <1>2 DEF longer

\* A list without duplicates is no longer than there are clients.
LEMMA ListFits ==
    ASSUME NEW list \in Seq(Clients), Distinct(list)
    PROVE  Len(list) <= Cardinality(Clients) /\ Cardinality(Clients) \in Nat
  <1>1. list \in Injection(1..Len(list), Clients)
    BY DEF Injection, IsInjective, Distinct
  <1>2. Cardinality(1..Len(list)) = Len(list)
    <2>1. \A n \in Nat : Cardinality(1..n) = n
      BY FS_Interval
    <2>2. Len(list) \in Nat
      OBVIOUS
    <2> QED BY <2>1, <2>2
  <1> QED BY <1>1, <1>2, FS_Injection, FS_CardinalityType

-----------------------------------------------------------------------------
(* The invariant, by its parts.                                            *)

Typed ==
    /\ client \in [Clients -> ClientStates]
    /\ conns \in Seq(Clients) /\ dead \in Seq(Clients)
    /\ msg \in Messages \cup {"sleep"}
    /\ idx \in Nat \ {0} /\ idx <= Cardinality(Clients) + 1
    /\ target = {} \/ \E c \in Clients : target = {c}
    /\ served \subseteq Clients /\ owed \subseteq Clients
    /\ announced \in BOOLEAN

\* Whose send raised is closed; whoever was or is being served has connected.
SendsAreTo ==
    /\ \A c \in Elements(dead) : client[c] \in {"gone", "left"}
    /\ \A c \in served \cup target : client[c] # "new"

\* Those the iteration has not reached.
Ahead == {conns[i] : i \in {j \in DOMAIN conns : j >= idx}}

AheadAreNotServed == \A i \in DOMAIN conns : i >= idx => conns[i] \notin served \cup target

\* Whoever is owed the message is listed, and has it, is being sent it, failed to
\* get it, or is still to be reached.
OwedAreAhead ==
    /\ owed \subseteq served \cup target \cup Elements(dead) \cup Ahead
    /\ owed \subseteq Elements(conns)

StreamInv == Typed /\ ListedOnceWhileOpen /\ SendsAreTo /\ AheadAreNotServed /\ OwedAreAhead

LEMMA StreamInit == Init => StreamInv
  <1> SUFFICES ASSUME Init PROVE StreamInv
    OBVIOUS
  <1>1. Cardinality(Clients) \in Nat
    BY FS_CardinalityType
  <1>2. Elements(<<>>) = {}
    BY DEF Elements
  <1>3. /\ client = [c \in Clients |-> "new"] /\ conns = <<>> /\ msg = "sleep" /\ idx = 1
        /\ target = {} /\ dead = <<>> /\ served = {} /\ owed = {} /\ announced = FALSE
    BY DEF Init
  <1>4. conns \in Seq(Clients) /\ dead \in Seq(Clients)
    BY <1>3
  <1>5. Typed
    <2>1. client \in [Clients -> ClientStates]
      BY <1>3 DEF ClientStates
    <2>2. idx \in Nat \ {0} /\ idx <= Cardinality(Clients) + 1
      BY <1>1, <1>3
    <2>3. /\ msg \in Messages \cup {"sleep"} /\ served \subseteq Clients
          /\ owed \subseteq Clients /\ announced \in BOOLEAN
      BY <1>3
    <2> QED BY <1>3, <1>4, <2>1, <2>2, <2>3 DEF Typed
  <1>6. ListedOnceWhileOpen
    BY <1>2, <1>3 DEF ListedOnceWhileOpen
  <1>7. SendsAreTo
    BY <1>2, <1>3 DEF SendsAreTo
  <1>8. AheadAreNotServed /\ OwedAreAhead
    BY <1>3 DEF AheadAreNotServed, OwedAreAhead
  <1> QED BY <1>5, <1>6, <1>7, <1>8 DEF StreamInv

\* Every way to begin a broadcast, given the list it begins with.
LEMMA BeginStep ==
    ASSUME StreamInv, NEW m \in Messages \cup {"sleep"}, Begin(m), UNCHANGED client,
           conns' \in Seq(Clients), ListedOnceWhileOpen', announced' \in BOOLEAN
    PROVE  StreamInv'
  <1>1. /\ msg' = m /\ idx' = 1 /\ target' = {} /\ dead' = <<>> /\ served' = {}
        /\ owed' \subseteq Elements(conns')
    BY DEF Begin
  <1>2. Elements(dead') = {}
    BY <1>1 DEF Elements
  <1>3. Elements(conns') \subseteq Clients
    BY DEF Elements
  <1>4. Elements(conns') = Ahead'
    BY <1>1 DEF Elements, Ahead
  <1>5. Cardinality(Clients) \in Nat
    BY FS_CardinalityType
  <1>6. Typed'
    BY <1>1, <1>3, <1>5 DEF StreamInv, Typed
  <1> QED BY <1>1, <1>2, <1>4, <1>6 DEF StreamInv, SendsAreTo, AheadAreNotServed, OwedAreAhead

LEMMA AcceptStep == ASSUME StreamInv, NEW c \in Clients, Accept(c) PROVE StreamInv'
  <1> USE DEF StreamInv, Typed, ClientStates
  <1>1. /\ client[c] = "new" /\ client' = [client EXCEPT ![c] = "open"]
        /\ conns' = Append(conns, c)
        /\ UNCHANGED <<msg, idx, target, dead, served, owed, announced>>
    BY DEF Accept, Listed, loopVars
  <1>2. /\ conns' \in Seq(Clients) /\ Len(conns') = Len(conns) + 1 /\ conns'[Len(conns) + 1] = c
        /\ \A i \in 1..Len(conns) : conns'[i] = conns[i]
        /\ Elements(conns') = Elements(conns) \cup {c}
    BY <1>1, ListedLast
  <1>3. /\ DOMAIN conns = 1..Len(conns) /\ DOMAIN conns' = 1..Len(conns) + 1 /\ Len(conns) \in Nat
    BY <1>2
  <1>4. c \notin Elements(conns) /\ c \notin Elements(dead) /\ c \notin served \cup target
    BY <1>1 DEF ListedOnceWhileOpen, SendsAreTo
  <1>5. \A i \in 1..Len(conns) : conns[i] # c
    BY <1>3, <1>4 DEF Elements
  <1>6. ListedOnceWhileOpen'
    <2>1. \A i, j \in DOMAIN conns' : conns'[i] = conns'[j] => i = j
      BY <1>2, <1>3, <1>5 DEF ListedOnceWhileOpen
    <2>2. \A d \in Clients : client'[d] = "open" => d \in Elements(conns')
      BY <1>1, <1>2 DEF ListedOnceWhileOpen
    <2>3. \A d \in Elements(conns') : client'[d] \in {"open", "gone"}
      <3>1. Elements(conns) \subseteq Clients
        BY DEF Elements
      <3> QED BY <1>1, <1>2, <3>1 DEF ListedOnceWhileOpen
    <2> QED BY <2>1, <2>2, <2>3 DEF ListedOnceWhileOpen
  <1>7. Typed'
    BY <1>1, <1>2
  <1>8. SendsAreTo'
    <2>1. Elements(dead) \subseteq Clients
      BY DEF Elements
    <2> QED BY <1>1, <1>4, <2>1 DEF SendsAreTo
  <1>9. AheadAreNotServed'
    BY <1>1, <1>2, <1>3, <1>4 DEF AheadAreNotServed
  <1>10. Ahead \subseteq Ahead'
    BY <1>1, <1>2, <1>3 DEF Ahead
  <1>11. OwedAreAhead'
    BY <1>1, <1>2, <1>10 DEF OwedAreAhead
  <1> QED BY <1>6, <1>7, <1>8, <1>9, <1>11

LEMMA LeaveStep == ASSUME StreamInv, NEW c \in Clients, Leave(c) PROVE StreamInv'
  <1> USE DEF StreamInv, Typed, ClientStates
  <1>1. /\ client[c] = "gone" /\ client' = [client EXCEPT ![c] = "left"]
        /\ UNCHANGED <<msg, idx, target, dead, served, announced>>
    BY DEF Leave
  <1>2. Elements(dead) \subseteq Clients /\ Elements(conns) \subseteq Clients
    BY DEF Elements
  <1>3. SendsAreTo'
    BY <1>1, <1>2 DEF SendsAreTo
  <1>4. CASE c \notin Elements(conns)
    <2>1. UNCHANGED <<conns, owed>>
      BY <1>4 DEF Leave
    <2>2. ListedOnceWhileOpen'
      BY <1>1, <1>2, <1>4, <2>1 DEF ListedOnceWhileOpen
    <2> QED BY <1>1, <1>3, <2>1, <2>2 DEF AheadAreNotServed, OwedAreAhead, Ahead
  <1>5. CASE c \in Elements(conns)
    <2> DEFINE p == IndexOf(conns, c)
               skipped == {conns[i] : i \in {j \in DOMAIN conns : j = idx /\ p < j}}
    <2>1. conns' = RemoveAt(conns, p) /\ owed' = owed \ ({c} \cup skipped)
      BY <1>5 DEF Leave
    <2>2. Distinct(conns)
      BY DEF ListedOnceWhileOpen, Distinct
    <2>3. p \in DOMAIN conns /\ conns[p] = c
      BY <1>5, <2>2, IndexOfListed
    <2> HIDE DEF p
    <2>4. /\ conns' \in Seq(Clients) /\ Len(conns') = Len(conns) - 1
          /\ \A j \in 1..Len(conns) - 1 : conns'[j] = conns[IF j < p THEN j ELSE j + 1]
          /\ Distinct(conns') /\ Elements(conns') = Elements(conns) \ {c}
      BY <2>1, <2>2, <2>3, RemovedAt, RemovedClient
    <2>5. /\ DOMAIN conns = 1..Len(conns) /\ DOMAIN conns' = 1..Len(conns) - 1
          /\ Len(conns) \in Nat /\ p \in 1..Len(conns)
      BY <2>3, <2>4
    <2>6. ListedOnceWhileOpen'
      BY <1>1, <1>2, <2>4 DEF ListedOnceWhileOpen, Distinct
    <2>7. AheadAreNotServed'
      <3> SUFFICES ASSUME NEW j \in 1..Len(conns) - 1, j >= idx
                   PROVE  conns'[j] \notin served \cup target
        BY <1>1, <2>5 DEF AheadAreNotServed
      <3>1. PICK k \in 1..Len(conns) : k = IF j < p THEN j ELSE j + 1
        BY <2>5
      <3>2. k >= idx /\ conns'[j] = conns[k]
        BY <2>4, <2>5, <3>1
      <3> QED BY <2>5, <3>2 DEF AheadAreNotServed
    <2>8. Ahead \ ({c} \cup skipped) \subseteq Ahead'
      <3> SUFFICES ASSUME NEW k \in 1..Len(conns), k >= idx, conns[k] # c, conns[k] \notin skipped
                   PROVE  conns[k] \in Ahead'
        BY <2>5 DEF Ahead
      <3>1. k # p /\ ~(k = idx /\ p < k)
        BY <2>3, <2>5
      <3>2. PICK j \in 1..Len(conns) - 1 : j = IF k < p THEN k ELSE k - 1
        BY <2>5, <3>1
      <3>3. j >= idx /\ conns'[j] = conns[k]
        BY <2>4, <2>5, <3>1, <3>2
      <3> QED BY <1>1, <2>5, <3>3 DEF Ahead
    <2>9. OwedAreAhead'
      BY <1>1, <2>1, <2>4, <2>8 DEF OwedAreAhead
    <2>10. Typed'
      BY <1>1, <2>1, <2>4
    <2> QED BY <1>3, <2>6, <2>7, <2>9, <2>10
  <1> QED BY <1>4, <1>5

LEMMA DisconnectStep == ASSUME StreamInv, NEW c \in Clients, Disconnect(c) PROVE StreamInv'
  <1> USE DEF StreamInv, Typed, ClientStates
  <1>1. /\ client[c] = "open" /\ client' = [client EXCEPT ![c] = "gone"]
        /\ UNCHANGED <<conns, msg, idx, target, dead, served, owed, announced>>
    BY DEF Disconnect, loopVars
  <1>2. Elements(dead) \subseteq Clients /\ Elements(conns) \subseteq Clients
    BY DEF Elements
  <1>3. ListedOnceWhileOpen' /\ SendsAreTo'
    BY <1>1, <1>2 DEF ListedOnceWhileOpen, SendsAreTo
  <1> QED BY <1>1, <1>3 DEF AheadAreNotServed, OwedAreAhead, Ahead

LEMMA RenewStep == ASSUME StreamInv, NEW c \in Clients, Renew(c) PROVE StreamInv'
  <1> USE DEF StreamInv, Typed, ClientStates
  <1>1. /\ c \notin Elements(conns) \cup Elements(dead) \cup target
        /\ client' = [client EXCEPT ![c] = "new"] /\ served' = served \ {c}
        /\ UNCHANGED <<conns, msg, idx, target, dead, owed, announced>>
    BY DEF Renew
  <1>2. Elements(dead) \subseteq Clients /\ Elements(conns) \subseteq Clients
    BY DEF Elements
  <1>3. ListedOnceWhileOpen' /\ SendsAreTo'
    BY <1>1, <1>2 DEF ListedOnceWhileOpen, SendsAreTo
  <1>4. AheadAreNotServed' /\ OwedAreAhead'
    BY <1>1 DEF AheadAreNotServed, OwedAreAhead, Ahead
  <1> QED BY <1>1, <1>3, <1>4

LEMMA PickStep == ASSUME StreamInv, Pick PROVE StreamInv'
  <1> USE DEF StreamInv, Typed, ClientStates
  <1>1. /\ target = {} /\ idx <= Len(conns) /\ target' = {conns[idx]} /\ idx' = idx + 1
        /\ UNCHANGED <<client, conns, msg, dead, served, owed, announced>>
    BY DEF Pick, Resumed
  <1>2. DOMAIN conns = 1..Len(conns) /\ Len(conns) \in Nat /\ idx \in 1..Len(conns) /\ conns[idx] \in Clients
    BY <1>1
  <1>3. Distinct(conns)
    BY DEF ListedOnceWhileOpen, Distinct
  <1>4. Typed'
    BY <1>1, <1>2, <1>3, ListFits
  <1>5. ListedOnceWhileOpen'
    BY <1>1 DEF ListedOnceWhileOpen
  <1>6. SendsAreTo'
    <2>1. client[conns[idx]] # "new"
      BY <1>2 DEF ListedOnceWhileOpen, Elements
    <2> QED BY <1>1, <2>1 DEF SendsAreTo
  <1>7. AheadAreNotServed'
    <2> SUFFICES ASSUME NEW i \in 1..Len(conns), i >= idx + 1 PROVE conns[i] \notin served \cup {conns[idx]}
      BY <1>1, <1>2 DEF AheadAreNotServed
    <2>1. i >= idx /\ i # idx
      BY <1>2
    <2> QED BY <1>2, <1>3, <2>1 DEF AheadAreNotServed, Distinct
  <1>8. Ahead \subseteq Ahead' \cup target'
    <2> SUFFICES ASSUME NEW i \in 1..Len(conns), i >= idx PROVE conns[i] \in Ahead' \cup target'
      BY <1>2 DEF Ahead
    <2>1. CASE i = idx
      BY <1>1, <2>1
    <2>2. CASE i # idx
      <3>1. i >= idx + 1
        BY <1>2, <2>2
      <3> QED BY <1>1, <1>2, <3>1 DEF Ahead
    <2> QED BY <2>1, <2>2
  <1>9. OwedAreAhead'
    BY <1>1, <1>8 DEF OwedAreAhead
  <1> QED BY <1>4, <1>5, <1>6, <1>7, <1>9

LEMMA SendOkStep == ASSUME StreamInv, NEW c \in Clients, SendOk(c) PROVE StreamInv'
  <1> USE DEF StreamInv, Typed, ClientStates
  <1>1. /\ c \in target /\ target' = {} /\ served' = served \cup {c}
        /\ UNCHANGED <<client, conns, msg, idx, dead, owed, announced>>
    BY DEF SendOk
  <1>2. target = {c}
    BY <1>1
  <1>3. Typed' /\ ListedOnceWhileOpen' /\ SendsAreTo'
    BY <1>1, <1>2 DEF ListedOnceWhileOpen, SendsAreTo
  <1>4. AheadAreNotServed' /\ OwedAreAhead'
    BY <1>1, <1>2 DEF AheadAreNotServed, OwedAreAhead, Ahead
  <1> QED BY <1>3, <1>4

LEMMA SendRaisesStep == ASSUME StreamInv, NEW c \in Clients, SendRaises(c) PROVE StreamInv'
  <1> USE DEF StreamInv, Typed, ClientStates
  <1>1. /\ c \in target /\ client[c] # "open" /\ target' = {} /\ dead' = Append(dead, c)
        /\ UNCHANGED <<client, conns, msg, idx, served, owed, announced>>
    BY DEF SendRaises, NoteDead
  <1>2. target = {c} /\ client[c] \in {"gone", "left"}
    BY <1>1 DEF SendsAreTo
  <1>3. dead' \in Seq(Clients) /\ Elements(dead') = Elements(dead) \cup {c}
    BY <1>1, ListedLast
  <1>4. Typed' /\ ListedOnceWhileOpen' /\ SendsAreTo'
    BY <1>1, <1>2, <1>3 DEF ListedOnceWhileOpen, SendsAreTo
  <1>5. AheadAreNotServed' /\ OwedAreAhead'
    BY <1>1, <1>2, <1>3 DEF AheadAreNotServed, OwedAreAhead, Ahead
  <1> QED BY <1>4, <1>5

\* The removal of dead connections leaves whoever is open listed.
LEMMA DeadRemoved ==
    ASSUME StreamInv, NEW xs \in SUBSET Elements(dead), conns' = Without(conns, xs), UNCHANGED client
    PROVE  conns' \in Seq(Clients) /\ ListedOnceWhileOpen'
  <1>1. conns \in Seq(Clients) /\ Distinct(conns)
    BY DEF StreamInv, Typed, ListedOnceWhileOpen, Distinct
  <1>2. /\ conns' \in Seq(Clients) /\ Distinct(conns')
        /\ Elements(conns') = Elements(conns) \ xs
    BY <1>1, RemainingClients
  <1>3. \A c \in Clients : client[c] = "open" => c \in Elements(conns) /\ c \notin xs
    BY DEF StreamInv, ListedOnceWhileOpen, SendsAreTo
  <1> QED BY <1>2, <1>3 DEF StreamInv, ListedOnceWhileOpen, Distinct

LEMMA ReapStep == ASSUME StreamInv, Reap PROVE StreamInv'
  <1> USE DEF Messages
  <1>1. UNCHANGED client /\ announced \in BOOLEAN
    BY DEF Reap, StreamInv, Typed
  <1>2. CASE conns' = Without(conns, Elements(dead)) /\ Continue
    <2>1. conns' \in Seq(Clients) /\ ListedOnceWhileOpen'
      BY <1>1, <1>2, DeadRemoved
    <2>2. PICK m \in Messages \cup {"sleep"} : Begin(m) /\ announced' \in BOOLEAN
      BY <1>1, <1>2 DEF Continue
    <2> QED BY <1>1, <2>1, <2>2, BeginStep
  <1>3. CASE RemoveRaises
    <2>1. PICK i \in Missing : conns' = Without(conns, DeadUpTo(i)) /\ Begin("sleep") /\ UNCHANGED announced
      BY <1>3 DEF RemoveRaises
    <2>2. DeadUpTo(i) \in SUBSET Elements(dead)
      <3>1. i \in DOMAIN dead /\ DOMAIN dead = 1..Len(dead) /\ Len(dead) \in Nat
        BY DEF Missing, StreamInv, Typed
      <3>2. \A j \in 1..i - 1 : j \in DOMAIN dead
        BY <3>1
      <3> QED BY <3>2 DEF DeadUpTo, Elements
    <2>3. conns' \in Seq(Clients) /\ ListedOnceWhileOpen'
      BY <1>1, <2>1, <2>2, DeadRemoved
    <2> QED BY <1>1, <2>1, <2>3, BeginStep
  <1> QED BY <1>2, <1>3 DEF Reap

LEMMA NextCycleStep == ASSUME StreamInv, NextCycle PROVE StreamInv'
  <1>1. Begin("price") /\ UNCHANGED <<client, conns, announced>>
    BY DEF NextCycle
  <1>2. conns' \in Seq(Clients) /\ ListedOnceWhileOpen' /\ announced' \in BOOLEAN
    BY <1>1 DEF StreamInv, Typed, ListedOnceWhileOpen
  <1> QED BY <1>1, <1>2, BeginStep DEF Messages

LEMMA StreamStep == StreamInv /\ [Next]_vars => StreamInv'
  <1> SUFFICES ASSUME StreamInv, [Next]_vars PROVE StreamInv'
    OBVIOUS
  <1>1. CASE Pick
    BY <1>1, PickStep
  <1>2. CASE Reap
    BY <1>2, ReapStep
  <1>3. CASE NextCycle
    BY <1>3, NextCycleStep
  <1>4. CASE \E c \in Clients : SendOk(c) \/ SendRaises(c)
    BY <1>4, SendOkStep, SendRaisesStep
  <1>5. CASE \E c \in Clients : Accept(c) \/ Disconnect(c) \/ Leave(c) \/ Renew(c)
    BY <1>5, AcceptStep, DisconnectStep, LeaveStep, RenewStep
  <1>6. CASE UNCHANGED vars
    BY <1>6 DEF vars, loopVars, StreamInv, Typed, ListedOnceWhileOpen, SendsAreTo,
                AheadAreNotServed, OwedAreAhead, Ahead
  <1> QED BY <1>1, <1>2, <1>3, <1>4, <1>5, <1>6 DEF Next, LoopStep

\* Nothing but the initial state and the steps is assumed: no fairness.
THEOREM StreamAlways == Spec => []StreamInv
  BY StreamInit, StreamStep, PTL DEF Spec

-----------------------------------------------------------------------------
\* The state keeps its types: the iterator never passes the end of the longest
\* list there can be, and one send is awaited at a time.
THEOREM TypeCorrect == Spec => []TypeOK
  <1>1. StreamInv => TypeOK
    <2> SUFFICES ASSUME StreamInv PROVE TypeOK
      OBVIOUS
    <2>1. Cardinality(Clients) \in Nat
      BY FS_CardinalityType
    <2>2. target \subseteq Clients /\ Cardinality(target) <= 1
      <3>1. target = {} \/ \E c \in Clients : target = {c}
        BY DEF StreamInv, Typed
      <3>2. Cardinality({}) = 0 /\ \A c : Cardinality({c}) = 1
        BY FS_EmptySet, FS_Singleton
      <3>3. ASSUME NEW c \in Clients, target = {c} PROVE target \subseteq Clients /\ Cardinality(target) <= 1
        <4>1. Cardinality(target) = 1
          BY <3>2, <3>3
        <4> QED BY <3>3, <4>1
      <3>4. CASE target = {}
        BY <3>2, <3>4
      <3> QED BY <3>1, <3>3, <3>4
    <2>3. idx \in 1..Cardinality(Clients) + 1
      BY <2>1 DEF StreamInv, Typed
    <2> QED BY <2>2, <2>3 DEF TypeOK, StreamInv, Typed
  <1> QED BY <1>1, StreamAlways, PTL

\* _active_connections: nobody is in it twice, nobody in it has left or is yet to
\* connect, and whoever is connected is in it.
THEOREM ListedOnce == Spec => []ListedOnceWhileOpen
  <1>1. StreamInv => ListedOnceWhileOpen
    BY DEF StreamInv
  <1> QED BY <1>1, StreamAlways, PTL

\* _broadcast does not send a message to a client twice, although handlers change
\* the list it iterates over while it awaits a send.
THEOREM ServedOnce == Spec => []NobodyServedTwice
  <1>1. StreamInv => NobodyServedTwice
    BY DEF StreamInv, AheadAreNotServed, NobodyServedTwice
  <1> QED BY <1>1, StreamAlways, PTL

\* A connected client misses a message of _broadcast only because the iterator was
\* made to skip it, or because its own send raised.
THEOREM OnlySkippedMiss == Spec => []MissedOnlyIfSkipped
  <1>1. StreamInv => MissedOnlyIfSkipped
    <2> SUFFICES ASSUME StreamInv, target = {}, idx > Len(conns)
                 PROVE  owed \subseteq served \cup Elements(dead)
      BY DEF MissedOnlyIfSkipped
    <2>1. DOMAIN conns = 1..Len(conns) /\ Len(conns) \in Nat /\ idx \in Nat
      BY DEF StreamInv, Typed
    <2>2. \A j \in DOMAIN conns : ~(j >= idx)
      BY <2>1
    <2>3. Ahead = {}
      BY <2>2 DEF Ahead
    <2> QED BY <2>3 DEF StreamInv, OwedAreAhead
  <1> QED BY <1>1, StreamAlways, PTL

-----------------------------------------------------------------------------
(* The end of a cycle.                                                     *)

\* What is left of a broadcast is a number, which a turn of its iteration makes smaller.
LEMMA TurnAdvances ==
    ASSUME StreamInv, Pick \/ \E c \in Clients : SendOk(c) \/ SendRaises(c)
    PROVE  Stage' = Stage /\ SendsLeft' \in 0..SendsLeft - 1
  <1> DEFINE all == Cardinality(Clients)
  <1>1. StreamInv'
    BY PickStep, SendOkStep, SendRaisesStep
  <1>2. /\ all \in Nat /\ idx \in Nat \ {0} /\ idx <= all + 1
        /\ idx' \in Nat \ {0} /\ idx' <= all + 1
    BY <1>1, FS_CardinalityType DEF StreamInv, Typed
  <1>3. Cardinality({}) = 0 /\ \A c : Cardinality({c}) = 1
    BY FS_EmptySet, FS_Singleton
  <1>4. msg' = msg
    BY DEF Pick, SendOk, SendRaises
  <1> HIDE DEF all
  <1>5. Stage' = Stage
    BY <1>4 DEF Stage
  <1>6. SendsLeft = 2 * (all + 1 - idx) + Cardinality(target)
    BY DEF SendsLeft, all
  <1>7. SendsLeft' = 2 * (all + 1 - idx') + Cardinality(target')
    BY DEF SendsLeft, all
  <1>8. CASE Pick
    <2>1. target = {} /\ target' = {conns[idx]} /\ idx' = idx + 1
      BY <1>8 DEF Pick, Resumed
    <2>2. Cardinality(target) = 0 /\ Cardinality(target') = 1
      BY <1>3, <2>1
    <2> QED BY <1>2, <1>5, <1>6, <1>7, <2>1, <2>2
  <1>9. CASE \E c \in Clients : SendOk(c) \/ SendRaises(c)
    <2>1. PICK c \in Clients : c \in target /\ target' = {} /\ idx' = idx
      BY <1>9 DEF SendOk, SendRaises
    <2>2. target = {c}
      BY <2>1 DEF StreamInv, Typed
    <2>3. Cardinality(target) = 1 /\ Cardinality(target') = 0
      BY <1>3, <2>1, <2>2
    <2> QED BY <1>2, <1>5, <1>6, <1>7, <2>1, <2>3
  <1> QED BY <1>8, <1>9

\* With any number of clients, which come, go and come back as they like: a broadcast ends
\* after as many turns as there can be connections to reach and sends to await, and
\* a cycle after four broadcasts.
THEOREM CycleEnds == Spec => CycleAdvances
  <1>1. ASSUME StreamInv, Next, msg # "sleep"
        PROVE  IF LoopStep
               THEN Stage' < Stage \/ (Stage' = Stage /\ SendsLeft' \in 0..SendsLeft - 1)
               ELSE UNCHANGED <<msg, idx, target>>
    <2>1. CASE Reap
      <3>1. msg \in Messages
        BY <1>1 DEF StreamInv, Typed
      <3>2. \/ msg = "price" /\ msg' \in {"status", "sleep"}
            \/ msg = "status" /\ msg' \in {"account", "positions", "sleep"}
            \/ msg = "account" /\ msg' \in {"positions", "sleep"}
            \/ msg = "positions" /\ msg' = "sleep"
        BY <2>1, <3>1 DEF Reap, Continue, RemoveRaises, Begin, Messages
      <3>3. Stage' < Stage
        BY <3>2 DEF Stage
      <3> QED BY <2>1, <3>3 DEF LoopStep
    <2>2. CASE Pick \/ \E c \in Clients : SendOk(c) \/ SendRaises(c)
      BY <1>1, <2>2, TurnAdvances DEF LoopStep
    <2>3. ~NextCycle
      BY <1>1 DEF NextCycle
    <2>4. CASE ~LoopStep
      <3>1. \E c \in Clients : Accept(c) \/ Disconnect(c) \/ Leave(c) \/ Renew(c)
        BY <1>1, <2>4 DEF Next
      <3> QED BY <2>4, <3>1 DEF Accept, Disconnect, Leave, Renew, loopVars
    <2> QED BY <2>1, <2>2, <2>3, <2>4 DEF LoopStep
  <1>2. StreamInv /\ [Next]_vars
        => [msg # "sleep" =>
              IF LoopStep
              THEN Stage' < Stage \/ (Stage' = Stage /\ SendsLeft' \in 0..SendsLeft - 1)
              ELSE UNCHANGED <<msg, idx, target>>]_vars
    BY <1>1
  <1> QED BY <1>2, StreamAlways, PTL DEF Spec, CycleAdvances
=============================================================================
