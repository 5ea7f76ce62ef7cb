--------------------------- MODULE RedisCacheProofs ----------------------------
(***************************************************************************)
(* The Redis client is an expiring store, for any ids, lifetimes and       *)
(* counters, although calls may raise before or after they were executed.  *)
(***************************************************************************)
EXTENDS RedisCache, TLAPS

USE RedisCacheAssumption

Spaces == Prefixes \cup {"key"}
Texts == [is : {"nil", "text", "number", "empty", "dict", "null"}, n : 0..MaxCount]
Lives == {Absent, Forever} \cup 1..MaxLife

\* The invariant: the types, what is there has a text, and only plain keys stay.
DbInv ==
    /\ db \in [Keys -> [text : Texts, left : Lives]]
    /\ \A k \in Keys : db[k].left = Absent <=> db[k].text.is = "nil"
    /\ SpacesExpire

\* What is put into a cell keeps the invariant.
MayPut(k, text, left) ==
    /\ text \in Texts /\ left \in Lives
    /\ left = Absent <=> text.is = "nil"
    /\ k[1] \in Prefixes => left # Forever

LEMMA PutKeeps ==
    ASSUME DbInv, NEW k \in Keys, NEW text, NEW left, MayPut(k, text, left), Put(k, text, left)
    PROVE  DbInv'
  BY DEF DbInv, MayPut, Put, SpacesExpire

LEMMA DumpsIsText ==
    ASSUME NEW v \in Values PROVE Dumps(v) \in Texts /\ Dumps(v).is # "nil"
  BY DEF Values, Dumps, Texts, Value, Number, None

LEMMA KeysAre == \A space \in Spaces, id \in Ids : <<space, id>> \in Keys /\ <<space, id>>[1] = space
  BY DEF Spaces, Keys

-----------------------------------------------------------------------------
(* A command that is tried, seen by the store.                             *)

LEMMA SameAnswers ==
    /\ Store!None = None /\ Store!Raised = Raised /\ Store!Idle = Idle
    /\ Store!Absent = Absent /\ Store!Forever = Forever
    /\ \A i : Store!Number(i) = Number(i)
    /\ Store!Truth(TRUE) = Truth(TRUE) /\ Store!Truth(FALSE) = Truth(FALSE)
  BY DEF Store!None, Store!Raised, Store!Idle, Store!Absent, Store!Forever, Store!Number,
         Store!Truth, None, Raised, Idle, Absent, Forever, Number, Truth, Value

LEMMA PutMaps ==
    ASSUME DbInv, NEW k \in Keys, NEW text, NEW left, Put(k, text, left)
    PROVE  Store!Put(k, ReadAs(k[1], text), left)
  BY DEF DbInv, Put, Store!Put

LEMMA KeptMaps == ASSUME UNCHANGED db PROVE Store!Keep
  BY DEF Store!Keep

LEMMA AnswerMaps ==
    ASSUME NEW op, NEW k, NEW v, NEW t, NEW ret, Answer(op, k, v, t, ret)
    PROVE  Store!Answer(op, k, v, t, ret)
  BY SameAnswers DEF Answer, Store!Answer

\* A call that raised without effect.
LEMMA RefuseMaps ==
    ASSUME DbInv, NEW op \in Store!Ops, NEW k \in Keys, NEW v \in Values, NEW t \in 0..MaxLife,
           Answer(op, k, v, t, Raised), UNCHANGED db
    PROVE  DbInv' /\ Store!Refuse
  <1>1. DbInv'
    BY DEF DbInv, SpacesExpire
  <1>2. call = Store!Idle /\ call' = [op |-> op, cell |-> k, value |-> v, ttl |-> t, ret |-> Store!Raised]
    BY SameAnswers DEF Answer
  <1>3. UNCHANGED [c \in Keys |-> ReadAs(c[1], db[c].text)] /\ UNCHANGED [c \in Keys |-> db[c].left]
    OBVIOUS
  <1> QED BY <1>1, <1>2, <1>3 DEF Store!Refuse

LEMMA PutTried ==
    ASSUME DbInv, NEW op \in Store!Ops, NEW k \in Keys, NEW v \in Values, NEW t \in 0..MaxLife,
           NEW ret, NEW text, NEW left, MayPut(k, text, left),
           Try(Put(k, text, left), op, k, v, t, ret)
    PROVE  /\ DbInv'
           /\ Store!Refuse \/ Store!Try(Store!Put(k, ReadAs(k[1], text), left), op, k, v, t, ret)
  <1>1. CASE /\ Answer(op, k, v, t, ret) \/ Answer(op, k, v, t, Raised)
             /\ Put(k, text, left)
    <2>1. DbInv' /\ Store!Put(k, ReadAs(k[1], text), left)
      BY <1>1, PutKeeps, PutMaps
    <2>2. Store!Answer(op, k, v, t, ret) \/ Store!Answer(op, k, v, t, Store!Raised)
      BY <1>1, AnswerMaps, SameAnswers
    <2> QED BY <2>1, <2>2 DEF Store!Try
  <1>2. CASE Answer(op, k, v, t, Raised) /\ UNCHANGED db
    BY <1>2, RefuseMaps
  <1> QED BY <1>1, <1>2 DEF Try

LEMMA ReadTried ==
    ASSUME DbInv, NEW op \in Store!Ops, NEW k \in Keys, NEW v \in Values, NEW t \in 0..MaxLife,
           NEW ret, Try(UNCHANGED db, op, k, v, t, ret)
    PROVE  DbInv' /\ Store!Try(Store!Keep, op, k, v, t, ret)
  <1>1. UNCHANGED db /\ (Answer(op, k, v, t, ret) \/ Answer(op, k, v, t, Raised))
    BY DEF Try
  <1>2. DbInv'
    BY <1>1 DEF DbInv, SpacesExpire
  <1>3. Store!Answer(op, k, v, t, ret) \/ Store!Answer(op, k, v, t, Store!Raised)
    BY <1>1, AnswerMaps, SameAnswers
  <1> QED BY <1>1, <1>2, <1>3, KeptMaps DEF Store!Try

-----------------------------------------------------------------------------
(* The operations.                                                         *)

\* What the client writes of a value is read as what the store keeps of it.
LEMMA ReadIsKept ==
    ASSUME NEW v \in Values, NEW space \in Spaces, NEW id \in Ids,
           space = "jwt" => v.is \in {"text", "digits"}
    PROVE  ReadAs(space, Dumps(v)) = KeptOf(<<space, id>>, v)
  BY DEF Values, Value, Number, None, ReadAs, Dumps, Loads, Decoded, KeptOf

LEMMA NoneIsValue == None \in Values
  BY DEF Values

LEMMA Expiring ==
    ASSUME DbInv, NEW space \in Spaces, NEW id \in Ids, NEW v \in Values, NEW t \in 0..MaxLife,
           space = "jwt" => v.is \in {"text", "digits"},
           SetExpiring(<<space, id>>, Dumps(v), v, t)
    PROVE  DbInv' /\ Store!Next
  <1> DEFINE k == <<space, id>>
  <1>1. k \in Keys /\ k[1] = space /\ "set" \in Store!Ops
    BY KeysAre DEF Store!Ops
  <1>2. ReadAs(k[1], Dumps(v)) = KeptOf(k, v)
    BY <1>1, ReadIsKept
  <1>3. CASE t > 0 /\ Try(Put(k, Dumps(v), t), "set", k, v, t, None)
    <2>1. MayPut(k, Dumps(v), t)
      BY <1>3, DumpsIsText DEF MayPut, Lives, Absent, Forever
    <2>2. /\ DbInv'
          /\ Store!Refuse \/ Store!Try(Store!Put(k, ReadAs(k[1], Dumps(v)), t), "set", k, v, t, None)
      BY <1>1, <1>3, <2>1, PutTried
    <2>3. Store!Refuse \/ Store!Set(k, v, t)
      BY <1>2, <1>3, <2>2, SameAnswers DEF Store!Set
    <2> QED BY <1>1, <2>2, <2>3 DEF Store!Next
  <1>4. CASE t = 0 /\ Refuse("set", k, v, t)
    BY <1>1, <1>4, RefuseMaps DEF Refuse, Store!Next
  <1> QED BY <1>3, <1>4 DEF SetExpiring, SETEX

LEMMA PlainKey ==
    ASSUME DbInv, NEW id \in Ids, NEW v \in Values, NEW t \in 0..MaxLife, SetKey(id, v, t)
    PROVE  DbInv' /\ Store!Next
  <1> DEFINE k == <<"key", id>>
             left == IF t = 0 THEN Forever ELSE t
  <1>1. k \in Keys /\ k[1] = "key" /\ "set" \in Store!Ops /\ "key" \in Spaces /\ "key" \notin Prefixes
    BY KeysAre DEF Store!Ops, Spaces, Prefixes
  <1>2. Try(Put(k, Dumps(v), left), "set", k, v, t, None)
    BY DEF SetKey, SETEX, SET
  <1>3. MayPut(k, Dumps(v), left)
    BY <1>1, DumpsIsText DEF MayPut, Lives, Absent, Forever
  <1>4. ReadAs(k[1], Dumps(v)) = KeptOf(k, v)
    BY <1>1, ReadIsKept
  <1>5. /\ DbInv'
        /\ Store!Refuse \/ Store!Try(Store!Put(k, ReadAs(k[1], Dumps(v)), left), "set", k, v, t, None)
    BY <1>1, <1>2, <1>3, PutTried
  <1>6. Store!Refuse \/ Store!Set(k, v, t)
    BY <1>4, <1>5, SameAnswers DEF Store!Set
  <1> QED BY <1>1, <1>5, <1>6 DEF Store!Next

LEMMA Reading ==
    ASSUME DbInv, NEW k \in Keys,
           \/ \E space \in Spaces, id \in Ids : k = <<space, id>> /\ Get(space, id)
           \/ Exists(k) \/ Ttl(k)
    PROVE  DbInv' /\ Store!Next
  <1>1. "get" \in Store!Ops /\ "exists" \in Store!Ops /\ "ttl" \in Store!Ops /\ 0 \in 0..MaxLife
    BY DEF Store!Ops
  <1>2. ASSUME NEW space \in Spaces, NEW id \in Ids, k = <<space, id>>, Get(space, id)
        PROVE  DbInv' /\ Store!Get(k)
    <2>1. ReadAs(space, db[k].text) = [c \in Keys |-> ReadAs(c[1], db[c].text)][k]
      BY <1>2
    <2> QED BY <1>1, <1>2, <2>1, ReadTried, NoneIsValue, SameAnswers DEF Get, Store!Get
  <1>3. CASE Exists(k)
    <2>1. Truth(Holds(k)) = Store!Truth(Store!Holds(k))
      BY DEF Truth, Store!Truth, Number, Store!Number, Value, Holds, Store!Holds, Absent, Store!Absent
    <2>2. DbInv' /\ Store!Exists(k)
      BY <1>1, <1>3, <2>1, ReadTried, NoneIsValue, SameAnswers DEF Exists, Store!Exists
    <2> QED BY <2>2 DEF Store!Next
  <1>4. CASE Ttl(k)
    <2>1. Number(db[k].left) = Store!Number([c \in Keys |-> db[c].left][k])
      BY SameAnswers
    <2>2. DbInv' /\ Store!Ttl(k)
      BY <1>1, <1>4, <2>1, ReadTried, NoneIsValue, SameAnswers DEF Ttl, Store!Ttl
    <2> QED BY <2>2 DEF Store!Next
  <1> QED BY <1>2, <1>3, <1>4 DEF Store!Next

LEMMA Nothing ==
    ASSUME NEW k \in Keys
    PROVE  MayPut(k, Nil.text, Nil.left) /\ Nil.left = Absent /\ ReadAs(k[1], Nil.text) = None
  BY DEF MayPut, Nil, Value, None, Texts, Lives, Absent, Forever, ReadAs, Loads, Decoded

LEMMA Deleted == ASSUME NEW k \in Keys, DbInv, DEL(k) PROVE Put(k, Nil.text, Nil.left)
  BY DEF DEL, Put, Nil

LEMMA Deleting ==
    ASSUME DbInv, NEW k \in Keys, Delete(k) PROVE DbInv' /\ Store!Next
  <1>1. "delete" \in Store!Ops /\ 0 \in 0..MaxLife
    BY DEF Store!Ops
  <1>2. Try(Put(k, Nil.text, Nil.left), "delete", k, None, 0, None)
    BY Deleted DEF Delete, Try
  <1>3. /\ DbInv'
        /\ Store!Refuse \/ Store!Try(Store!Put(k, None, Absent), "delete", k, None, 0, None)
    BY <1>1, <1>2, Nothing, NoneIsValue, PutTried
  <1>4. Store!Refuse \/ Store!Delete(k)
    BY <1>3, SameAnswers DEF Store!Delete
  <1> QED BY <1>3, <1>4 DEF Store!Next

LEMMA HoldsAsStore == ASSUME NEW k \in Keys PROVE Store!Holds(k) <=> Holds(k)
  BY DEF Store!Holds, Holds, Store!Absent, Absent

LEMMA ExpireStep ==
    ASSUME DbInv, NEW k \in Keys, NEW t \in 0..MaxLife, Expire(k, t) PROVE DbInv' /\ Store!Next
  <1>1. "expire" \in Store!Ops
    BY DEF Store!Ops
  <1>2. CASE ~Holds(k) /\ Try(UNCHANGED db, "expire", k, None, t, Truth(FALSE))
    <2>1. DbInv' /\ Store!Try(Store!Keep, "expire", k, None, t, Truth(FALSE))
      BY <1>1, <1>2, ReadTried, NoneIsValue
    <2>2. Store!Expire(k, t)
      BY <1>2, <2>1, HoldsAsStore, SameAnswers DEF Store!Expire
    <2> QED BY <2>1, <2>2 DEF Store!Next
  <1>3. CASE Holds(k) /\ t > 0 /\ Try(Put(k, db[k].text, t), "expire", k, None, t, Truth(TRUE))
    <2>1. MayPut(k, db[k].text, t)
      BY <1>3 DEF MayPut, DbInv, Holds, Lives, Absent, Forever
    <2>2. /\ DbInv'
          /\ Store!Refuse \/ Store!Try(Store!Put(k, ReadAs(k[1], db[k].text), t), "expire", k, None, t, Truth(TRUE))
      BY <1>1, <1>3, <2>1, NoneIsValue, PutTried
    <2>3. [c \in Keys |-> ReadAs(c[1], db[c].text)][k] = ReadAs(k[1], db[k].text)
      OBVIOUS
    <2>4. Store!Refuse \/ Store!Expire(k, t)
      BY <1>3, <2>2, <2>3, HoldsAsStore, SameAnswers DEF Store!Expire
    <2> QED BY <2>2, <2>4 DEF Store!Next
  <1>4. CASE Holds(k) /\ t = 0 /\ Try(Put(k, Nil.text, Nil.left), "expire", k, None, t, Truth(TRUE))
    <2>1. /\ DbInv'
          /\ Store!Refuse \/ Store!Try(Store!Put(k, None, Absent), "expire", k, None, t, Truth(TRUE))
      BY <1>1, <1>4, Nothing, NoneIsValue, PutTried
    <2>2. Store!Refuse \/ Store!Expire(k, t)
      BY <1>4, <2>1, HoldsAsStore, SameAnswers DEF Store!Expire
    <2> QED BY <2>1, <2>2 DEF Store!Next
  <1>5. CASE Holds(k) /\ t > 0
    <2>1. Try(SETEX(k, t, db[k].text), "expire", k, None, t, Truth(TRUE))
      BY <1>5 DEF Expire, Try
    <2> QED BY <1>3, <1>5, <2>1 DEF SETEX
  <1>6. CASE Holds(k) /\ t = 0
    <2>0. ~(t > 0)
      BY <1>6
    <2>1. Try(DEL(k), "expire", k, None, t, Truth(TRUE))
      BY <1>6, <2>0 DEF Expire, Try
    <2>2. Try(Put(k, Nil.text, Nil.left), "expire", k, None, t, Truth(TRUE))
      BY <2>1, Deleted DEF Try
    <2> QED BY <1>4, <1>6, <2>2
  <1>7. CASE ~Holds(k)
    BY <1>2, <1>7 DEF Expire
  <1> QED BY <1>5, <1>6, <1>7

LEMMA Counting ==
    ASSUME DbInv, NEW id \in Ids, Increment(id) PROVE DbInv' /\ Store!Next
  <1> DEFINE k == <<"key", id>>
             text == db[k].text
  <1>1. /\ k \in Keys /\ k[1] = "key" /\ "key" \notin Prefixes
        /\ "increment" \in Store!Ops /\ 0 \in 0..MaxLife
    BY KeysAre DEF Store!Ops, Spaces, Prefixes
  <1>2. /\ db[k].left \in Lives /\ text \in Texts /\ (Holds(k) <=> text.is # "nil")
    BY <1>1 DEF DbInv, Holds
  <1> DEFINE content == ReadAs("key", text)
  <1>3. content = [c \in Keys |-> ReadAs(c[1], db[c].text)][k]
    BY <1>1
  <1>4. ASSUME NEW m \in 0..MaxCount, NEW left \in Lives \ {Absent},
               Try(Put(k, Dumps(Number(m)), left), "increment", k, None, 0, Number(m))
        PROVE  /\ DbInv'
               /\ Store!Refuse \/ Store!Try(Store!Put(k, Number(m), left), "increment", k, None, 0, Number(m))
    <2>1. /\ Dumps(Number(m)) \in Texts /\ Dumps(Number(m)).is = "number"
          /\ ReadAs("key", Dumps(Number(m))) = Number(m)
      BY DEF Dumps, Number, Value, Texts, ReadAs, Loads
    <2>2. MayPut(k, Dumps(Number(m)), left)
      BY <1>1, <2>1 DEF MayPut
    <2> QED BY <1>1, <1>4, <2>1, <2>2, NoneIsValue, PutTried
  <1>5. CASE /\ ~Holds(k)
             /\ Try(Put(k, Dumps(Number(1)), Forever), "increment", k, None, 0, Number(1))
    <2>1. Forever \in Lives \ {Absent} /\ 1 \in 0..MaxCount
      BY DEF Lives, Forever, Absent
    <2>2. /\ DbInv'
          /\ Store!Refuse \/ Store!Try(Store!Put(k, Number(1), Forever), "increment", k, None, 0, Number(1))
      BY <1>4, <1>5, <2>1
    <2>3. Store!Refuse \/ Store!Increment(k)
      BY <1>1, <1>5, <2>2, HoldsAsStore, SameAnswers DEF Store!Increment
    <2> QED BY <1>1, <2>2, <2>3 DEF Store!Next
  <1>6. CASE /\ Holds(k) /\ text.is = "number" /\ text.n + 1 <= MaxCount
             /\ Try(Put(k, Dumps(Number(text.n + 1)), db[k].left), "increment", k, None, 0, Number(text.n + 1))
    <2>1. text.n + 1 \in 0..MaxCount /\ db[k].left \in Lives \ {Absent}
      BY <1>2, <1>6 DEF Holds, Texts
    <2>2. PICK m \in 0..MaxCount, left \in Lives \ {Absent} :
              /\ m = text.n + 1 /\ left = db[k].left
              /\ Try(Put(k, Dumps(Number(m)), left), "increment", k, None, 0, Number(m))
      BY <1>6, <2>1
    <2>3. /\ DbInv'
          /\ Store!Refuse \/ Store!Try(Store!Put(k, Number(m), left), "increment", k, None, 0, Number(m))
      BY <1>4, <2>2
    <2>4. content.is = "int" /\ content.n < MaxCount /\ Number(content.n + 1) = Number(m)
      <3>1. content = [is |-> "int", n |-> text.n]
        BY <1>6 DEF ReadAs, Loads
      <3> QED BY <1>2, <1>6, <2>2, <3>1 DEF Texts
    <2>5. ASSUME Store!Try(Store!Put(k, Number(m), left), "increment", k, None, 0, Number(m))
          PROVE  Store!Increment(k)
      <3> DEFINE held == [c \in Keys |-> ReadAs(c[1], db[c].text)][k]
                 lasts == [c \in Keys |-> db[c].left][k]
      <3>1. held.is = "int" /\ held.n < MaxCount
        BY <1>3, <2>4
      <3>2. Store!Number(held.n + 1) = Number(m) /\ lasts = left
        BY <1>1, <1>3, <2>2, <2>4, SameAnswers
      <3> HIDE DEF held, lasts
      <3>3. Store!Try(Store!Put(k, Store!Number(held.n + 1), lasts), "increment", k, Store!None, 0,
                      Store!Number(held.n + 1))
        BY <2>5, <3>2, SameAnswers DEF Store!Try, Store!Put, Store!Answer
      <3>4. Store!Increment(k)
        BY <3>1, <3>3 DEF Store!Increment, Store!Try, Store!Put, Store!Answer, held, lasts
      <3> QED BY <3>4
    <2> QED BY <1>1, <2>3, <2>5 DEF Store!Next
  <1>7. CASE Refuse("increment", k, None, 0)
    BY <1>1, <1>7, NoneIsValue, RefuseMaps DEF Refuse, Store!Next
  <1>8. CASE ~Holds(k) /\ text.is \in {"nil", "number"}
    <2>1. Try(Put(k, Dumps(Number(1)), Forever), "increment", k, None, 0, Number(1))
      BY <1>8 DEF Increment
    <2> QED BY <1>5, <1>8, <2>1
  <1>9. CASE Holds(k) /\ text.is \in {"nil", "number"}
    <2>1. /\ Number(text.n + 1).n <= MaxCount
          /\ Try(Put(k, Dumps(Number(text.n + 1)), db[k].left), "increment", k, None, 0, Number(text.n + 1))
      BY <1>9 DEF Increment
    <2>2. text.n + 1 <= MaxCount /\ text.is = "number"
      BY <1>2, <1>9, <2>1 DEF Number, Value
    <2> QED BY <1>6, <1>9, <2>1, <2>2
  <1> QED BY <1>7, <1>8, <1>9 DEF Increment

LEMMA TickStep == ASSUME DbInv, Tick PROVE DbInv' /\ Store!Next
  <1>1. \A k \in Keys : db'[k] = IF db[k].left = 1 THEN Nil
                                ELSE IF db[k].left > 1 THEN [db[k] EXCEPT !.left = @ - 1] ELSE db[k]
    BY DEF Tick
  <1>2. ASSUME NEW k \in Keys
        PROVE  /\ db'[k] \in [text : Texts, left : Lives]
               /\ db'[k].left = Absent <=> db'[k].text.is = "nil"
               /\ k[1] \in Prefixes => db'[k].left # Forever
               /\ db'[k].left = IF db[k].left = 1 THEN Absent
                                ELSE IF db[k].left > 1 THEN db[k].left - 1 ELSE db[k].left
               /\ ReadAs(k[1], db'[k].text) = IF db[k].left = 1 THEN None ELSE ReadAs(k[1], db[k].text)
    <2>1. db[k] \in [text : Texts, left : Lives] /\ db[k].left \in Lives
      BY DEF DbInv
    <2>2. CASE db[k].left = 1
      <3>1. db'[k] = Nil
        BY <1>1, <2>2
      <3> QED BY <2>1, <2>2, <3>1, Nothing DEF Nil, Value, Texts, Lives, Absent, Forever
    <2>3. CASE db[k].left > 1
      <3>1. /\ db'[k] = [db[k] EXCEPT !.left = @ - 1] /\ db[k].left - 1 \in 1..MaxLife
        BY <1>1, <2>1, <2>3 DEF Lives, Absent, Forever
      <3>2. db'[k].text = db[k].text /\ db'[k].left = db[k].left - 1
        BY <2>1, <3>1
      <3> QED BY <2>1, <2>3, <3>1, <3>2 DEF DbInv, Lives, Absent, Forever
    <2>4. CASE ~(db[k].left = 1) /\ ~(db[k].left > 1)
      <3>1. db'[k] = db[k]
        BY <1>1, <2>4
      <3> QED BY <2>1, <2>4, <3>1 DEF DbInv, SpacesExpire
    <2> QED BY <2>2, <2>3, <2>4
  <1>3. DbInv'
    BY <1>2 DEF DbInv, SpacesExpire, Tick
  <1>4. Store!Tick
    BY <1>2, SameAnswers DEF Store!Tick, Tick
  <1> QED BY <1>3, <1>4 DEF Store!Next

-----------------------------------------------------------------------------
LEMMA CacheInit == Init => DbInv /\ Store!Init
  <1> SUFFICES ASSUME Init PROVE DbInv /\ Store!Init
    OBVIOUS
  <1>1. \A k \in Keys : db[k] = Nil /\ ReadAs(k[1], db[k].text) = None /\ db[k].left = Absent
    BY Nothing DEF Init
  <1>2. DbInv
    BY <1>1, Nothing DEF Init, DbInv, SpacesExpire, Nil, Value, Texts, Lives, Absent, Forever
  <1>3. Store!Init
    BY <1>1, SameAnswers DEF Init, Store!Init
  <1> QED BY <1>2, <1>3

\* Each call of the client is a call on the store, or raises without effect.
LEMMA CacheStep == DbInv /\ [Next]_vars => DbInv' /\ [Store!Next]_(Store!vars)
  <1> SUFFICES ASSUME DbInv, [Next]_vars PROVE DbInv' /\ [Store!Next]_(Store!vars)
    OBVIOUS
  <1> USE DEF Spaces
  <1>1. CASE Tick
    BY <1>1, TickStep
  <1>2. CASE Return
    <2>1. DbInv'
      BY <1>2 DEF Return, DbInv, SpacesExpire
    <2>2. Store!Return
      BY <1>2, SameAnswers DEF Return, Store!Return
    <2> QED BY <2>1, <2>2 DEF Store!Next
  <1>3. ASSUME NEW id \in Ids, NEW v \in Values, NEW t \in 0..MaxLife,
               SetSession(id, v, t) \/ SetJwtToken(id, v, t) \/ SetCache(id, v, t)
        PROVE  DbInv' /\ Store!Next
    <2>1. CASE SetSession(id, v, t)
      BY <2>1, Expiring DEF SetSession, Prefixes
    <2>2. CASE SetJwtToken(id, v, t)
      BY <2>2, Expiring DEF SetJwtToken, Prefixes
    <2>3. CASE SetCache(id, v, t)
      BY <2>3, Expiring DEF SetCache, Prefixes
    <2> QED BY <1>3, <2>1, <2>2, <2>3
  <1>4. ASSUME NEW id \in Ids, NEW v \in Values, NEW t \in 0..MaxLife, SetKey(id, v, t)
        PROVE  DbInv' /\ Store!Next
    BY <1>4, PlainKey
  <1>5. ASSUME NEW id \in Ids, NEW space \in Spaces, Get(space, id) PROVE DbInv' /\ Store!Next
    BY <1>5, KeysAre, Reading
  <1>6. ASSUME NEW id \in Ids, Increment(id) PROVE DbInv' /\ Store!Next
    BY <1>6, Counting
  <1>7. ASSUME NEW k \in Keys, Delete(k) \/ Exists(k) \/ Ttl(k) \/ \E t \in 0..MaxLife : Expire(k, t)
        PROVE  DbInv' /\ Store!Next
    BY <1>7, Deleting, Reading, ExpireStep
  <1>8. CASE UNCHANGED vars
    <2>1. DbInv'
      BY <1>8 DEF vars, DbInv, SpacesExpire
    <2>2. UNCHANGED Store!vars
      BY <1>8 DEF vars, Store!vars
    <2> QED BY <2>1, <2>2
  <1> QED BY <1>1, <1>2, <1>3, <1>4, <1>5, <1>6, <1>7, <1>8 DEF Next

LEMMA CacheAlways == Spec => []DbInv
  BY CacheInit, CacheStep, PTL DEF Spec

\* Type correctness, for any ids, lifetimes and counters.
THEOREM TypeCorrect == Spec => []TypeOK
  <1>1. DbInv => TypeOK
    BY DEF DbInv, Texts, Lives, TypeOK
  <1> QED BY CacheAlways, <1>1, PTL

\* No session, token or cached value stays for ever, whatever calls of whatever services
\* wrote, expired and deleted it, and whichever of them raised.
THEOREM SpacesAlwaysExpire == Spec => []SpacesExpire
  <1>1. DbInv => SpacesExpire
    BY DEF DbInv
  <1> QED BY CacheAlways, <1>1, PTL

\* RedisClient implements the expiring store: under its prefixes and through JSON, a
\* read gives what was written last, as long as it lasts, and calls that raise have
\* happened or have not.
THEOREM ImplementsStore == Spec => StoreSpec
  BY CacheInit, CacheStep, CacheAlways, PTL DEF Spec, StoreSpec, Store!Spec
=============================================================================
