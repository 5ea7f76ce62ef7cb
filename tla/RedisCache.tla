------------------------------ MODULE RedisCache -------------------------------
(***************************************************************************)
(* RedisClient of src/shared: sessions, tokens, cached values and plain    *)
(* keys in one flat Redis database, each space under a prefix, values as   *)
(* text.  Several services share the database; a call is one command of    *)
(* Redis, which executes them one at a time.  A call may raise, before or  *)
(* after Redis executed it.                                                *)
(* The operations on plain keys (set_key, get_key, increment, expire, ...) *)
(* are called with keys outside the prefixed spaces; the code leaves that  *)
(* to its callers, and set_key would take the life of a session with it.   *)
(***************************************************************************)
EXTENDS Integers

CONSTANTS Ids,        \* the ids callers use in each space
          MaxLife,    \* bound on a time to live
          MaxCount    \* bound on counters

ASSUME RedisCacheAssumption == MaxLife \in Nat \ {0} /\ MaxCount \in Nat \ {0} /\ Ids # {}

VARIABLES db,         \* the database: key |-> text and remaining life
          call        \* the last call of any service, with its answer

vars == <<db, call>>

\* "session:", "jwt:", "cache:" and, for the generic operations, no prefix.
Prefixes == {"session", "jwt", "cache"}
Keys == (Prefixes \cup {"key"}) \X Ids

\* A Python value: a str that is not JSON, that is the JSON of a number, or that
\* is empty; an int; a dict; None.  And the text that Redis keeps.
Value(is, n) == [is |-> is, n |-> n]
None   == Value("none", 0)
Raised == Value("raised", 0)
Number(i) == Value("int", i)
Truth(b) == Number(IF b THEN 1 ELSE 0)
Values == {Value("text", 0), Value("digits", 1), Value("empty", 0),
           Number(1), Value("dict", 0), None}

\* json.dumps, except that a str is kept as it is; json.loads, except that a text
\* that is not JSON is given as it is, and an empty one is not there.
Dumps(v) ==
    [is |-> CASE v.is \in {"int", "digits"} -> "number"
              [] v.is = "none" -> "null" [] OTHER -> v.is, n |-> v.n]
Loads(text) ==
    IF text.is \in {"null", "empty", "nil"} THEN None
    ELSE [is |-> IF text.is = "number" THEN "int" ELSE text.is, n |-> text.n]
Decoded(text) ==
    CASE text.is = "nil" -> None
      [] text.is = "number" -> Value("digits", text.n)
      [] OTHER -> text

\* What the reader of a space makes of a text.
ReadAs(space, text) == IF space = "jwt" THEN Decoded(text) ELSE Loads(text)

-----------------------------------------------------------------------------
(* Redis.                                                                  *)

Absent  == -2
Forever == -1
Nil == [text |-> Value("nil", 0), left |-> Absent]

Holds(k) == db[k].left # Absent
Put(k, text, left) == db' = [db EXCEPT ![k] = [text |-> text, left |-> left]]
SETEX(k, t, text) == Put(k, text, t)
SET(k, text) == Put(k, text, Forever)
DEL(k) == db' = [db EXCEPT ![k] = Nil]

Idle == [op |-> "none", cell |-> CHOOSE k \in Keys : TRUE, value |-> None, ttl |-> 0, ret |-> None]

Init == /\ db = [k \in Keys |-> Nil]
        /\ call = Idle

Answer(op, k, v, t, ret) ==
    call = Idle /\ call' = [op |-> op, cell |-> k, value |-> v, ttl |-> t, ret |-> ret]

\* The caller has its answer.
Return == call # Idle /\ call' = Idle /\ UNCHANGED db

\* The command is executed and answered, or the call raises: the connection broke
\* before or after Redis had it.
Try(Command, op, k, v, t, ret) ==
    \/ Answer(op, k, v, t, ret) /\ Command
    \/ Answer(op, k, v, t, Raised) /\ (Command \/ UNCHANGED db)

\* Redis refuses a command (a time to live of 0, a counter that is no number).
Refuse(op, k, v, t) == Answer(op, k, v, t, Raised) /\ UNCHANGED db

Tick == /\ db' = [k \in Keys |-> IF db[k].left = 1 THEN Nil
                                 ELSE IF db[k].left > 1 THEN [db[k] EXCEPT !.left = @ - 1] ELSE db[k]]
        /\ call = Idle /\ UNCHANGED call

-----------------------------------------------------------------------------
(* The operations.                                                         *)

SetExpiring(k, text, v, t) ==
    \/ t > 0 /\ Try(SETEX(k, t, text), "set", k, v, t, None)
    \/ t = 0 /\ Refuse("set", k, v, t)

\* Mutant: the time to live is forgotten.
SetSessionForever(id, v, t) ==
    v.is = "dict" /\ Try(SET(<<"session", id>>, Dumps(v)), "set", <<"session", id>>, v, t, None)

SetSession(id, v, t) == v.is = "dict" /\ SetExpiring(<<"session", id>>, Dumps(v), v, t)
SetJwtToken(id, v, t) == v.is \in {"text", "digits"} /\ SetExpiring(<<"jwt", id>>, Dumps(v), v, t)

\* Mutant: a str is dumped too, and read back as the str it was.
SetCacheDumpsAll(id, v, t) ==
    SetExpiring(<<"cache", id>>, IF v.is = "digits" THEN v ELSE Dumps(v), v, t)

SetCache(id, v, t) == SetExpiring(<<"cache", id>>, Dumps(v), v, t)

\* Mutant: no test of the time to live.
SetKeyExpiring(id, v, t) == Try(SETEX(<<"key", id>>, t, Dumps(v)), "set", <<"key", id>>, v, t, None)

\* `if ttl`: 0 means the same as None.
SetKey(id, v, t) ==
    LET k == <<"key", id>> IN
    \/ t > 0 /\ Try(SETEX(k, t, Dumps(v)), "set", k, v, t, None)
    \/ t = 0 /\ Try(SET(k, Dumps(v)), "set", k, v, t, None)

Get(space, id) ==
    LET k == <<space, id>> IN
    Try(UNCHANGED db, "get", k, None, 0, ReadAs(space, db[k].text))

Delete(k) == Try(DEL(k), "delete", k, None, 0, None)

Exists(k) == Try(UNCHANGED db, "exists", k, None, 0, Truth(Holds(k)))

\* INCRBY begins a missing counter at 0, without a time to live, and leaves that
\* of an existing one.
Increment(id) ==
    LET k == <<"key", id>>
        next == Number(IF Holds(k) THEN db[k].text.n + 1 ELSE 1) IN
    \/ /\ db[k].text.is \in {"nil", "number"} /\ next.n <= MaxCount
       /\ Try(Put(k, Dumps(next), IF Holds(k) THEN db[k].left ELSE Forever), "increment", k, None, 0, next)
    \/ db[k].text.is \notin {"nil", "number"} /\ Refuse("increment", k, None, 0)

\* EXPIRE of 0 deletes.
Expire(k, t) ==
    \/ ~Holds(k) /\ Try(UNCHANGED db, "expire", k, None, t, Truth(FALSE))
    \/ /\ Holds(k)
       /\ Try(IF t > 0 THEN SETEX(k, t, db[k].text) ELSE DEL(k), "expire", k, None, t, Truth(TRUE))

Ttl(k) == Try(UNCHANGED db, "ttl", k, None, 0, Number(db[k].left))

Next ==
    \/ Tick \/ Return
    \/ \E id \in Ids :
        \/ \E v \in Values, t \in 0..MaxLife :
              SetSession(id, v, t) \/ SetJwtToken(id, v, t) \/ SetCache(id, v, t) \/ SetKey(id, v, t)
        \/ \E space \in Prefixes \cup {"key"} : Get(space, id)
        \/ Increment(id)
    \/ \E k \in Keys : Delete(k) \/ Exists(k) \/ Ttl(k) \/ \E t \in 0..MaxLife : Expire(k, t)

Spec == Init /\ [][Next]_vars

-----------------------------------------------------------------------------
\* The type invariant.
TypeOK ==
    \A k \in Keys :
        /\ db[k].left \in {Absent, Forever} \cup 1..MaxLife
        /\ db[k].left = Absent <=> db[k].text.is = "nil"
        /\ db[k].text.is \in {"nil", "text", "number", "empty", "dict", "null"}
        /\ db[k].text.n \in 0..MaxCount

\* Sessions, tokens and cached values end by themselves, whatever sequence of
\* calls, failed ones included, wrote, expired and deleted them.
SpacesExpire == \A k \in Keys : k[1] \in Prefixes => db[k].left # Forever

\* The client is an expiring store, but for what JSON does not tell apart: a str
\* that is the JSON of a number comes back as the number, an empty str as None;
\* a token is given back as it was.
KeptOf(k, v) ==
    IF k[1] = "jwt" THEN v
    ELSE CASE v.is = "digits" -> Number(v.n) [] v.is = "empty" -> None [] OTHER -> v

Store == INSTANCE ExpiringStore WITH
    Cells <- Keys,
    Kept <- KeptOf,
    content <- [k \in Keys |-> ReadAs(k[1], db[k].text)],
    life <- [k \in Keys |-> db[k].left]

StoreSpec == Store!Spec
=============================================================================
