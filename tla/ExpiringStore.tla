----------------------------- MODULE ExpiringStore -----------------------------
(***************************************************************************)
(* What the Redis client promises its callers: cells that keep a value for *)
(* a while.  A call on one cell leaves the others alone; a read gives what *)
(* was written last, as long as it lasts; a call that raises has happened  *)
(* or has not.  `call` is all a caller sees; what the cells hold is not.   *)
(***************************************************************************)
EXTENDS Integers

CONSTANTS Cells, Values,
          Kept(_, _),        \* what a cell keeps of a value
          MaxLife, MaxCount  \* bounds on lifetimes and on counters

VARIABLES call,              \* the last call and its answer
          content, life      \* of each cell

vars == <<call, content, life>>

Ops == {"set", "get", "exists", "ttl", "delete", "expire", "increment"}

\* Lifetimes as ttl() gives them: Absent, Forever, or what is left.
Absent  == -2
Forever == -1
Lives == {Absent, Forever} \cup 1..MaxLife

None   == [is |-> "none", n |-> 0]
Raised == [is |-> "raised", n |-> 0]
Number(i) == [is |-> "int", n |-> i]
Truth(b) == Number(IF b THEN 1 ELSE 0)

Idle == [op |-> "none", cell |-> CHOOSE k \in Cells : TRUE, value |-> None, ttl |-> 0, ret |-> None]

Answer(op, c, v, t, ret) ==
    call = Idle /\ call' = [op |-> op, cell |-> c, value |-> v, ttl |-> t, ret |-> ret]

\* The caller has its answer.
Return == call # Idle /\ call' = Idle /\ UNCHANGED <<content, life>>

\* A call takes effect, and answers or raises.
Try(Effect, op, c, v, t, ret) ==
    (Answer(op, c, v, t, ret) \/ Answer(op, c, v, t, Raised)) /\ Effect

\* A call raises without effect.
Refuse ==
    /\ call = Idle
    /\ call' \in [op : Ops, cell : Cells, value : Values, ttl : 0..MaxLife, ret : {Raised}]
    /\ UNCHANGED <<content, life>>

Holds(c) == life[c] # Absent
Put(c, v, l) == content' = [content EXCEPT ![c] = v] /\ life' = [life EXCEPT ![c] = l]
Keep == UNCHANGED <<content, life>>

Init == /\ content = [c \in Cells |-> None] /\ life = [c \in Cells |-> Absent]
        /\ call = Idle

\* Without a time to live, a value stays for ever.
Set(c, v, t) == Try(Put(c, Kept(c, v), IF t = 0 THEN Forever ELSE t), "set", c, v, t, None)

Get(c) == Try(Keep, "get", c, None, 0, content[c])
Exists(c) == Try(Keep, "exists", c, None, 0, Truth(Holds(c)))
Ttl(c) == Try(Keep, "ttl", c, None, 0, Number(life[c]))
Delete(c) == Try(Put(c, None, Absent), "delete", c, None, 0, None)

\* A lifetime of nothing ends the cell.
Expire(c, t) ==
    \/ ~Holds(c) /\ Try(Keep, "expire", c, None, t, Truth(FALSE))
    \/ Holds(c) /\ t > 0 /\ Try(Put(c, content[c], t), "expire", c, None, t, Truth(TRUE))
    \/ Holds(c) /\ t = 0 /\ Try(Put(c, None, Absent), "expire", c, None, t, Truth(TRUE))

\* A counter begins without an end, and keeps the end it has.
Increment(c) ==
    \/ ~Holds(c) /\ Try(Put(c, Number(1), Forever), "increment", c, None, 0, Number(1))
    \/ /\ content[c].is = "int" /\ content[c].n < MaxCount
       /\ LET next == Number(content[c].n + 1)
          IN Try(Put(c, next, life[c]), "increment", c, None, 0, next)

\* Time goes by: what was in its last second is gone.
Tick == /\ life' = [c \in Cells |-> IF life[c] = 1 THEN Absent ELSE IF life[c] > 1 THEN life[c] - 1 ELSE life[c]]
        /\ content' = [c \in Cells |-> IF life[c] = 1 THEN None ELSE content[c]]
        /\ call = Idle /\ UNCHANGED call

Next ==
    \/ Tick \/ Return \/ Refuse
    \/ \E c \in Cells :
        \/ Get(c) \/ Exists(c) \/ Ttl(c) \/ Delete(c) \/ Increment(c)
        \/ \E t \in 0..MaxLife : Expire(c, t)
        \/ \E v \in Values, t \in 0..MaxLife : Set(c, v, t)

Spec == Init /\ [][Next]_vars
=============================================================================
