--------------------------- MODULE FallbackProvider ---------------------------
(***************************************************************************)
(* The task fallback-stream, which the pipeline creates while Deriv is down*)
(* and cancels when Deriv is reported connected: it announces itself, then *)
(* puts one synthetic tick and one synthetic candle for each configured    *)
(* symbol, sleeps, and starts over.                                        *)
(***************************************************************************)
EXTENDS StreamQueue

VARIABLE fb              \* where fallback-stream is

\*  none       no task (_fallback_task is None)
\*  announce   created, or waiting for room for its status
\*  tick       about to put the tick of a symbol (or asleep between rounds)
\*  candle     about to put the candle of that symbol
\*  ended      the task has finished, and _fallback_task still refers to it
FbStates == {"none", "announce", "tick", "candle", "ended"}

FbInit == fb = "none"

FbAlive == fb \in {"announce", "tick", "candle"}

FbAnnounce ==
    /\ fb = "announce"
    /\ CanRun("fallback")
    /\ PutStatus("fallback", "fallback")
    /\ fb' = "tick"
    /\ HoldForRecord("fallback")
    /\ UNCHANGED cancel

FbTick ==
    /\ fb = "tick"
    /\ CanRun("fallback")
    /\ PutRecord("fallback", "tick")
    /\ fb' = "candle"
    /\ HoldForRecord("fallback")
    /\ UNCHANGED cancel

\* After the candle comes the next symbol at once, or the sleep if it was the
\* last one.
FbCandle ==
    /\ fb = "candle"
    /\ CanRun("fallback")
    /\ PutRecord("fallback", "candle")
    /\ fb' = "tick"
    /\ Suspend \/ HoldForRecord("fallback")
    /\ UNCHANGED cancel

\* Mutant: the handler of CancelledError goes on with the next round.
FbSwallowsCancel ==
    /\ Interrupt("fallback")
    /\ fb' = IF fb = "announce" THEN "ended" ELSE "tick"

\* Cancelled before its first step, in a put or in the sleep: it just ends.
FbCancelled ==
    /\ Interrupt("fallback")
    /\ fb' = "ended"

FbNext == FbAnnounce \/ FbTick \/ FbCandle \/ FbCancelled
=============================================================================
