---------------------------- MODULE DerivConnector ----------------------------
(***************************************************************************)
(* The task deriv-stream: a loop that opens a WebSocket session with Deriv,*)
(* subscribes, turns what arrives into queue items and, when the session   *)
(* ends with an exception, reports that and tries again.  Deriv is the     *)
(* environment: it may accept, send or fail at any time.                   *)
(***************************************************************************)
EXTENDS StreamQueue

VARIABLE conn            \* where deriv-stream is

\*  none         not started
\*  connecting   about to announce an attempt to connect
\*  opening      connecting, authorizing, loading symbols and subscribing
\*  reading      subscribed: waiting for the next message
\*  reportError  the session has failed, no room for the status "error" yet
\*  reportDown   about to put the status "disconnected"
\*  delay        asleep before the next attempt
\*  ended        the task has finished
ConnStates == {"none", "connecting", "opening", "reading",
               "reportError", "reportDown", "delay", "ended"}

ConnInit == conn = "none"

\* stream: "connected" is announced first, and only then is the session opened.
Connect ==
    /\ conn = "connecting"
    /\ CanRun("primary")
    /\ PutStatus("deriv", "connected")
    /\ conn' = "opening"
    /\ Suspend
    /\ UNCHANGED cancel

\* _run_session: every request was accepted and the subscriptions are sent.
Subscribe ==
    /\ conn = "opening"
    /\ CanRun("primary")
    /\ PutStatus("deriv", "connected")
    /\ conn' = "reading"
    /\ Suspend
    /\ UNCHANGED cancel

\* _run_session: a message with a tick, an ohlc update or one candle of a
\* history.  Other messages and the keep-alive ping change nothing.
Receive(kind) ==
    /\ conn = "reading"
    /\ CanRun("primary")
    /\ PutRecord("deriv", kind)
    /\ Suspend
    /\ UNCHANGED <<conn, cancel>>

\* An exception ends the session: refused or closed connection, error message,
\* no symbols, no pong.  The handler puts "error" at once if there is room.
SessionFails ==
    /\ conn \in {"opening", "reading"}
    /\ CanRun("primary")
    /\ \/ /\ PutStatus("deriv", "error")
          /\ conn' = "reportDown"
          /\ HoldForPut("primary")
       \/ /\ Full
          /\ conn' = "reportError"
          /\ Suspend
          /\ UNCHANGED <<queue, nextId>>
    /\ UNCHANGED cancel

ReportError ==
    /\ conn = "reportError"
    /\ CanRun("primary")
    /\ PutStatus("deriv", "error")
    /\ conn' = "reportDown"
    /\ HoldForPut("primary")
    /\ UNCHANGED cancel

\* Mutant: the connector gives up after the first failure.
ReportDownAndEnd ==
    /\ conn = "reportDown"
    /\ CanRun("primary")
    /\ PutStatus("deriv", "disconnected")
    /\ conn' = "ended"
    /\ Suspend
    /\ UNCHANGED cancel

\* The second status; the reconnect delay follows.
ReportDown ==
    /\ conn = "reportDown"
    /\ CanRun("primary")
    /\ PutStatus("deriv", "disconnected")
    /\ conn' = "delay"
    /\ Suspend
    /\ UNCHANGED cancel

\* The delay is over.  It takes seconds: no task that is ready to run when it
\* begins is still waiting for its turn when it ends (the pipeline adds that).
DelayOver ==
    /\ conn = "delay"
    /\ CanRun("primary")
    /\ conn' = "connecting"
    /\ UNCHANGED queueVars

ConnectorCancelled ==
    /\ Interrupt("primary")
    /\ conn' = "ended"

\* What the connector does by itself, and what Deriv makes it do.
ConnectorReports == Connect \/ ReportError \/ ReportDown \/ DelayOver

ConnectorNext ==
    \/ ConnectorReports \/ Subscribe \/ SessionFails
    \/ \E kind \in RecordKinds : Receive(kind)
    \/ ConnectorCancelled
=============================================================================
