----------------------------- MODULE WsClient -----------------------------
(***************************************************************************)
(* services/bot-worker/internal/client/ws.go: a bot with a WebSocket of    *)
(* its own.  A call writes a request and reads the next message, within    *)
(* one deadline; request and answer carry no number that would match them. *)
(*                                                                         *)
(* gorilla/websocket is external: after a read has failed, every later     *)
(* read of the connection fails with the same error, and the library       *)
(* panics when that has happened ReadErrLimit times.  The contestant's     *)
(* engine answers a request once, late, or never.                          *)
(***************************************************************************)
EXTENDS Naturals, Sequences

CONSTANTS
    MaxRequests,   \* bound: requests of the bot
    ReadErrLimit   \* reads of a failed connection that the library bears

VARIABLES
    wsBot,         \* the bot: "dial", "idle", "reading", "returned", "panicked"
    wsCtx,         \* "live", or "done" after SIGTERM
    conn,          \* "none", "open", "gone" (closed by the peer, unnoticed), or the
                   \* error its reads fail with: "timed out", "closed"
    readErrs,      \* reads that failed
    requests,      \* requests the bot made
    unanswered,    \* the ones the engine got and has not answered
    frames,        \* answers on their way, as pairs <<request, kind>>
    wsEvents       \* history: [req, of, result] the bot emitted

wsVars == <<wsBot, wsCtx, conn, readErrs, requests, unanswered, frames, wsEvents>>

WsInit ==
    /\ wsBot = "dial"
    /\ wsCtx = "live"
    /\ conn = "none"
    /\ readErrs = 0
    /\ requests = 0
    /\ unanswered = {}
    /\ frames = <<>>
    /\ wsEvents = {}

\* DialWS in the bot's goroutine.  When it fails the bot ends and the worker
\* goes on without it.
DialWS ==
    /\ wsBot = "dial"
    /\ \/ wsBot' = "idle" /\ conn' = "open"
       \/ wsBot' = "returned" /\ UNCHANGED conn
    /\ UNCHANGED <<wsCtx, readErrs, requests, unanswered, frames, wsEvents>>

\* runWorker after a call: a failed call is an event, or the end of the bot
\* once ctx is done; a call that succeeded is an event in any case.
Outcome(of, result) ==
    IF wsCtx = "done" /\ result # "OK"
    THEN /\ wsBot' = "returned"
         /\ UNCHANGED wsEvents
    ELSE /\ wsBot' = "idle"
         /\ wsEvents' = wsEvents \cup {[req |-> requests, of |-> of, result |-> result]}

\* roundTrip up to ReadMessage.  The write goes through as long as the peer
\* has not closed, also after a failed read.
WriteRequest ==
    /\ wsBot = "idle"
    /\ requests < MaxRequests
    /\ requests' = requests + 1
    /\ unanswered' = IF conn = "gone" THEN unanswered ELSE unanswered \cup {requests + 1}
    /\ wsBot' = "reading"
    /\ UNCHANGED <<wsCtx, conn, readErrs, frames, wsEvents>>

\* The write fails on a connection the peer has closed.
WriteFails ==
    /\ wsBot = "idle"
    /\ conn = "gone"
    /\ requests < MaxRequests
    /\ requests' = requests + 1
    /\ IF wsCtx = "done"
       THEN wsBot' = "returned" /\ UNCHANGED wsEvents
       ELSE /\ wsBot' = "idle"
            /\ wsEvents' = wsEvents \cup {[req |-> requests + 1, of |-> 0, result |-> "REJECTED"]}
    /\ UNCHANGED <<wsCtx, conn, readErrs, unanswered, frames>>

\* ReadMessage returns a frame: an answer, an error of the engine, or
\* something that cannot be decoded.  The latter two are rejections.
ReadAnswer ==
    /\ wsBot = "reading"
    /\ conn = "open"
    /\ frames # <<>>
    /\ frames' = Tail(frames)
    /\ LET of == Head(frames)[1]
       IN  Outcome(of, IF Head(frames)[2] = "answer" THEN "OK" ELSE "REJECTED")
    /\ UNCHANGED <<wsCtx, conn, readErrs, requests, unanswered>>

\* Mutant: the connection can be read again after its deadline has passed.
ReadTimeout_Again ==
    /\ wsBot = "reading"
    /\ conn = "open"
    /\ readErrs' = readErrs + 1
    /\ Outcome(0, "TIMEOUT")
    /\ UNCHANGED <<wsCtx, conn, requests, unanswered, frames>>

\* The deadline passes, although an answer may be arriving: the connection
\* is never read again.
ReadTimeout ==
    /\ wsBot = "reading"
    /\ conn = "open"
    /\ conn' = "timed out"
    /\ readErrs' = readErrs + 1
    /\ Outcome(0, "TIMEOUT")
    /\ UNCHANGED <<wsCtx, requests, unanswered, frames>>

\* The peer has closed: the read fails and the connection with it.
ReadClosed ==
    /\ wsBot = "reading"
    /\ conn = "gone"
    /\ conn' = "closed"
    /\ readErrs' = readErrs + 1
    /\ Outcome(0, "REJECTED")
    /\ UNCHANGED <<wsCtx, requests, unanswered, frames>>

\* Every read after that fails at once, and one too many ends the worker.
ReadFailed ==
    /\ wsBot = "reading"
    /\ conn \in {"timed out", "closed"}
    /\ readErrs' = readErrs + 1
    /\ \/ /\ readErrs < ReadErrLimit
          /\ Outcome(0, IF conn = "timed out" THEN "TIMEOUT" ELSE "REJECTED")
       \/ /\ readErrs >= ReadErrLimit
          /\ wsBot' = "panicked"
          /\ UNCHANGED wsEvents
    /\ UNCHANGED <<wsCtx, conn, requests, unanswered, frames>>

\* The engine answers a request it has, in any order.
EngineAnswers(n) ==
    /\ n \in unanswered
    /\ unanswered' = unanswered \ {n}
    /\ \E kind \in {"answer", "error"} : frames' = Append(frames, <<n, kind>>)
    /\ UNCHANGED <<wsBot, wsCtx, conn, readErrs, requests, wsEvents>>

EngineCloses ==
    /\ conn = "open"
    /\ conn' = "gone"
    /\ UNCHANGED <<wsBot, wsCtx, readErrs, requests, unanswered, frames, wsEvents>>

\* SIGTERM.  Nothing interrupts a read that waits.
WsSignal ==
    /\ wsCtx = "live"
    /\ wsCtx' = "done"
    /\ UNCHANGED <<wsBot, conn, readErrs, requests, unanswered, frames, wsEvents>>

\* case <-ctx.Done() of runWorker.
WsReturn ==
    /\ wsCtx = "done"
    /\ wsBot = "idle"
    /\ wsBot' = "returned"
    /\ UNCHANGED <<wsCtx, conn, readErrs, requests, unanswered, frames, wsEvents>>

WsNext ==
    \/ DialWS
    \/ WriteRequest \/ WriteFails
    \/ ReadAnswer \/ ReadTimeout \/ ReadClosed \/ ReadFailed
    \/ \E n \in 1 .. MaxRequests : EngineAnswers(n)
    \/ EngineCloses
    \/ WsSignal \/ WsReturn

\* Although nothing matches an answer to its request, the answer a bot takes
\* is the one to the request it made last: an answer that came after the
\* deadline is never credited to a later order, however late it is and in
\* whatever order the engine answers.
AnswerIsOwn ==
    \A e \in wsEvents : e.of # 0 => e.of = e.req
=============================================================================
