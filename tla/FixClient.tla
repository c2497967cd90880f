----------------------------- MODULE FixClient -----------------------------
(***************************************************************************)
(* services/bot-worker/internal/client/fix.go: the bots of a worker share  *)
(* one FIX session. A call registers a channel under a fresh ClOrdID,      *)
(* sends its message and waits; the session's goroutine calls FromApp,     *)
(* which routes each execution report to the channel of its ClOrdID.       *)
(***************************************************************************)
EXTENDS Integers, Sequences, FiniteSets

CONSTANTS
    Bots,          \* goroutines of runWorker
    Orders,        \* the orders the generator makes, as pairs <<kind, side>>
    Qty,           \* quantity of every order
    MaxCalls,      \* bound: calls of the client
    MaxReports,    \* bound: execution reports of the exchange
    MaxFaults      \* bound: messages SendToTarget refuses

ASSUME FixAssumption ==
    /\ Orders \subseteq {"limit", "market"} \X {"buy", "sell"}
    /\ Qty \in Nat \ {0}
    /\ MaxCalls \in Nat /\ MaxReports \in Nat /\ MaxFaults \in Nat

VARIABLES
    ctx,        \* "live", or "done" after SIGTERM
    seq,        \* FIXClient.seq
    call,       \* per bot: its program counter and the call it makes
    live,       \* per bot: liveIDs
    pending,    \* fixApp.pending: the ClOrdIDs in it
    chan,       \* per ClOrdID: the channel of its call, a buffer of one
    sides,      \* FIXClient.sides, as pairs <<ClOrdID, side>>
    router,     \* what FromApp holds between its unlock and its send
    wire,       \* messages the exchange got
    inbox,      \* reports on their way back, in order
    reported,   \* history: reports the exchange made
    events,     \* history: what the bots emitted
    faults

bots == <<call, live, events>>
exchange == <<wire, reported>>
vars == <<ctx, seq, call, live, pending, chan, sides, router, wire, inbox, reported,
          events, faults>>

Ids == 1 .. MaxCalls
NoId == 0
NoCum == -1                       \* the report has no CumQty (tag 14)
Cums == {NoCum} \cup 0 .. Qty
NoReport == [id |-> NoId, cum |-> NoCum]

\* step: "idle" (waiting for the timer); "place" (past the cancel of this
\* arrival); "registered" (its channel is in pending); "waiting" (in the select);
\* "cleanup" (the call failed for cause, its entry is still in pending);
\* "returned".
Idle == [step |-> "idle", kind |-> "limit", side |-> "buy", id |-> NoId, orig |-> NoId,
         cause |-> "none"]

Init ==
    /\ ctx = "live"
    /\ seq = 0
    /\ call = [b \in Bots |-> Idle]
    /\ live = [b \in Bots |-> <<>>]
    /\ pending = {}
    /\ chan = [i \in Ids |-> <<>>]
    /\ sides = {}
    /\ router = NoReport
    /\ wire = {}
    /\ inbox = <<>>
    /\ reported = {}
    /\ events = {}
    /\ faults = 0

-----------------------------------------------------------------------------
(* runWorker and the calls it makes.                                       *)

\* Mutant: the counter is not atomic, and two calls get the same number.
Register_Racy(b, c) ==
    /\ seq < MaxCalls
    /\ \E n \in {seq + 1} \cup {call[x].id : x \in {y \in Bots : call[y].step = "registered"}} :
          /\ seq' = n
          /\ pending' = pending \cup {n}
          /\ call' = [call EXCEPT ![b] = [c EXCEPT !.step = "registered", !.id = n]]

\* c.seq.Add(1) gives the call its ClOrdID; then its channel goes into pending
\* under app.mu. Between the two nobody knows the id.
Register(b, c) ==
    /\ seq < MaxCalls
    /\ seq' = seq + 1
    /\ pending' = pending \cup {seq + 1}
    /\ call' = [call EXCEPT ![b] = [c EXCEPT !.step = "registered", !.id = seq + 1]]

\* PlaceOrder and PlaceMarketOrder: sendNewOrder up to the send.
PlaceOrder(b, kind, side) ==
    /\ call[b].step \in {"idle", "place"}
    /\ Register(b, [Idle EXCEPT !.kind = kind, !.side = side])
    /\ UNCHANGED <<ctx, live, chan, sides, router, exchange, inbox, events, faults>>

\* CancelOrder of the oldest live order: its side is looked up and forgotten,
\* "buy" when it is unknown.
CancelOrder(b) ==
    /\ call[b].step = "idle"
    /\ live[b] # <<>>
    /\ LET orig == Head(live[b])
           side == IF <<orig, "sell">> \in sides THEN "sell" ELSE "buy"
       IN  /\ Register(b, [Idle EXCEPT !.kind = "cancel", !.side = side, !.orig = orig])
           /\ sides' = {p \in sides : p[1] # orig}
    /\ live' = [live EXCEPT ![b] = Tail(@)]
    /\ UNCHANGED <<ctx, chan, router, exchange, inbox, events, faults>>

\* SendToTarget, which may refuse the message, and may do so for good once a
\* bot has returned: its deferred Close stops the shared initiator.
Send(b) ==
    /\ call[b].step = "registered"
    /\ \/ /\ wire' = wire \cup {[id |-> call[b].id, kind |-> call[b].kind,
                                 side |-> call[b].side, orig |-> call[b].orig]}
          /\ call' = [call EXCEPT ![b].step = "waiting"]
          /\ UNCHANGED faults
       \/ /\ \/ faults < MaxFaults /\ faults' = faults + 1
             \/ (\E x \in Bots : call[x].step = "returned") /\ UNCHANGED faults
          /\ call' = [call EXCEPT ![b].step = "cleanup", ![b].cause = "send"]
          /\ UNCHANGED wire
    /\ UNCHANGED <<ctx, seq, live, pending, chan, sides, router, inbox, reported, events>>

\* The result of an order whose report tells cum, and of an acknowledged cancel.
ResultOf(kind, cum) ==
    CASE kind = "cancel" -> "ACK_ONLY"
      [] kind # "cancel" /\ cum = NoCum -> "UNSPECIFIED"
      [] kind # "cancel" /\ cum >= Qty -> "FILLED"
      [] kind # "cancel" /\ cum \in 1 .. Qty - 1 -> "PARTIAL"
      [] kind # "cancel" /\ cum = 0 -> "ACK_ONLY"

\* resultForErr: only a net.Error or context.DeadlineExceeded is a TIMEOUT. The
\* errors of the timer and of SendToTarget are neither, and ctx has no deadline.
resultForErr(cause) == IF cause = "deadline" THEN "TIMEOUT" ELSE "REJECTED"

\* What the bot does next.
NextStep(b) == IF call[b].kind = "cancel" THEN "place" ELSE "idle"

\* case res := <-ch: an order's side is kept for its cancel, limit orders
\* become live, and the bot emits the event.
Receive(b) ==
    /\ call[b].step = "waiting"
    /\ chan[call[b].id] # <<>>
    /\ LET c == call[b]
           cum == Head(chan[c.id])
       IN  /\ chan' = [chan EXCEPT ![c.id] = Tail(@)]
           /\ sides' = IF c.kind = "cancel" THEN sides ELSE sides \cup {<<c.id, c.side>>}
           /\ live' = [live EXCEPT ![b] = IF c.kind = "limit" THEN Append(@, c.id) ELSE @]
           /\ events' = events \cup {[id |-> c.id, kind |-> c.kind, cause |-> "none",
                                      cum |-> cum, result |-> ResultOf(c.kind, cum)]}
    /\ call' = [call EXCEPT ![b] = [Idle EXCEPT !.step = NextStep(b)]]
    /\ UNCHANGED <<ctx, seq, pending, router, exchange, inbox, faults>>

\* case <-time.After(5s), case <-ctx.Done(): taken although a report may be
\* in the channel or in FromApp's hands.
Expire(b) ==
    /\ call[b].step = "waiting"
    /\ \E cause \in {"timer"} \cup (IF ctx = "done" THEN {"ctx"} ELSE {}) :
          call' = [call EXCEPT ![b].step = "cleanup", ![b].cause = cause]
    /\ UNCHANGED <<ctx, seq, live, pending, chan, sides, router, exchange, inbox, events, faults>>

\* The deferred delete of a failed call. isShutdownErr: once ctx is done the
\* bot returns without an event, whatever the error was.
Cleanup(b) ==
    /\ call[b].step = "cleanup"
    /\ LET c == call[b] IN
       /\ pending' = pending \ {c.id}
       /\ IF ctx = "done"
          THEN /\ call' = [call EXCEPT ![b] = [Idle EXCEPT !.step = "returned"]]
               /\ UNCHANGED events
          ELSE /\ call' = [call EXCEPT ![b] = [Idle EXCEPT !.step = NextStep(b)]]
               /\ events' = events \cup {[id |-> c.id, kind |-> c.kind, cause |-> c.cause,
                                          cum |-> NoCum, result |-> resultForErr(c.cause)]}
    /\ UNCHANGED <<ctx, seq, live, chan, sides, router, exchange, inbox, faults>>

\* case <-ctx.Done() of runWorker.
Return(b) ==
    /\ ctx = "done"
    /\ call[b].step = "idle"
    /\ call' = [call EXCEPT ![b].step = "returned"]
    /\ UNCHANGED <<ctx, seq, live, pending, chan, sides, router, exchange, inbox, events, faults>>

Signal ==
    /\ ctx = "live"
    /\ ctx' = "done"
    /\ UNCHANGED <<seq, bots, pending, chan, sides, router, exchange, inbox, faults>>

-----------------------------------------------------------------------------
(* The session's goroutine.                                                *)

\* Mutant: the entry stays in pending for the order's later reports.
FromApp_Keep ==
    /\ router = NoReport
    /\ inbox # <<>>
    /\ inbox' = Tail(inbox)
    /\ router' = IF Head(inbox).id \in pending THEN Head(inbox) ELSE NoReport
    /\ UNCHANGED <<ctx, seq, bots, pending, chan, sides, exchange, faults>>

\* FromApp: the next execution report. The entry of its ClOrdID is taken out
\* of pending; a report nobody waits for is ignored.
FromApp ==
    /\ router = NoReport
    /\ inbox # <<>>
    /\ inbox' = Tail(inbox)
    /\ router' = IF Head(inbox).id \in pending THEN Head(inbox) ELSE NoReport
    /\ pending' = pending \ {Head(inbox).id}
    /\ UNCHANGED <<ctx, seq, bots, chan, sides, exchange, faults>>

\* ch <- res, outside the lock: blocks while the buffer of one is full.
Deliver ==
    /\ router # NoReport
    /\ chan[router.id] = <<>>
    /\ chan' = [chan EXCEPT ![router.id] = Append(@, router.cum)]
    /\ router' = NoReport
    /\ UNCHANGED <<ctx, seq, bots, pending, sides, exchange, inbox, faults>>

-----------------------------------------------------------------------------

\* The exchange: any number of reports per message, late or never, with or
\* without CumQty.
Report(m, cum) ==
    /\ Cardinality(reported) < MaxReports
    /\ [id |-> m.id, cum |-> cum] \notin reported
    /\ inbox' = Append(inbox, [id |-> m.id, cum |-> cum])
    /\ reported' = reported \cup {[id |-> m.id, cum |-> cum]}
    /\ UNCHANGED <<ctx, seq, bots, pending, chan, sides, router, wire, faults>>

Call(b) == Send(b) \/ Receive(b) \/ Expire(b) \/ Cleanup(b)

Next ==
    \/ \E b \in Bots :
          \/ \E o \in Orders : PlaceOrder(b, o[1], o[2])
          \/ CancelOrder(b)
          \/ Call(b)
          \/ Return(b)
    \/ Signal
    \/ FromApp
    \/ Deliver
    \/ \E m \in wire, cum \in Cums : Report(m, cum)

Spec == Init /\ [][Next]_vars

-----------------------------------------------------------------------------
(* Properties.                                                             *)

\* FromApp sends outside the lock and must never block the session for the
\* other bots: it takes the entry out of pending first, so a channel gets at
\* most one report and its buffer of one always has room.
SessionNeverBlocks == router # NoReport => chan[router.id] = <<>>

\* However many bots share the session, and however late or often the exchange
\* reports, an event tells a fill that was reported for that very order, and
\* every call has one event.
FillIsOwn ==
    \A e \in events :
        /\ e.cause = "none" => [id |-> e.id, cum |-> e.cum] \in reported
        /\ \A f \in events : f.id = e.id => f = e

\* The comment on resultForErr: "A deadline/timeout (the contestant didn't
\* acknowledge in time) is scored as a TIMEOUT".
TimeoutScoredAsTimeout == \A e \in events : e.cause = "timer" => e.result = "TIMEOUT"
=============================================================================
