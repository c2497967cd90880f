--------------------------- MODULE BotWorkerProofs ---------------------------
(***************************************************************************)
(* What the order clients of a worker guarantee for any number of bots,    *)
(* calls, reports and faults.                                              *)
(***************************************************************************)
EXTENDS BotWorker, TLAPS

-----------------------------------------------------------------------------
(* The shared FIX session.                                                 *)

Active(b) == call[b].step \in {"registered", "waiting", "cleanup"}

Calls == [step : {"idle", "place", "registered", "waiting", "cleanup", "returned"},
          kind : {"limit", "market", "cancel"}, side : {"buy", "sell"},
          id : 0 .. MaxCalls, orig : 0 .. MaxCalls,
          cause : {"none", "send", "timer", "ctx"}]

Reports == [id : Ids, cum : Cums]

FixTypeOK ==
    /\ ctx \in {"live", "done"}
    /\ seq \in 0 .. MaxCalls
    /\ call \in [Bots -> Calls]
    /\ \A b \in Bots : call[b].step = "cleanup" => call[b].cause # "none"
    /\ live \in [Bots -> Seq(Ids)]
    /\ pending \subseteq 1 .. seq
    /\ chan \in [Ids -> Seq(Cums)]
    /\ router \in Reports \cup {NoReport}
    /\ \A m \in wire : m.id \in 1 .. seq
    /\ inbox \in Seq(Reports)
    /\ reported \subseteq Reports

\* A ClOrdID belongs to one call, and to no call that has ended with an event.
IdIsOwn ==
    /\ \A b \in Bots : Active(b) => call[b].id \in 1 .. seq
    /\ \A b, x \in Bots : Active(b) /\ Active(x) /\ call[b].id = call[x].id => b = x
    /\ \A e \in events : e.id \in 1 .. seq
    /\ \A e \in events, b \in Bots : Active(b) => call[b].id # e.id

\* A ClOrdID that FromApp may still route has an empty channel.
RoutedOnce ==
    /\ \A i \in Ids : i \in pending \/ i > seq => chan[i] = <<>>
    /\ router # NoReport => router.id \in 1 .. seq /\ router.id \notin pending
    /\ SessionNeverBlocks

\* Whatever is on its way to a bot was reported, for that ClOrdID.
NothingInvented ==
    /\ \A k \in 1 .. Len(inbox) : inbox[k] \in reported
    /\ router # NoReport => router \in reported
    /\ \A i \in Ids : chan[i] # <<>> =>
           \E c \in Cums : chan[i] = <<c>> /\ [id |-> i, cum |-> c] \in reported
    /\ FillIsOwn

FixInv == FixTypeOK /\ IdIsOwn /\ RoutedOnce /\ NothingInvented

\* A fresh worker has the invariant.
LEMMA FixInit == Init => FixInv
BY FixAssumption
   DEF Init, Idle, NoId, Ids, FixInv, FixTypeOK, Calls, Reports, IdIsOwn, Active, RoutedOnce,
       NothingInvented, SessionNeverBlocks, FillIsOwn

\* A call that registers under the next number takes one nobody has used.
LEMMA FixRegister ==
    ASSUME FixInv, NEW b \in Bots, ~ Active(b), NEW r \in Calls, seq < MaxCalls,
           r.id = seq + 1, r.step = "registered", live' \in [Bots -> Seq(Ids)],
           seq' = seq + 1, pending' = pending \cup {seq + 1}, call' = [call EXCEPT ![b] = r],
           UNCHANGED <<ctx, chan, router, wire, inbox, reported, events>>
    PROVE  FixInv'
<1> USE FixAssumption DEF FixInv, FixTypeOK
<1>1. /\ call' \in [Bots -> Calls]
      /\ call'[b] = r
      /\ \A x \in Bots : x # b => call'[x] = call[x]
  OBVIOUS
<1>2. seq' \in 0 .. MaxCalls /\ pending' \subseteq 1 .. seq'
  OBVIOUS
<1>3. \A m \in wire' : m.id \in 1 .. seq'
  OBVIOUS
<1>4. FixTypeOK'
  BY <1>1, <1>2, <1>3 DEF Ids
<1>5. \A x \in Bots : Active(x)' => call'[x].id \in 1 .. seq'
  BY <1>1 DEF Active, IdIsOwn
<1>6. \A x, y \in Bots : Active(x)' /\ Active(y)' /\ call'[x].id = call'[y].id => x = y
  BY <1>1 DEF Active, IdIsOwn
<1>7. /\ \A e \in events' : e.id \in 1 .. seq'
      /\ \A e \in events', x \in Bots : Active(x)' => call'[x].id # e.id
  BY <1>1 DEF Active, IdIsOwn
<1>8. IdIsOwn'
  BY <1>5, <1>6, <1>7 DEF IdIsOwn
<1>9. RoutedOnce'
  <2>1. seq \in Nat /\ chan' = chan /\ router' = router
    OBVIOUS
  <2>2. \A i \in Ids : i \in pending' \/ i > seq' => chan'[i] = <<>>
    BY <2>1 DEF RoutedOnce, Ids
  <2>3. router' # NoReport => router'.id \in 1 .. seq' /\ router'.id \notin pending'
    BY <2>1 DEF RoutedOnce
  <2>4. SessionNeverBlocks'
    BY <2>1 DEF RoutedOnce, SessionNeverBlocks
  <2> QED
    BY <2>2, <2>3, <2>4 DEF RoutedOnce
<1>10. NothingInvented'
  BY DEF NothingInvented, FillIsOwn
<1> QED
  BY <1>4, <1>8, <1>9, <1>10

\* A bot that goes on with its own call, or ends it with at most one event that
\* tells what was reported for it.
LEMMA FixAdvance ==
    ASSUME FixInv, NEW b \in Bots, NEW r \in Calls,
           \/ Active(b)
           \/ /\ r.step \notin {"registered", "waiting", "cleanup"}
              /\ UNCHANGED <<wire, events>>,
           r.step \in {"registered", "waiting", "cleanup"} => r.id = call[b].id,
           r.step = "cleanup" => r.cause # "none",
           call' = [call EXCEPT ![b] = r],
           live' \in [Bots -> Seq(Ids)], pending' \subseteq pending,
           \A i \in Ids : chan'[i] = chan[i] \/ chan'[i] = <<>>,
           chan' \in [Ids -> Seq(Cums)],
           \A m \in wire' : m \in wire \/ m.id = call[b].id,
           \/ events' = events
           \/ /\ r.step \notin {"registered", "waiting", "cleanup"}
              /\ \E e : /\ events' = events \cup {e}
                        /\ e.id = call[b].id
                        /\ e.cause = "none" => [id |-> e.id, cum |-> e.cum] \in reported,
           UNCHANGED <<ctx, seq, router, inbox, reported>>
    PROVE  FixInv'
<1> USE FixAssumption DEF FixInv
<1>1. /\ call' \in [Bots -> Calls]
      /\ call'[b] = r
      /\ \A x \in Bots : x # b => call'[x] = call[x]
      /\ Active(b) => call[b].id \in 1 .. seq
  BY DEF FixTypeOK, IdIsOwn
<1>2. FixTypeOK'
  BY <1>1 DEF FixTypeOK
<1>3. \A x \in Bots : Active(x)' => Active(x) /\ call'[x].id = call[x].id
  BY <1>1 DEF Active
<1>4. \A e \in events' : \/ e \in events
                         \/ /\ Active(b)
                            /\ e.id = call[b].id
                            /\ ~ Active(b)'
                            /\ e.cause = "none" => [id |-> e.id, cum |-> e.cum] \in reported
  BY <1>1 DEF Active
<1>5. IdIsOwn'
  <2>1. \A x \in Bots : Active(x)' => call'[x].id \in 1 .. seq'
    BY <1>3 DEF IdIsOwn
  <2>2. \A x, y \in Bots : Active(x)' /\ Active(y)' /\ call'[x].id = call'[y].id => x = y
    BY <1>3 DEF IdIsOwn
  <2>3. \A e \in events' : e.id \in 1 .. seq'
    BY <1>1, <1>4 DEF IdIsOwn
  <2>4. \A e \in events', x \in Bots : Active(x)' => call'[x].id # e.id
    BY <1>3, <1>4 DEF IdIsOwn
  <2> QED
    BY <2>1, <2>2, <2>3, <2>4 DEF IdIsOwn
<1>6. RoutedOnce'
  BY DEF RoutedOnce, SessionNeverBlocks, FixTypeOK, Reports, Ids
<1>7. NothingInvented'
  <2>1. \A e \in events' : e.cause = "none" => [id |-> e.id, cum |-> e.cum] \in reported'
    BY <1>4 DEF NothingInvented, FillIsOwn
  <2>2. \A e, f \in events' : f.id = e.id => f = e
    <3>1. Active(b) => \A e \in events : e.id # call[b].id
      BY DEF IdIsOwn
    <3>2. \A e, f \in events : f.id = e.id => f = e
      BY DEF NothingInvented, FillIsOwn
    <3>3. CASE events' = events
      BY <3>2, <3>3
    <3>4. CASE events' # events
      <4>1. Active(b) /\ \E n : events' = events \cup {n} /\ n.id = call[b].id
        BY <3>4
      <4>2. PICK n : events' = events \cup {n} /\ n.id = call[b].id
        BY <4>1
      <4>3. \A e \in events : e.id # n.id
        BY <3>1, <4>1, <4>2
      <4> QED
        BY <3>2, <4>2, <4>3
    <3> QED
      BY <3>3, <3>4
  <2> QED
    BY <2>1, <2>2 DEF NothingInvented, FillIsOwn
<1> QED
  BY <1>2, <1>5, <1>6, <1>7

\* Every step of a bot, of the session and of the exchange keeps the invariant.
LEMMA FixStep == FixInv /\ [Next]_vars => FixInv'
<1> SUFFICES ASSUME FixInv, [Next]_vars
             PROVE  FixInv'
    OBVIOUS
<1> USE FixAssumption DEF FixInv
<1>1. ASSUME NEW b \in Bots, NEW o \in Orders, PlaceOrder(b, o[1], o[2]) PROVE FixInv'
  <2> DEFINE r == [[Idle EXCEPT !.kind = o[1], !.side = o[2]]
                      EXCEPT !.step = "registered", !.id = seq + 1]
  <2>1. r \in Calls /\ r.id = seq + 1 /\ r.step = "registered"
    <3>1. seq + 1 \in 0 .. MaxCalls /\ 0 \in 0 .. MaxCalls
      BY <1>1 DEF PlaceOrder, Register, FixTypeOK
    <3>2. o[1] \in {"limit", "market", "cancel"} /\ o[2] \in {"buy", "sell"}
      OBVIOUS
    <3>3. [Idle EXCEPT !.kind = o[1], !.side = o[2]] \in Calls
      BY <3>1, <3>2 DEF Idle, NoId, Calls
    <3> QED
      BY <3>1, <3>3 DEF Calls
  <2>2. ~ Active(b)
    BY <1>1 DEF PlaceOrder, Active
  <2> QED
    BY <1>1, <2>1, <2>2, FixRegister DEF PlaceOrder, Register, exchange, FixTypeOK
<1>2. ASSUME NEW b \in Bots, CancelOrder(b) PROVE FixInv'
  <2>1. PICK side \in {"buy", "sell"} :
          Register(b, [Idle EXCEPT !.kind = "cancel", !.side = side, !.orig = Head(live[b])])
    BY <1>2 DEF CancelOrder
  <2> DEFINE r == [[Idle EXCEPT !.kind = "cancel", !.side = side, !.orig = Head(live[b])]
                      EXCEPT !.step = "registered", !.id = seq + 1]
  <2>2. /\ live[b] \in Seq(Ids)
        /\ live[b] # <<>>
        /\ live' = [live EXCEPT ![b] = Tail(live[b])]
        /\ UNCHANGED <<ctx, chan, router, wire, inbox, reported, events>>
    BY <1>2 DEF CancelOrder, FixTypeOK, exchange
  <2>3. Head(live[b]) \in Ids /\ live' \in [Bots -> Seq(Ids)]
    BY <2>2 DEF FixTypeOK
  <2>4. r \in Calls /\ r.id = seq + 1 /\ r.step = "registered"
    <3>1. seq + 1 \in 0 .. MaxCalls /\ 0 \in 0 .. MaxCalls /\ Head(live[b]) \in 0 .. MaxCalls
      BY <2>1, <2>3 DEF Register, FixTypeOK, Ids
    <3>2. [Idle EXCEPT !.kind = "cancel", !.side = side, !.orig = Head(live[b])] \in Calls
      BY <3>1 DEF Idle, NoId, Calls
    <3> QED
      BY <3>1, <3>2 DEF Calls
  <2>5. ~ Active(b)
    BY <1>2 DEF CancelOrder, Active
  <2> QED
    BY <2>1, <2>2, <2>3, <2>4, <2>5, FixRegister DEF Register
<1>3. ASSUME NEW b \in Bots, Send(b) PROVE FixInv'
  <2>1. call[b] \in Calls /\ Active(b)
    BY <1>3 DEF Send, Active, FixTypeOK
  <2>2. PICK r \in Calls : /\ r.id = call[b].id
                           /\ r.step = "cleanup" => r.cause # "none"
                           /\ call' = [call EXCEPT ![b] = r]
    <3>1. CASE call' = [call EXCEPT ![b].step = "waiting"]
      <4>1. [call[b] EXCEPT !.step = "waiting"] \in Calls
        BY <2>1 DEF Calls
      <4> QED
        BY <3>1, <4>1, <2>1 DEF Calls, FixTypeOK
    <3>2. CASE call' = [call EXCEPT ![b].step = "cleanup", ![b].cause = "send"]
      <4>1. [call[b] EXCEPT !.step = "cleanup", !.cause = "send"] \in Calls
        BY <2>1 DEF Calls
      <4> QED
        BY <3>2, <4>1, <2>1 DEF Calls, FixTypeOK
    <3> QED
      BY <1>3, <3>1, <3>2 DEF Send
  <2>3. \A m \in wire' : m \in wire \/ m.id = call[b].id
    BY <1>3 DEF Send
  <2> QED
    BY <1>3, <2>1, <2>2, <2>3, FixAdvance DEF Send, FixTypeOK
<1>4. ASSUME NEW b \in Bots, Receive(b) PROVE FixInv'
  <2> DEFINE c == call[b]
             cum == Head(chan[c.id])
             r == [Idle EXCEPT !.step = NextStep(b)]
  <2>1. c \in Calls /\ Active(b) /\ c.id \in Ids /\ chan[c.id] # <<>>
    BY <1>4 DEF Receive, Active, FixTypeOK, IdIsOwn, Ids
  <2>2. PICK q \in Cums : chan[c.id] = <<q>> /\ [id |-> c.id, cum |-> q] \in reported
    BY <2>1 DEF NothingInvented
  <2>3. cum = q /\ Tail(chan[c.id]) = <<>>
    BY <2>2
  <2>4. chan' = [chan EXCEPT ![c.id] = <<>>]
    BY <1>4, <2>3 DEF Receive
  <2>5. /\ chan' \in [Ids -> Seq(Cums)]
        /\ \A i \in Ids : chan'[i] = chan[i] \/ chan'[i] = <<>>
    BY <2>4, <2>1 DEF FixTypeOK
  <2>6. r \in Calls /\ r.step \notin {"registered", "waiting", "cleanup"}
    BY DEF Idle, NextStep, NoId, Calls
  <2>7. live' \in [Bots -> Seq(Ids)]
    BY <1>4, <2>1 DEF Receive, FixTypeOK
  <2>8. \E e : /\ events' = events \cup {e}
               /\ e.id = c.id
               /\ e.cause = "none" => [id |-> e.id, cum |-> e.cum] \in reported
    <3> DEFINE e == [id |-> c.id, kind |-> c.kind, cause |-> "none", cum |-> cum,
                     result |-> ResultOf(c.kind, cum)]
    <3>1. events' = events \cup {e}
      BY <1>4 DEF Receive
    <3>2. e.id = c.id /\ e.cum = q
      BY <2>3
    <3> QED
      BY <2>2, <3>1, <3>2
  <2>9. call' = [call EXCEPT ![b] = r]
    BY <1>4 DEF Receive
  <2> HIDE DEF r, c
  <2>10. /\ pending' = pending /\ wire' = wire
         /\ UNCHANGED <<ctx, seq, router, inbox, reported>>
    BY <1>4 DEF Receive, exchange
  <2> QED
    BY <2>1, <2>5, <2>6, <2>7, <2>8, <2>9, <2>10, FixAdvance DEF c
<1>5. ASSUME NEW b \in Bots, Expire(b) PROVE FixInv'
  <2>1. call[b] \in Calls /\ Active(b)
    BY <1>5 DEF Expire, Active, FixTypeOK
  <2>2. PICK cause \in {"timer", "ctx"} :
          call' = [call EXCEPT ![b].step = "cleanup", ![b].cause = cause]
    BY <1>5 DEF Expire
  <2>3. PICK r \in Calls : /\ r.id = call[b].id
                           /\ r.step = "cleanup" => r.cause # "none"
                           /\ call' = [call EXCEPT ![b] = r]
    <3>1. [call[b] EXCEPT !.step = "cleanup", !.cause = cause] \in Calls
      BY <2>1 DEF Calls
    <3> QED
      BY <3>1, <2>1, <2>2 DEF Calls, FixTypeOK
  <2> QED
    BY <1>5, <2>1, <2>3, FixAdvance DEF Expire, exchange, FixTypeOK
<1>6. ASSUME NEW b \in Bots, Cleanup(b) PROVE FixInv'
  <2>1. call[b] \in Calls /\ Active(b) /\ call[b].cause \in {"none", "send", "timer", "ctx"}
    BY <1>6 DEF Cleanup, Active, FixTypeOK, Calls
  <2>2. PICK r \in Calls : /\ r.step \notin {"registered", "waiting", "cleanup"}
                           /\ call' = [call EXCEPT ![b] = r]
    BY <1>6 DEF Cleanup, Idle, NextStep, NoId, Calls
  <2>3. \/ events' = events
        \/ \E e : /\ events' = events \cup {e}
                  /\ e.id = call[b].id
                  /\ e.cause = "none" => [id |-> e.id, cum |-> e.cum] \in reported
    <3> DEFINE e == [id |-> call[b].id, kind |-> call[b].kind, cause |-> call[b].cause,
                     cum |-> NoCum, result |-> resultForErr(call[b].cause)]
    <3>1. events' = events \/ events' = events \cup {e}
      BY <1>6 DEF Cleanup
    <3>2. e.id = call[b].id /\ e.cause # "none"
      BY <1>6 DEF Cleanup, FixTypeOK
    <3> QED
      BY <3>1, <3>2
  <2> QED
    BY <1>6, <2>1, <2>2, <2>3, FixAdvance DEF Cleanup, exchange, FixTypeOK
<1>7. ASSUME NEW b \in Bots, Return(b) PROVE FixInv'
  <2> DEFINE r == [call[b] EXCEPT !.step = "returned"]
  <2>1. call[b] \in Calls /\ call' = [call EXCEPT ![b] = r]
    BY <1>7 DEF Return, FixTypeOK
  <2>2. r \in Calls /\ r.step = "returned"
    BY <2>1 DEF Calls
  <2> QED
    BY <1>7, <2>1, <2>2, FixAdvance DEF Return, exchange, FixTypeOK
<1>8. CASE Signal
  BY <1>8 DEF Signal, bots, exchange, FixTypeOK, IdIsOwn, Active, RoutedOnce, NothingInvented,
      SessionNeverBlocks, FillIsOwn
<1>9. CASE FromApp
  <2> DEFINE h == Head(inbox)
  <2>1. /\ inbox \in Seq(Reports) /\ inbox # <<>>
        /\ inbox' = Tail(inbox)
        /\ router' = IF h.id \in pending THEN h ELSE NoReport
        /\ pending' = pending \ {h.id}
        /\ UNCHANGED <<ctx, seq, call, live, events, chan, sides, wire, reported, faults>>
    BY <1>9 DEF FromApp, bots, exchange, FixTypeOK
  <2>2. /\ h \in Reports /\ h \in reported
        /\ inbox' \in Seq(Reports)
        /\ \A k \in 1 .. Len(inbox') : inbox'[k] \in reported
    BY <2>1 DEF NothingInvented
  <2> HIDE DEF h
  <2>3. FixTypeOK'
    BY <2>1, <2>2 DEF FixTypeOK
  <2>4. IdIsOwn'
    BY <2>1 DEF IdIsOwn, Active
  <2>5. RoutedOnce'
    BY <2>1, <2>2 DEF RoutedOnce, SessionNeverBlocks, FixTypeOK, Reports, NoReport
  <2>6. NothingInvented'
    BY <2>1, <2>2 DEF NothingInvented, FillIsOwn
  <2> QED
    BY <2>3, <2>4, <2>5, <2>6
<1>10. CASE Deliver
  <2>1. /\ router \in Reports /\ router # NoReport
        /\ router.id \in 1 .. seq /\ router.id \notin pending /\ router.id \in Ids
        /\ router.cum \in Cums
        /\ router = [id |-> router.id, cum |-> router.cum]
        /\ router \in reported
    BY <1>10 DEF Deliver, FixTypeOK, RoutedOnce, NothingInvented, Reports
  <2>2. /\ chan' = [chan EXCEPT ![router.id] = <<router.cum>>]
        /\ router' = NoReport
        /\ UNCHANGED <<ctx, seq, call, live, events, pending, wire, reported, inbox>>
    BY <1>10 DEF Deliver, bots, exchange
  <2>3. FixTypeOK'
    BY <2>1, <2>2 DEF FixTypeOK
  <2>4. IdIsOwn'
    BY <2>2 DEF IdIsOwn, Active
  <2>5. RoutedOnce'
    BY <2>1, <2>2 DEF RoutedOnce, SessionNeverBlocks, FixTypeOK, Ids
  <2>6. NothingInvented'
    BY <2>1, <2>2 DEF NothingInvented, FillIsOwn, FixTypeOK
  <2> QED
    BY <2>3, <2>4, <2>5, <2>6
<1>11. ASSUME NEW m \in wire, NEW cum \in Cums, Report(m, cum) PROVE FixInv'
  <2> DEFINE rep == [id |-> m.id, cum |-> cum]
  <2>1. /\ inbox' = Append(inbox, rep) /\ reported' = reported \cup {rep}
        /\ UNCHANGED <<ctx, seq, call, live, events, pending, chan, router, wire>>
    BY <1>11 DEF Report, bots
  <2>2. rep \in Reports
    BY DEF FixTypeOK, Reports, Ids
  <2> HIDE DEF rep
  <2>3. /\ inbox' \in Seq(Reports)
        /\ \A k \in 1 .. Len(inbox') : inbox'[k] \in reported'
    BY <2>1, <2>2 DEF FixTypeOK, NothingInvented
  <2>4. FixTypeOK'
    BY <2>1, <2>2, <2>3 DEF FixTypeOK
  <2>5. IdIsOwn'
    BY <2>1 DEF IdIsOwn, Active
  <2>6. RoutedOnce'
    BY <2>1 DEF RoutedOnce, SessionNeverBlocks
  <2>7. NothingInvented'
    BY <2>1, <2>3 DEF NothingInvented, FillIsOwn
  <2> QED
    BY <2>4, <2>5, <2>6, <2>7
<1>12. CASE UNCHANGED vars
  BY <1>12 DEF vars, FixTypeOK, IdIsOwn, Active, RoutedOnce, NothingInvented,
      SessionNeverBlocks, FillIsOwn
<1> QED
  BY <1>1, <1>2, <1>3, <1>4, <1>5, <1>6, <1>7, <1>8, <1>9, <1>10, <1>11, <1>12 DEF Next, Call

-----------------------------------------------------------------------------
(* A WebSocket per bot.                                                    *)

\* As long as the connection can be read, the engine and the wire hold nothing
\* but the request the bot waits for, or its answer.
WsInv ==
    /\ requests \in Nat
    /\ wsBot = "dial" => conn = "none" /\ unanswered = {} /\ frames = <<>>
    /\ conn = "open" /\ wsBot = "idle" => unanswered = {} /\ frames = <<>>
    /\ conn = "open" /\ wsBot = "reading" =>
           \/ unanswered \subseteq {requests} /\ frames = <<>>
           \/ unanswered = {} /\ \E kind \in {"answer", "error"} : frames = <<<<requests, kind>>>>
    /\ AnswerIsOwn

\* A bot that has not dialled has the invariant.
LEMMA WsInitHolds == WsInit => WsInv
BY DEF WsInit, WsInv, AnswerIsOwn

\* Every step of the bot, the engine and the connection keeps the invariant: a
\* request is only written after the answer to the one before was read, or on
\* a connection that is never read again.
LEMMA WsStep == WsInv /\ [WsNext]_wsVars => WsInv'
<1> SUFFICES ASSUME WsInv, [WsNext]_wsVars
             PROVE  WsInv'
    OBVIOUS
<1> USE DEF WsInv, AnswerIsOwn
<1>1. CASE DialWS
  BY <1>1 DEF DialWS
<1>2. CASE WriteRequest
  BY <1>2 DEF WriteRequest
<1>3. CASE WriteFails
  BY <1>3 DEF WriteFails
<1>4. CASE ReadAnswer
  <2>1. PICK kind \in {"answer", "error"} : frames = <<<<requests, kind>>>> /\ unanswered = {}
    BY <1>4 DEF ReadAnswer
  <2>2. frames' = <<>> /\ Head(frames)[1] = requests
    BY <1>4, <2>1 DEF ReadAnswer
  <2> QED
    BY <1>4, <2>1, <2>2 DEF ReadAnswer, Outcome
<1>5. CASE ReadTimeout
  <2>1. wsBot' # "dial" /\ conn' # "open" /\ requests' = requests
    BY <1>5 DEF ReadTimeout, Outcome
  <2>2. \A e \in wsEvents' : e \in wsEvents \/ e.of = 0
    <3>1. \/ wsEvents' = wsEvents
          \/ \E res : wsEvents' = wsEvents \cup {[req |-> requests, of |-> 0, result |-> res]}
      BY <1>5 DEF ReadTimeout, Outcome
    <3> QED
      BY <3>1
  <2> QED
    BY <2>1, <2>2
<1>6. CASE ReadClosed
  <2>1. wsBot' # "dial" /\ conn' # "open" /\ requests' = requests
    BY <1>6 DEF ReadClosed, Outcome
  <2>2. \A e \in wsEvents' : e \in wsEvents \/ e.of = 0
    BY <1>6 DEF ReadClosed, Outcome
  <2> QED
    BY <2>1, <2>2
<1>7. CASE ReadFailed
  <2>1. wsBot' # "dial" /\ conn' # "open" /\ requests' = requests
    BY <1>7 DEF ReadFailed, Outcome
  <2>2. \A e \in wsEvents' : e \in wsEvents \/ e.of = 0
    <3>1. \/ wsEvents' = wsEvents
          \/ \E res : wsEvents' = wsEvents \cup {[req |-> requests, of |-> 0, result |-> res]}
      BY <1>7 DEF ReadFailed, Outcome
    <3> QED
      BY <3>1
  <2> QED
    BY <2>1, <2>2
<1>8. ASSUME NEW n \in 1 .. MaxRequests, EngineAnswers(n) PROVE WsInv'
  <2>1. PICK kind \in {"answer", "error"} : frames' = Append(frames, <<n, kind>>)
    BY <1>8 DEF EngineAnswers
  <2>2. /\ n \in unanswered /\ unanswered' = unanswered \ {n}
        /\ UNCHANGED <<wsBot, conn, requests, wsEvents>>
    BY <1>8 DEF EngineAnswers
  <2>3. ASSUME conn = "open", wsBot = "reading"
        PROVE  unanswered' = {} /\ frames' = <<<<requests, kind>>>>
    <3>1. unanswered \subseteq {requests} /\ frames = <<>>
      BY <2>2, <2>3
    <3>2. n = requests
      BY <2>2, <3>1
    <3> QED
      BY <2>1, <2>2, <3>1, <3>2
  <2>4. wsBot # "dial" /\ ~ (conn = "open" /\ wsBot = "idle")
    BY <2>2
  <2> QED
    BY <2>2, <2>3, <2>4
<1>9. CASE EngineCloses
  BY <1>9 DEF EngineCloses
<1>10. CASE WsSignal
  BY <1>10 DEF WsSignal
<1>11. CASE WsReturn
  BY <1>11 DEF WsReturn
<1>12. CASE UNCHANGED wsVars
  BY <1>12 DEF wsVars
<1> QED
  BY <1>1, <1>2, <1>3, <1>4, <1>5, <1>6, <1>7, <1>8, <1>9, <1>10, <1>11, <1>12 DEF WsNext

-----------------------------------------------------------------------------
(* The bursts.                                                             *)

\* The ticker: a tick is taken within MaxLag, so long before the next.
TickerOnTime ==
    /\ nextTick - Every <= clock /\ clock < nextTick
    /\ tickDue # Never => tickDue = nextTick - Every /\ clock <= tickDue + MaxLag

\* The latest burst began within MaxLag of its tick, and its timer, the only
\* one there is, ends it within MaxLag of its Duration.
BurstOnTime ==
    /\ burstAt # Never =>
           /\ burstAt <= clock
           /\ tickDue = Never =>
                  nextTick - Every <= burstAt /\ burstAt <= nextTick - Every + MaxLag
           /\ tickDue # Never => burstAt <= nextTick - 2 * Every + MaxLag
    /\ burstActive => /\ burstAt # Never
                      /\ offTimers = {burstAt + Duration}
                      /\ clock <= burstAt + Duration + MaxLag
    /\ ~ burstActive => /\ offTimers = {}
                        /\ burstAt # Never => burstAt + Duration <= clock

\* A bot's wait, in terms of when the burst it does not follow yet began or ended.
WaitsOnTime ==
    \A w \in Workers :
        /\ clock <= wake[w] + MaxLag
        /\ wake[w] <= clock + drawn[w] + Jitter
        /\ burstActive /\ drawn[w] # burstIvl => wake[w] <= burstAt + interval + Jitter
        /\ ~ burstActive /\ drawn[w] # interval =>
               /\ burstAt # Never
               /\ wake[w] <= burstAt + Duration + MaxLag + burstIvl + Jitter

ArrivalsTypeOK ==
    /\ mode \in {"uniform", "poisson"}
    /\ clock \in Nat /\ nextTick \in Nat
    /\ tickDue \in Nat \cup {Never} /\ burstAt \in Nat \cup {Never}
    /\ burstActive \in BOOLEAN
    /\ wake \in [Workers -> Nat]
    /\ drawn \in [Workers -> {interval, burstIvl}]

ArrivalsInv == ArrivalsTypeOK /\ (mode = "uniform" => TickerOnTime /\ BurstOnTime /\ WaitsOnTime)

\* The waits are numbers.
LEMMA IntervalsAreNatural == interval \in Nat /\ burstIvl \in Nat
<1>1. interval \in Nat
  BY BurstAssumption DEF interval
<1>2. interval \div Multiplier \in Int
  BY <1>1, BurstAssumption
<1> QED
  BY <1>1, <1>2 DEF burstIvl

\* A worker that starts has the invariant.
LEMMA ArrivalsInitHolds == ArrivalsInit => ArrivalsInv
<1> SUFFICES ASSUME ArrivalsInit
             PROVE  ArrivalsInv
    OBVIOUS
<1> USE BurstAssumption, IntervalsAreNatural DEF ArrivalsInit, Never
<1>1. ArrivalsTypeOK
  <2>1. wake \in [Workers -> Nat] /\ drawn \in [Workers -> {interval, burstIvl}]
    OBVIOUS
  <2> QED
    BY <2>1 DEF ArrivalsTypeOK
<1>2. TickerOnTime /\ BurstOnTime
  BY DEF TickerOnTime, BurstOnTime
<1>3. WaitsOnTime
  BY DEF WaitsOnTime
<1> QED
  BY <1>1, <1>2, <1>3 DEF ArrivalsInv

\* Every tick, timer and bot keeps the invariant.
LEMMA ArrivalsStep == ArrivalsInv /\ [ArrivalsNext]_arrivalVars => ArrivalsInv'
<1> SUFFICES ASSUME ArrivalsInv, [ArrivalsNext]_arrivalVars
             PROVE  ArrivalsInv'
    OBVIOUS
<1> USE BurstAssumption, IntervalsAreNatural DEF ArrivalsInv, Never
<1>1. ASSUME NEW w \in Workers, Arrival(w) PROVE ArrivalsInv'
  <2>1. PICK ivl \in {interval, burstIvl} : ivl = IF burstActive THEN burstIvl ELSE interval
    OBVIOUS
  <2>2. PICK base \in Samples(ivl), j \in Jitters :
            /\ wake' = [wake EXCEPT ![w] = clock + base + j]
            /\ drawn' = [drawn EXCEPT ![w] = ivl]
    BY <1>1, <2>1 DEF Arrival
  <2>3. UNCHANGED <<mode, clock, nextTick, tickDue, burstActive, offTimers, burstAt>>
    BY <1>1 DEF Arrival
  <2>4. base \in Nat /\ j \in Nat /\ j <= Jitter
    BY DEF Samples, Jitters, ArrivalsTypeOK
  <2>5. ArrivalsTypeOK'
    BY <2>2, <2>3, <2>4 DEF ArrivalsTypeOK
  <2>6. ASSUME mode = "uniform" PROVE WaitsOnTime'
    <3>1. base = ivl
      BY <2>6 DEF Samples
    <3> QED
      BY <2>1, <2>2, <2>3, <2>4, <2>6, <3>1 DEF WaitsOnTime, BurstOnTime, ArrivalsTypeOK
  <2>7. mode = "uniform" => TickerOnTime' /\ BurstOnTime'
    BY <2>3 DEF TickerOnTime, BurstOnTime
  <2> QED
    BY <2>3, <2>5, <2>6, <2>7
<1>2. CASE BurstOn
  <2>1. /\ tickDue # Never /\ tickDue' = Never /\ burstActive' = TRUE
        /\ offTimers' = offTimers \cup {clock + Duration} /\ burstAt' = clock
        /\ UNCHANGED <<mode, clock, nextTick, wake, drawn>>
    BY <1>2 DEF BurstOn
  <2>2. ArrivalsTypeOK'
    BY <2>1 DEF ArrivalsTypeOK
  <2>3. ASSUME mode = "uniform" PROVE TickerOnTime' /\ BurstOnTime' /\ WaitsOnTime'
    <3>1. ~ burstActive /\ offTimers = {}
      BY <2>1, <2>3 DEF TickerOnTime, BurstOnTime, ArrivalsTypeOK
    <3>2. TickerOnTime'
      BY <2>1, <2>3 DEF TickerOnTime
    <3>3. BurstOnTime'
      BY <2>1, <2>3, <3>1 DEF BurstOnTime, TickerOnTime, ArrivalsTypeOK
    <3>4. WaitsOnTime'
      BY <2>1, <2>3 DEF WaitsOnTime, ArrivalsTypeOK
    <3> QED
      BY <3>2, <3>3, <3>4
  <2> QED
    BY <2>1, <2>2, <2>3
<1>3. ASSUME NEW t \in offTimers, BurstOff(t) PROVE ArrivalsInv'
  <2>1. /\ t <= clock /\ burstActive' = FALSE /\ offTimers' = offTimers \ {t}
        /\ UNCHANGED <<mode, clock, nextTick, tickDue, wake, drawn, burstAt>>
    BY <1>3 DEF BurstOff
  <2>2. ArrivalsTypeOK'
    BY <2>1 DEF ArrivalsTypeOK
  <2>3. ASSUME mode = "uniform" PROVE TickerOnTime' /\ BurstOnTime' /\ WaitsOnTime'
    <3>1. burstActive /\ burstAt # Never /\ t = burstAt + Duration /\ offTimers' = {}
          /\ clock <= burstAt + Duration + MaxLag
      BY <2>1, <2>3 DEF BurstOnTime, ArrivalsTypeOK
    <3>2. TickerOnTime'
      BY <2>1, <2>3 DEF TickerOnTime
    <3>3. BurstOnTime'
      BY <2>1, <2>3, <3>1 DEF BurstOnTime, ArrivalsTypeOK
    <3>4. WaitsOnTime'
      BY <2>1, <2>3, <3>1 DEF WaitsOnTime, ArrivalsTypeOK
    <3> QED
      BY <3>2, <3>3, <3>4
  <2> QED
    BY <2>1, <2>2, <2>3
<1>4. CASE ClockTick
  <2>1. /\ clock' = clock + 1
        /\ tickDue # Never => clock < tickDue + MaxLag
        /\ \A t \in offTimers : clock < t + MaxLag
        /\ \A w \in Workers : clock < wake[w] + MaxLag
        /\ \/ /\ clock' = nextTick /\ nextTick' = nextTick + Every
              /\ tickDue' = IF tickDue = Never THEN clock' ELSE tickDue
           \/ clock' # nextTick /\ UNCHANGED <<tickDue, nextTick>>
        /\ UNCHANGED <<mode, burstActive, offTimers, wake, drawn, burstAt>>
    BY <1>4 DEF ClockTick
  <2>2. ArrivalsTypeOK'
    BY <2>1 DEF ArrivalsTypeOK
  <2>3. ASSUME mode = "uniform" PROVE TickerOnTime' /\ BurstOnTime' /\ WaitsOnTime'
    <3>1. TickerOnTime'
      BY <2>1, <2>3 DEF TickerOnTime, ArrivalsTypeOK
    <3>2. BurstOnTime'
      BY <2>1, <2>3 DEF TickerOnTime, BurstOnTime, ArrivalsTypeOK
    <3>3. WaitsOnTime'
      BY <2>1, <2>3 DEF WaitsOnTime, ArrivalsTypeOK
    <3> QED
      BY <3>1, <3>2, <3>3
  <2> QED
    BY <2>1, <2>2, <2>3
<1>5. CASE UNCHANGED arrivalVars
  BY <1>5 DEF arrivalVars, ArrivalsTypeOK, TickerOnTime, BurstOnTime, WaitsOnTime
<1> QED
  BY <1>1, <1>2, <1>3, <1>4, <1>5 DEF ArrivalsNext

-----------------------------------------------------------------------------
(* The worker.                                                             *)

\* Whichever part of the worker is looked at, all three invariants hold.
THEOREM WorkerInductive == WorkerSpec => [](FixInv /\ WsInv /\ ArrivalsInv)
<1>1. WorkerInit => FixInv /\ WsInv /\ ArrivalsInv
  BY FixInit, WsInitHolds, ArrivalsInitHolds DEF WorkerInit
<1>2. [WorkerNext]_workerVars => [Next]_vars /\ [WsNext]_wsVars /\ [ArrivalsNext]_arrivalVars
  BY DEF WorkerNext, workerVars
<1> QED
  BY <1>1, <1>2, FixStep, WsStep, ArrivalsStep, PTL DEF WorkerSpec

\* The session's goroutine always finds room in the channel of the report it
\* holds, however many bots share the session: FromApp never blocks.
THEOREM WorkerSessionNeverBlocks == WorkerSpec => []SessionNeverBlocks
<1>1. FixInv => SessionNeverBlocks
  BY DEF FixInv, RoutedOnce
<1> QED
  BY <1>1, WorkerInductive, PTL

\* The fill a bot tells of was reported for its own order, and no call is told
\* of twice, however late reports are, however many there are and whoever
\* times out.
THEOREM WorkerFillIsOwn == WorkerSpec => []FillIsOwn
<1>1. FixInv => FillIsOwn
  BY DEF FixInv, NothingInvented
<1> QED
  BY <1>1, WorkerInductive, PTL

\* Without any number that matches them, the answer a bot takes from its socket
\* is the one to its last request.
THEOREM WorkerAnswerIsOwn == WorkerSpec => []AnswerIsOwn
<1>1. WsInv => AnswerIsOwn
  BY DEF WsInv
<1> QED
  BY <1>1, WorkerInductive, PTL

\* With a fixed interval every burst reaches and leaves every bot in time, for
\* any rate, jitter, multiplier and lag, as long as a burst fits its period.
THEOREM WorkerBurstShapesLoad == WorkerSpec => []BurstShapesLoad
<1>1. ArrivalsInv => BurstShapesLoad
  <2> SUFFICES ASSUME ArrivalsInv, mode = "uniform", burstAt # Never, NEW w \in Workers
               PROVE  /\ burstAt + interval + Jitter + MaxLag < clock /\ clock < burstAt + Duration
                             => drawn[w] = burstIvl
                      /\ burstAt + Duration + burstIvl + Jitter + 2 * MaxLag < clock
                             => drawn[w] = interval
    BY DEF BurstShapesLoad
  <2> USE BurstAssumption, IntervalsAreNatural
      DEF ArrivalsInv, ArrivalsTypeOK, BurstOnTime, WaitsOnTime, Never
  <2>1. CASE burstActive
    BY <2>1
  <2>2. CASE ~ burstActive
    BY <2>2
  <2> QED
    BY <2>1, <2>2
<1> QED
  BY <1>1, WorkerInductive, PTL
=============================================================================
