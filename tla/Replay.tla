------------------------------- MODULE Replay -------------------------------
(***************************************************************************)
(* How a submission gets its correctness: the goroutines of a bot-worker   *)
(* place and cancel orders on the contestant's engine (here the reference  *)
(* engine of samples/), emit an event per answer, and the validator        *)
(* replays the events, in the order they reach it, through its own book.   *)
(* One run key; runs have separate books and counters.                     *)
(***************************************************************************)
EXTENDS RefBook

CONSTANTS
    Bots,          \* goroutines of runWorker
    Prices, Qtys,
    MaxTopic,      \* bound: events on their way to the validator
    Loads          \* load profiles [bots, orders, faults]: the bots at work, and
                   \* bounds on orders placed and on requests and events that fail

ASSUME ReplayAssumption ==
    /\ Prices \subseteq Nat
    /\ Qtys \subseteq Nat \ {0}
    /\ MaxTopic \in Nat \ {0}
    /\ Loads \subseteq [bots : SUBSET Bots, orders : Nat, faults : Nat]

VARIABLES
    load,      \* the load profile of this run
    clock,     \* source of timestamps
    placed,    \* orders placed so far
    faults,
    bot,       \* per bot: the request it is working on
    live,      \* per bot: liveIDs
    heap,      \* the engine's resting orders [id, side, price, rem, at]
    orders,    \* the engine's ob.orders: ids it knows
    topic,     \* events on their way to the validator
    book,      \* the validator's book of the run
    total, mismatches,
    verified   \* history: events replayed whose fill the engine reported

vars == <<load, clock, placed, faults, bot, live, heap, orders, topic, book, total,
          mismatches, verified>>

NoId == 0

\* A bot's request. step: "idle" (waiting for the timer); "place" (past the
\* cancel of this arrival, its order is next); "sent" (SentTsNs taken);
\* "arrived" (the engine took its own time, not yet its lock); "done"; "failed".
Idle == [step |-> "idle", kind |-> "limit", side |-> "buy", price |-> 0, qty |-> 0,
         id |-> NoId, ts |-> 0, at |-> 0, filled |-> 0]

Init ==
    /\ load \in Loads
    /\ clock = 0
    /\ placed = 0
    /\ faults = 0
    /\ bot = [b \in Bots |-> Idle]
    /\ live = [b \in Bots |-> <<>>]
    /\ heap = {}
    /\ orders = {}
    /\ topic = <<>>
    /\ book = EmptyBook
    /\ total = 0
    /\ mismatches = 0
    /\ verified = 0

Fault ==
    /\ faults < load.faults
    /\ faults' = faults + 1

-----------------------------------------------------------------------------
(* runWorker.                                                              *)

\* Every arrival places an order: a limit order, or a market order, which has
\* no price.
SendOrder(b, kind, side, price, qty) ==
    /\ bot[b].step \in {"idle", "place"}
    /\ placed < load.orders
    /\ placed' = placed + 1
    /\ clock' = clock + 1
    /\ bot' = [bot EXCEPT ![b] = [Idle EXCEPT !.step = "sent", !.kind = kind, !.side = side,
                                   !.price = price, !.qty = qty, !.ts = clock']]
    /\ UNCHANGED <<load, faults, live, heap, orders, topic, book, total, mismatches, verified>>

\* ShouldCancel: at most one cancel per arrival, of the bot's oldest live order.
SendCancel(b) ==
    /\ bot[b].step = "idle"
    /\ live[b] # <<>>
    /\ clock' = clock + 1
    /\ bot' = [bot EXCEPT ![b] = [Idle EXCEPT !.step = "sent", !.kind = "cancel",
                                   !.id = Head(live[b]), !.ts = clock']]
    /\ live' = [live EXCEPT ![b] = Tail(@)]
    /\ UNCHANGED <<load, placed, faults, heap, orders, topic, book, total, mismatches, verified>>

\* The request fails before the engine acted on it, or after: the bot cannot
\* tell. resultForErr gives TIMEOUT or REJECTED and no order id is known.
Fail(b) ==
    /\ bot[b].step \in {"sent", "arrived", "done"}
    /\ Fault
    /\ bot' = [bot EXCEPT ![b].step = "failed"]
    /\ UNCHANGED <<load, clock, placed, live, heap, orders, topic, book, total, mismatches, verified>>

\* What the bot emits for its request. auth: the result tells a fill the
\* engine reported (FILLED, PARTIAL, ACK_ONLY).
EventOf(b) ==
    LET q == bot[b] IN
    [kind |-> q.kind, side |-> q.side, price |-> q.price, qty |-> q.qty, ts |-> q.ts,
     id |-> IF q.step = "failed" /\ q.kind # "cancel" THEN NoId ELSE q.id,
     filled |-> IF q.step = "done" THEN q.filled ELSE 0,
     auth |-> q.step = "done"]

\* The answer, or the error, is turned into an event. The telemetry path may
\* lose it: the queue of Emit, the stream and the ingester's buffer drop.
Emit(b) ==
    /\ bot[b].step \in {"done", "failed"}
    /\ \/ /\ Len(topic) < MaxTopic
          /\ topic' = Append(topic, EventOf(b))
          /\ UNCHANGED faults
       \/ /\ Fault
          /\ UNCHANGED topic
    /\ live' = [live EXCEPT ![b] = IF bot[b].step = "done" /\ bot[b].kind = "limit"
                                   THEN Append(@, bot[b].id) ELSE @]
    /\ bot' = [bot EXCEPT ![b] = [Idle EXCEPT !.step = IF bot[b].kind = "cancel"
                                                       THEN "place" ELSE "idle"]]
    /\ UNCHANGED <<load, clock, placed, heap, orders, book, total, mismatches, verified>>

-----------------------------------------------------------------------------
(* The contestant's engine: samples/reference-orderbook.                   *)

\* handlePlace: At is taken before ob.Place takes the lock.
Arrive(b) ==
    /\ bot[b].step = "sent"
    /\ clock' = clock + 1
    /\ bot' = [bot EXCEPT ![b].step = "arrived", ![b].at = clock',
                          ![b].id = IF bot[b].kind = "cancel" THEN @ ELSE clock']
    /\ UNCHANGED <<load, placed, faults, live, heap, orders, topic, book, total, mismatches, verified>>

\* Mutant: the heaps break price ties by the later time.
Less_Later(side, x, y) ==
    IF x.price # y.price
    THEN IF side = "buy" THEN x.price > y.price ELSE x.price < y.price
    ELSE x.at > y.at

\* bidHeap.Less and askHeap.Less.
Less(side, x, y) ==
    IF x.price # y.price
    THEN IF side = "buy" THEN x.price > y.price ELSE x.price < y.price
    ELSE x.at < y.at

\* The price test of the loops; PlaceMarket has none.
Meets(q, x) ==
    \/ q.kind = "market"
    \/ IF q.side = "buy" THEN x.price <= q.price ELSE x.price >= q.price

\* One round of the loops: the top of the opposite heap is matched, and popped
\* when nothing remains of it. No exhausted order stays in a heap, so there is
\* none to skip.
EngineRound(q, m) ==
    LET opposite == {x \in m.heap : x.side # q.side}
        top == CHOOSE x \in opposite : \A y \in opposite : ~ Less(x.side, y, x)
        qty == min64(m.left, top.rem)
    IN  IF m.left = 0 \/ opposite = {} \/ ~ Meets(q, top)
        THEN m
        ELSE [left |-> m.left - qty,
              heap |-> (m.heap \ {top}) \cup
                       (IF qty = top.rem THEN {} ELSE {[top EXCEPT !.rem = @ - qty]})]

\* Every round takes at least one unit.
EngineMatch(q) ==
    LET at[i \in 0 .. q.qty] ==
            IF i = 0 THEN [left |-> q.qty, heap |-> heap] ELSE EngineRound(q, at[i - 1])
    IN  at[q.qty]

\* OrderBook.Place and OrderBook.PlaceMarket under ob.mu. The id is new. A
\* market order does not rest and its id is forgotten.
EnginePlace(b) ==
    /\ bot[b].step = "arrived"
    /\ bot[b].kind \in {"limit", "market"}
    /\ LET q == bot[b]
           m == EngineMatch(q)
           own == [id |-> q.id, side |-> q.side, price |-> q.price, rem |-> m.left, at |-> q.at]
       IN  /\ heap' = IF q.kind = "limit" /\ m.left > 0 THEN m.heap \cup {own} ELSE m.heap
           /\ orders' = IF q.kind = "limit" THEN orders \cup {q.id} ELSE orders
           /\ bot' = [bot EXCEPT ![b].step = "done", ![b].filled = q.qty - m.left]
    /\ UNCHANGED <<load, clock, placed, faults, live, topic, book, total, mismatches, verified>>

\* OrderBook.Cancel: an order that was filled is still known, and forgotten.
EngineCancel(b) ==
    /\ bot[b].step = "arrived"
    /\ bot[b].kind = "cancel"
    /\ \/ /\ bot[b].id \in orders
          /\ orders' = orders \ {bot[b].id}
          /\ heap' = {x \in heap : x.id # bot[b].id}
          /\ bot' = [bot EXCEPT ![b].step = "done"]
       \/ /\ bot[b].id \notin orders
          /\ bot' = [bot EXCEPT ![b].step = "failed"]
          /\ UNCHANGED <<orders, heap>>
    /\ UNCHANGED <<load, clock, placed, faults, live, topic, book, total, mismatches, verified>>

-----------------------------------------------------------------------------
(* The validator.                                                          *)

\* Validator.Process on the next event: replay it, and count it unless its
\* result is UNSPECIFIED, which the REST client never sends. The offset is
\* committed after the handler: a rebalance in between delivers the event
\* again, and nothing in the validator knows it has seen it.
Process ==
    /\ topic # <<>>
    /\ \/ /\ topic' = Tail(topic)
          /\ UNCHANGED faults
       \/ /\ Fault
          /\ UNCHANGED topic
    /\ LET e == Head(topic) IN
       \/ /\ e.kind = "cancel"
          /\ book' = Cancel(book, e.id)
          /\ UNCHANGED <<total, mismatches, verified>>
       \/ /\ e.kind \in {"limit", "market"}
          /\ LET r == IF e.kind = "market"
                      THEN PlaceMarket(book, e)
                      ELSE Place(book, e)
             IN  /\ book' = r.book
                 /\ mismatches' = mismatches + (IF r.filled # e.filled THEN 1 ELSE 0)
          /\ total' = total + 1
          /\ verified' = verified + (IF e.auth THEN 1 ELSE 0)
    /\ UNCHANGED <<load, clock, placed, bot, live, heap, orders>>

-----------------------------------------------------------------------------

\* All orders of the bound are placed, answered and replayed.
Finished ==
    /\ placed = load.orders
    /\ \A b \in Bots : bot[b].step \in {"idle", "place"}
    /\ topic = <<>>
    /\ UNCHANGED vars

Next ==
    \/ \E b \in load.bots :
          \/ \E side \in Sides, price \in Prices, qty \in Qtys :
                SendOrder(b, "limit", side, price, qty)
          \/ \E side \in Sides, qty \in Qtys : SendOrder(b, "market", side, 0, qty)
          \/ SendCancel(b)
          \/ Fail(b)
          \/ Emit(b)
          \/ Arrive(b)
          \/ EnginePlace(b)
          \/ EngineCancel(b)
    \/ Process
    \/ Finished

Spec == Init /\ [][Next]_vars

-----------------------------------------------------------------------------
(* Properties.                                                             *)

\* One bot that waits for each answer, and nothing has failed or been lost.
Serial == (\E b \in Bots : load.bots = {b}) /\ faults = 0

\* The core fairness invariant: while one bot waits for each answer and no
\* event is lost, a submission whose engine is the reference engine has no
\* mismatch. Heaps with lazy removal and sorted slices are two programs.
PerfectEngineScoresPerfect == Serial => mismatches = 0

\* Then the two books hold the same resting orders once the validator has
\* caught up, so later fills agree too.
BooksAgree ==
    LET engine(side) == {[id |-> x.id, price |-> x.price, rem |-> x.rem]
                            : x \in {y \in heap : y.side = side}}
        rests(side) == {[id |-> book[side][i].id, price |-> book[side][i].price,
                         rem |-> book[side][i].qty] : i \in DOMAIN book[side]}
    IN  Serial /\ topic = <<>> /\ (\A b \in Bots : bot[b].step \in {"idle", "place", "sent", "arrived"})
           => \A side \in Sides : engine(side) = rests(side)

\* Price-time priority: x may stand before y.
InPriority(side, x, y) ==
    \/ IF side = "buy" THEN x.price > y.price ELSE x.price < y.price
    \/ x.price = y.price /\ x.ts <= y.ts

\* Whatever order events of concurrent bots arrive in, and whichever are lost,
\* delivered twice or failed, the validator's book keeps price-time priority and never rests
\* crossed or with an exhausted order.
BookWellFormed ==
    /\ \A side \in Sides : \A i, j \in DOMAIN book[side] :
          i < j => InPriority(side, book[side][i], book[side][j])
    /\ \A i \in DOMAIN book["buy"], j \in DOMAIN book["sell"] :
          book["buy"][i].price < book["sell"][j].price
    /\ \A side \in Sides : \A i \in DOMAIN book[side] : book[side][i].qty > 0

\* ADR 0005: "A submission is scored only once the validator has actually
\* checked >= 1 authoritative fill (TotalChecked > 0)".
VerdictNeedsAuthoritativeFill == total > 0 => verified > 0
=============================================================================
