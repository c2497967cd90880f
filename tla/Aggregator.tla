----------------------------- MODULE Aggregator -----------------------------
(***************************************************************************)
(* services/aggregator: one consumer goroutine fetches OrderEvents from    *)
(* the telemetry topic, records them in the open window of their run and   *)
(* commits their offsets; a tick goroutine flushes the open windows; HTTP  *)
(* handlers read the merged whole-run rows the leaderboard scores on. All  *)
(* state but the committed offset is in memory.                            *)
(***************************************************************************)
EXTENDS Integers, FiniteSets, SequencesExt

CONSTANTS
    Runs,          \* run keys: a submission, or a contestant of a legacy run
    Events,        \* the messages of the topic: [run, lat, result]
    Undecodable,   \* "run" of a message proto.Unmarshal refuses
    Anonymous,     \* "run" of an event without a contestant
    Lats,          \* latencies a histogram can record (1 ns to 60 s)
    Window,        \* WINDOW_MS
    HistoryCaps,   \* capacities a ring is built with; the code's is DefaultHistoryWindows
    MaxLog,        \* bound: messages produced
    MaxTime,       \* bound: the clock
    MaxFaults      \* bound: restarts, failed commits, rebalances, failed writes

ASSUME AggregatorAssumption ==
    /\ Undecodable \notin Runs /\ Anonymous \notin Runs /\ Undecodable # Anonymous
    /\ Events \subseteq [run : Runs \cup {Undecodable, Anonymous}, lat : Int,
                         result : {"filled", "rejected", "timeout"}]
    /\ Lats \subseteq Nat \ {0}
    /\ Window \in Nat \ {0}
    /\ HistoryCaps \subseteq Nat \ {0}
    /\ MaxLog \in Nat /\ MaxTime \in Nat /\ MaxFaults \in Nat

VARIABLES
    log,           \* the topic's partition
    committed,     \* messages the consumer group has committed
    pos,           \* messages the reader has fetched
    cons,          \* program counter of Consume
    open,          \* Aggregator.open; no entry is a window with count 0
    historyCap,    \* Aggregator.historyCap
    history,       \* Aggregator.history; its last element is Aggregator.latest
    cumulative,    \* Aggregator.cumulative; no entry has windows 0
    now,           \* the wall clock
    tick,          \* ticker.C: the time it fired, or 0 when it is empty
    tloop,         \* program counter of tickLoop
    scrape,        \* program counter of GET /metrics/merged
    ids,           \* AllMerged's ids not yet read
    answer,        \* rows AllMerged has read
    faults,
    seen,          \* history: offsets this process recorded, in order
    ever,          \* history: offsets some process recorded
    before,        \* history: the cumulative rows when the scrape began
    lastTick,      \* history: tick time of the last flush
    started        \* when the process, and its ticker, started

kafka == <<log, committed>>
consumer == <<pos, cons, seen, ever>>
windows == <<open, historyCap, history, cumulative, lastTick>>
clock == <<now, tick, started>>
scraper == <<scrape, ids, answer, before>>
vars == <<log, committed, pos, cons, open, historyCap, history, cumulative, now, tick,
          tloop, scrape, ids, answer, faults, seen, ever, before, lastTick, started>>

NoHist == [l \in Lats |-> 0]
NoWindow == [start |-> 0, count |-> 0, rejected |-> 0, timeouts |-> 0, hist |-> NoHist]
NoTotal == [windows |-> 0, dur |-> 0, count |-> 0, rejected |-> 0, timeouts |-> 0,
            hist |-> NoHist]
NoTick == 0

Init ==
    /\ log = <<>>
    /\ committed = 0
    /\ pos = 0
    /\ cons = "fetch"
    /\ open = [r \in Runs |-> NoWindow]
    /\ historyCap \in HistoryCaps
    /\ history = [r \in Runs |-> <<>>]
    /\ cumulative = [r \in Runs |-> NoTotal]
    /\ now = 0
    /\ tick = NoTick
    /\ tloop = "wait"
    /\ scrape = "idle"
    /\ ids = {}
    /\ answer = [r \in Runs |-> NoTotal]
    /\ faults = 0
    /\ seen = <<>>
    /\ ever = {}
    /\ before = [r \in Runs |-> NoTotal]
    /\ lastTick = 0
    /\ started = 0

Fault ==
    /\ faults < MaxFaults
    /\ faults' = faults + 1

-----------------------------------------------------------------------------
(* Consume.                                                                *)

\* The ingester publishes an event.
Produce(e) ==
    /\ Len(log) < MaxLog
    /\ log' = Append(log, e)
    /\ UNCHANGED <<committed, consumer, windows, clock, tloop, scraper, faults>>

\* Mutant: the offset is committed before the handler runs.
Fetch_CommitFirst ==
    /\ cons = "fetch"
    /\ pos < Len(log)
    /\ pos' = pos + 1
    /\ cons' = IF log[pos'].run = Undecodable THEN "fetch" ELSE "record"
    /\ committed' = pos'
    /\ UNCHANGED <<log, seen, ever, windows, clock, tloop, scraper, faults>>

\* FetchMessage, and Unmarshal: a message that does not decode is skipped and
\* not committed.
Fetch ==
    /\ cons = "fetch"
    /\ pos < Len(log)
    /\ pos' = pos + 1
    /\ cons' = IF log[pos'].run = Undecodable THEN "fetch" ELSE "record"
    /\ UNCHANGED <<kafka, seen, ever, windows, clock, tloop, scraper, faults>>

\* FetchMessage returns an error: Consume returns and only the consumer
\* goroutine ends, the process goes on serving what it has.
FetchError ==
    /\ cons = "fetch"
    /\ Fault
    /\ cons' = "stopped"
    /\ UNCHANGED <<kafka, pos, seen, ever, windows, clock, tloop, scraper>>

\* Adding an event to a window.
Add(w, e) ==
    [start |-> IF w.count = 0 THEN now ELSE w.start,
     count |-> w.count + 1,
     rejected |-> w.rejected + (IF e.result = "rejected" THEN 1 ELSE 0),
     timeouts |-> w.timeouts + (IF e.result = "timeout" THEN 1 ELSE 0),
     hist |-> IF e.lat \in Lats THEN [w.hist EXCEPT ![e.lat] = @ + 1] ELSE w.hist]

\* Record, called by the consumer under the aggregator's lock. An event
\* without a contestant is ignored.
Record ==
    /\ cons = "record"
    /\ LET e == log[pos] IN
       \/ /\ e.run \in Runs
          /\ open' = [open EXCEPT ![e.run] = Add(@, e)]
       \/ /\ e.run = Anonymous
          /\ UNCHANGED open
    /\ cons' = "commit"
    /\ seen' = Append(seen, pos)
    /\ ever' = ever \cup {pos}
    /\ UNCHANGED <<kafka, pos, historyCap, history, cumulative, lastTick, clock, tloop, scraper, faults>>

\* CommitMessages; a failure is only logged.
Commit ==
    /\ cons = "commit"
    /\ \/ /\ committed' = pos
          /\ UNCHANGED faults
       \/ /\ Fault
          /\ UNCHANGED committed
    /\ cons' = "fetch"
    /\ UNCHANGED <<log, pos, seen, ever, windows, clock, tloop, scraper>>

\* The group rebalances: the reader starts again at the committed offset.
Rebalance ==
    /\ cons = "fetch"
    /\ Fault
    /\ pos' = committed
    /\ UNCHANGED <<kafka, cons, seen, ever, windows, clock, tloop, scraper>>

-----------------------------------------------------------------------------
(* tickLoop.                                                               *)

\* The ticker fires every Window and drops the tick when its channel is full.
Advance ==
    /\ now < MaxTime
    /\ now' = now + 1
    /\ tick' = IF (now' - started) % Window = 0 /\ tick = NoTick THEN now' ELSE tick
    /\ UNCHANGED <<kafka, consumer, windows, started, tloop, scraper, faults>>

\* now.Sub(ws.start): the window may have been opened after the tick fired.
Duration(r) ==
    IF tick - open[r].start <= 0 THEN Window ELSE tick - open[r].start

MergeHistograms(h, g) == [l \in Lats |-> h[l] + g[l]]

\* Flush's update of the whole-run accumulator.
Fold(t, w) ==
    [windows |-> t.windows + 1,
     dur |-> t.dur + w.dur,
     count |-> t.count + w.count,
     rejected |-> t.rejected + w.rejected,
     timeouts |-> t.timeouts + w.timeouts,
     hist |-> MergeHistograms(t.hist, w.hist)]

\* The window as Flush stores it.
Flushed(r) ==
    [dur |-> Duration(r), count |-> open[r].count, rejected |-> open[r].rejected,
     timeouts |-> open[r].timeouts, hist |-> open[r].hist]

\* The ring keeps the newest historyCap windows.
Trim(ring) ==
    IF Len(ring) > historyCap THEN SubSeq(ring, Len(ring) - historyCap + 1, Len(ring)) ELSE ring

\* Mutant: the windows are not reset.
Flush_NoReset ==
    /\ tloop = "wait"
    /\ tick # NoTick
    /\ LET active == {r \in Runs : open[r].count > 0} IN
       /\ history' = [r \in Runs |-> IF r \in active
                                     THEN Trim(Append(history[r], Flushed(r)))
                                     ELSE history[r]]
       /\ cumulative' = [r \in Runs |-> IF r \in active
                                        THEN Fold(cumulative[r], Flushed(r))
                                        ELSE cumulative[r]]
       /\ tloop' = IF active = {} THEN "wait" ELSE "write"
    /\ tick' = NoTick
    /\ lastTick' = tick
    /\ UNCHANGED <<kafka, consumer, open, historyCap, now, started, scraper, faults>>

\* Flush: every open window is stored, appended to its ring and folded into
\* the whole-run total, then the windows are reset.
Flush ==
    /\ tloop = "wait"
    /\ tick # NoTick
    /\ LET active == {r \in Runs : open[r].count > 0} IN
       /\ history' = [r \in Runs |-> IF r \in active
                                     THEN Trim(Append(history[r], Flushed(r)))
                                     ELSE history[r]]
       /\ cumulative' = [r \in Runs |-> IF r \in active
                                        THEN Fold(cumulative[r], Flushed(r))
                                        ELSE cumulative[r]]
       /\ tloop' = IF active = {} THEN "wait" ELSE "write"
    /\ open' = [r \in Runs |-> NoWindow]
    /\ tick' = NoTick
    /\ lastTick' = tick
    /\ UNCHANGED <<kafka, consumer, historyCap, now, started, scraper, faults>>

\* WriteSnapshots, as slow as the database; a failure is only logged and the
\* rows are gone.
Write ==
    /\ tloop = "write"
    /\ tloop' = "wait"
    /\ \/ UNCHANGED faults
       \/ Fault
    /\ UNCHANGED <<kafka, consumer, windows, clock, scraper>>

-----------------------------------------------------------------------------
(* GET /metrics/merged: AllMerged takes the lock for the ids and again for *)
(* each row.                                                               *)

NoSum == [count |-> 0, rejected |-> 0, timeouts |-> 0, dur |-> 0, hist |-> NoHist]

\* Mutant: the duration is that of the newest window, not the sum.
SumWindow_LastDur(t, f) ==
    [count |-> t.count + f.count,
     rejected |-> t.rejected + f.rejected,
     timeouts |-> t.timeouts + f.timeouts,
     dur |-> f.dur,
     hist |-> MergeHistograms(t.hist, f.hist)]

\* One round of MergedRecent's loop over the windows of the ring, which has
\* sums of its own.
SumWindow(t, f) ==
    [count |-> t.count + f.count,
     rejected |-> t.rejected + f.rejected,
     timeouts |-> t.timeouts + f.timeouts,
     dur |-> t.dur + f.dur,
     hist |-> MergeHistograms(t.hist, f.hist)]

\* The row made of the sums of n windows.
MergedRow(n, t) ==
    [windows |-> n, dur |-> t.dur, count |-> t.count, rejected |-> t.rejected,
     timeouts |-> t.timeouts, hist |-> t.hist]

\* The whole loop.
MergeWindows(slice) ==
    LET sum[i \in 0 .. Len(slice)] == IF i = 0 THEN NoSum ELSE SumWindow(sum[i - 1], slice[i])
    IN  MergedRow(Len(slice), sum[Len(slice)])

\* Mutant: the scoring path reads the bounded ring as well.
MergedRecent_Ring(r, n) ==
    LET len == Len(history[r])
    IN  MergeWindows(SubSeq(history[r], len - Min({IF n <= 0 THEN historyCap ELSE n, len}) + 1, len))

\* MergedRecent: the whole-run total, or the last n windows of the ring merged.
MergedRecent(r, n) ==
    IF n <= 0
    THEN cumulative[r]
    ELSE LET len == Len(history[r])
         IN  MergeWindows(SubSeq(history[r], len - Min({n, len}) + 1, len))

ScrapeIds ==
    /\ scrape = "idle"
    /\ scrape' = "rows"
    /\ ids' = {r \in Runs : history[r] # <<>>}
    /\ answer' = [r \in Runs |-> NoTotal]
    /\ before' = cumulative
    /\ UNCHANGED <<kafka, consumer, windows, clock, tloop, faults>>

ScrapeRow(r) ==
    /\ scrape = "rows"
    /\ r \in ids
    /\ ids' = ids \ {r}
    /\ answer' = [answer EXCEPT ![r] = MergedRecent(r, 0)]
    /\ UNCHANGED <<kafka, consumer, windows, clock, tloop, faults, scrape, before>>

ScrapeReply ==
    /\ scrape = "rows"
    /\ ids = {}
    /\ scrape' = "idle"
    /\ UNCHANGED <<kafka, consumer, windows, clock, tloop, faults, ids, answer, before>>

-----------------------------------------------------------------------------

\* The process crashes, or is stopped: main flushes nothing. Only the topic
\* and the committed offset survive.
Restart ==
    /\ Fault
    /\ pos' = committed
    /\ cons' = "fetch"
    /\ open' = [r \in Runs |-> NoWindow]
    /\ history' = [r \in Runs |-> <<>>]
    /\ cumulative' = [r \in Runs |-> NoTotal]
    /\ tick' = NoTick
    /\ tloop' = "wait"
    /\ scrape' = "idle"
    /\ ids' = {}
    /\ answer' = [r \in Runs |-> NoTotal]
    /\ seen' = <<>>
    /\ before' = [r \in Runs |-> NoTotal]
    /\ lastTick' = now
    /\ started' = now
    /\ UNCHANGED <<kafka, historyCap, ever, now>>

Consume == Fetch \/ Record \/ Commit
TickLoop == Flush \/ Write

Next ==
    \/ \E e \in Events : Produce(e)
    \/ Consume \/ FetchError \/ Rebalance
    \/ Advance
    \/ TickLoop
    \/ ScrapeIds
    \/ \E r \in Runs : ScrapeRow(r)
    \/ ScrapeReply
    \/ Restart

Spec == Init /\ [][Next]_vars

\* The two goroutines are scheduled and their requests return.
FairSpec == Spec /\ WF_vars(Consume) /\ WF_vars(TickLoop)

-----------------------------------------------------------------------------
(* Properties.                                                             *)

\* Deliveries of a run's events to this process, as indices of seen.
Delivered(r) == {i \in DOMAIN seen : log[seen[i]].run = r}

\* Whole-run scoring: however Record, Flush and the eviction of old windows
\* interleave, every event delivered to this process is in the total of its
\* own run or in its open window, exactly once, in every column and in its
\* histogram bucket. Runs are isolated from each other.
WholeRunConserved ==
    \A r \in Runs :
        /\ cumulative[r].count + open[r].count = Cardinality(Delivered(r))
        /\ cumulative[r].rejected + open[r].rejected
              = Cardinality({i \in Delivered(r) : log[seen[i]].result = "rejected"})
        /\ cumulative[r].timeouts + open[r].timeouts
              = Cardinality({i \in Delivered(r) : log[seen[i]].result = "timeout"})
        /\ \A l \in Lats :
              cumulative[r].hist[l] + open[r].hist[l]
                 = Cardinality({i \in Delivered(r) : log[seen[i]].lat = l})

\* The two ways to merge agree: until a window is evicted, MergedRecent's own
\* sums over the ring are, column by column, what Flush has accumulated window
\* by window, whether the request asks for as many windows as there are or more.
MergedPathsAgree ==
    \A r \in Runs : \A n \in 1 .. historyCap :
        n >= cumulative[r].windows => MergedRecent(r, n) = MergedRecent(r, 0)

\* A scrape that locks row by row is never older than its start: each row it
\* returns covers at least the windows flushed before the request came, and
\* no run is missing.
ScrapeIsFresh ==
    \A r \in Runs :
        scrape = "rows" /\ r \notin ids /\ before[r].windows > 0 =>
            before[r].count <= answer[r].count /\ answer[r].count <= cumulative[r].count

\* The durations a run is charged never overlap: their sum is at most the
\* time the ticker measured, although a window opened after its tick is given
\* a whole Window.
DurationWithinElapsed ==
    \A r \in Runs : cumulative[r].dur <= lastTick - started

\* Every message is recorded by this process or a later one, although crashes,
\* rebalances and failed commits fall between its fetch, its Record and its
\* commit, or the consumer goroutine has ended on an error it never recovers
\* from.
EventuallyRecorded ==
    \A o \in 1 .. MaxLog :
        (o <= Len(log)) ~>
            \/ o \in ever \cup {p \in DOMAIN log : log[p].run = Undecodable}
            \/ cons = "stopped"
=============================================================================
