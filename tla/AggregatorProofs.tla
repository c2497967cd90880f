-------------------------- MODULE AggregatorProofs --------------------------
(***************************************************************************)
(* The aggregator, for any runs, events, window length and ring capacity.  *)
(*                                                                         *)
(* Its four invariants and at-least-once consumption are proved here,      *)
(* each from what it needs: conservation from what the consumer keeps      *)
(* (KafkaInv) and what a window is (WindowInv); the durations from the     *)
(* grid on which the ticker fires (ClockInv); the scrape from totals that  *)
(* only grow while it runs (ScrapeInv); the two ways to merge by induction *)
(* over the windows of the ring (RingInv), which MergedRecent sums up with *)
(* a loop of its own.                                                      *)
(***************************************************************************)
EXTENDS Aggregator, LoopTheorems, FiniteSetTheorems, SequenceTheorems, TLAPS

Hists == [Lats -> Nat]
Windows == [start : Nat, count : Nat, rejected : Nat, timeouts : Nat, hist : Hists]
Rows == [dur : Nat, count : Nat, rejected : Nat, timeouts : Nat, hist : Hists]
Sums == [count : Nat, rejected : Nat, timeouts : Nat, dur : Nat, hist : Hists]
Totals == [windows : Nat, dur : Nat, count : Nat, rejected : Nat, timeouts : Nat, hist : Hists]

\* The consumer: it stays within the topic, and what it records it has decoded.
KafkaInv ==
    /\ log \in Seq(Events)
    /\ committed \in 0 .. Len(log)
    /\ pos \in 0 .. Len(log)
    /\ cons = "record" => pos \in 1 .. Len(log) /\ log[pos].run # Undecodable
    /\ seen \in Seq(Nat)
    /\ \A i \in 1 .. Len(seen) : seen[i] \in 1 .. Len(log)

\* The windows: one without events is empty in every column, and the last
\* window of a run with a total is still in its ring.
WindowInv ==
    /\ now \in Nat /\ tick \in Nat /\ lastTick \in Nat /\ started \in Nat
    /\ open \in [Runs -> Windows]
    /\ history \in [Runs -> Seq(Rows)]
    /\ cumulative \in [Runs -> Totals]
    /\ \A r \in Runs :
          /\ open[r].count = 0 => /\ open[r].rejected = 0 /\ open[r].timeouts = 0
                                  /\ \A l \in Lats : open[r].hist[l] = 0
          /\ cumulative[r].windows > 0 => history[r] # <<>>

\* The ring has room for a window.
CapInv == historyCap \in Nat \ {0}

\* The ticker fires on a grid of Window since the start, a tick waits at most
\* until the next flush, and a window is opened after the last flush's tick.
ClockInv ==
    /\ started <= lastTick /\ lastTick <= now
    /\ (lastTick - started) % Window = 0
    /\ tick # NoTick => lastTick < tick /\ tick <= now /\ (tick - started) % Window = 0
    /\ \A r \in Runs : open[r].count > 0 => lastTick <= open[r].start /\ open[r].start <= now

\* A scrape under way: the totals are at least those of its start.
ScrapeInv ==
    /\ before \in [Runs -> Totals]
    /\ answer \in [Runs -> Totals]
    /\ scrape = "rows" => \A r \in Runs :
          /\ before[r].count <= cumulative[r].count
          /\ r \notin ids /\ before[r].windows > 0 =>
                before[r].count <= answer[r].count /\ answer[r].count <= cumulative[r].count

-----------------------------------------------------------------------------
(* The operators.                                                          *)

\* The ring keeps its newest window.
LEMMA TrimKeeps ==
    ASSUME CapInv, NEW S, NEW ring \in Seq(S), ring # <<>>
    PROVE  Trim(ring) \in Seq(S) /\ Trim(ring) # <<>>
<1>0. Len(ring) \in Nat /\ Len(ring) > 0 /\ historyCap \in Nat \ {0}
  BY DEF CapInv
<1>1. CASE Len(ring) > historyCap
  <2>1. PICK m \in Int : m = Len(ring) - historyCap + 1 /\ 1 <= m /\ m <= Len(ring)
    <3>1. /\ Len(ring) - historyCap + 1 \in Int /\ 1 <= Len(ring) - historyCap + 1
          /\ Len(ring) - historyCap + 1 <= Len(ring)
      BY <1>0, <1>1
    <3> QED
      BY <3>1, Zenon
  <2>2. Trim(ring) = SubSeq(ring, m, Len(ring))
    BY <1>1, <2>1 DEF Trim
  <2>3. \A i \in m .. Len(ring) : ring[i] \in S
    BY <1>0, <2>1
  <2>4. /\ Trim(ring) \in Seq(S)
        /\ Len(Trim(ring)) = IF m <= Len(ring) THEN Len(ring) - m + 1 ELSE 0
    BY <1>0, <2>2, <2>3, SubSeqProperties
  <2>5. Len(Trim(ring)) > 0
    BY <1>0, <2>1, <2>4
  <2>6. Trim(ring) # <<>>
    BY <2>5
  <2> QED
    BY <2>4, <2>6
<1>2. CASE ~ (Len(ring) > historyCap)
  BY <1>2 DEF Trim
<1> QED
  BY <1>1, <1>2

\* Two ticks of the grid are a Window apart.
LEMMA TicksApart ==
    ASSUME NEW a \in Nat, NEW b \in Nat, a < b, a % Window = 0, b % Window = 0
    PROVE  a + Window <= b
<1> DEFINE p == a \div Window
           q == b \div Window
<1>1. p \in Int /\ q \in Int /\ Window \in Int /\ Window > 0
  BY AggregatorAssumption
<1>2. a = Window * p /\ b = Window * q
  BY AggregatorAssumption
<1> HIDE DEF p, q
<1>3. ASSUME p < q PROVE Window * p + Window <= Window * q
  BY <1>1, <1>3
<1>4. ASSUME q <= p PROVE Window * q <= Window * p
  BY <1>1, <1>4
<1> QED
  BY <1>1, <1>2, <1>3, <1>4

\* Adding an event to a window gives a window that is not empty.
LEMMA AddIsWindow ==
    ASSUME NEW w \in Windows, NEW e \in Events, now \in Nat
    PROVE  /\ Add(w, e) \in Windows
           /\ Add(w, e).count = w.count + 1
           /\ Add(w, e).start = IF w.count = 0 THEN now ELSE w.start
<1>1. w.hist \in Hists /\ w.start \in Nat /\ w.count \in Nat /\ w.rejected \in Nat /\ w.timeouts \in Nat
  BY DEF Windows
<1>2. (IF e.lat \in Lats THEN [w.hist EXCEPT ![e.lat] = @ + 1] ELSE w.hist) \in Hists
  BY <1>1 DEF Hists
<1>3. /\ w.rejected + (IF e.result = "rejected" THEN 1 ELSE 0) \in Nat
      /\ w.timeouts + (IF e.result = "timeout" THEN 1 ELSE 0) \in Nat
  BY <1>1
<1> QED
  BY <1>1, <1>2, <1>3 DEF Add, Windows

\* A window Flush stores is a row.
LEMMA FlushedIsRow ==
    ASSUME WindowInv, NEW r \in Runs
    PROVE  Flushed(r) \in Rows
<1>1. open[r] \in Windows /\ tick \in Nat /\ Window \in Nat
  BY AggregatorAssumption DEF WindowInv
<1>2. Duration(r) \in Nat
  BY <1>1 DEF Duration, Windows
<1> QED
  BY <1>1, <1>2 DEF Flushed, Rows, Windows

\* Folding a row into a total gives a total that is not smaller.
LEMMA FoldIsTotal ==
    ASSUME NEW t \in Totals, NEW w \in Rows
    PROVE  /\ Fold(t, w) \in Totals
           /\ Fold(t, w).windows > 0
           /\ Fold(t, w).count >= t.count
<1>1. /\ t.hist \in Hists /\ w.hist \in Hists
      /\ t.windows \in Nat /\ t.dur \in Nat /\ t.count \in Nat /\ t.rejected \in Nat /\ t.timeouts \in Nat
      /\ w.dur \in Nat /\ w.count \in Nat /\ w.rejected \in Nat /\ w.timeouts \in Nat
  BY DEF Totals, Rows
<1>2. MergeHistograms(t.hist, w.hist) \in Hists
  BY <1>1 DEF MergeHistograms, Hists
<1> QED
  BY <1>1, <1>2 DEF Fold, Totals

\* Empty values.
LEMMA EmptyValues == NoWindow \in Windows /\ NoTotal \in Totals /\ NoHist \in Hists
<1>1. NoHist \in Hists
  BY DEF NoHist, Hists
<1> QED
  BY <1>1 DEF NoWindow, Windows, NoTotal, Totals

\* Counting deliveries: one more, or none.
LEMMA OneMore ==
    ASSUME NEW n \in Nat, NEW A \in SUBSET (1 .. n)
    PROVE  Cardinality(A) \in Nat /\ Cardinality(A \cup {n + 1}) = Cardinality(A) + 1
<1>1. IsFiniteSet(1 .. n)
  BY FS_Interval
<1>2. IsFiniteSet(A)
  BY <1>1, FS_Subset
<1>3. n + 1 \notin A
  OBVIOUS
<1> QED
  BY <1>2, <1>3, FS_CardinalityType, FS_AddElement

-----------------------------------------------------------------------------
(* The consumer.                                                           *)

\* Crashes, rebalances and failed commits leave the consumer in the topic.
LEMMA KafkaStep == KafkaInv /\ [Next]_vars => KafkaInv'
<1> SUFFICES ASSUME KafkaInv, [Next]_vars PROVE KafkaInv'
  OBVIOUS
<1>0. /\ log \in Seq(Events) /\ Len(log) \in Nat /\ seen \in Seq(Nat) /\ Len(seen) \in Nat
      /\ pos \in 0 .. Len(log) /\ committed \in 0 .. Len(log)
      /\ \A i \in 1 .. Len(seen) : seen[i] \in 1 .. Len(log)
  BY DEF KafkaInv
<1>1. ASSUME NEW e \in Events, Produce(e) PROVE KafkaInv'
  <2>1. log' = Append(log, e) /\ UNCHANGED <<committed, pos, cons, seen>>
    BY <1>1 DEF Produce, consumer
  <2>2. /\ log' \in Seq(Events) /\ Len(log') = Len(log) + 1
        /\ \A i \in 1 .. Len(log) : log'[i] = log[i]
    BY <1>0, <2>1
  <2> QED
    BY <1>0, <2>1, <2>2 DEF KafkaInv
<1>2. CASE Fetch
  <2>1. /\ pos < Len(log) /\ pos' = pos + 1 /\ UNCHANGED <<log, committed, seen>>
        /\ cons' = "record" => log[pos'].run # Undecodable
    BY <1>2 DEF Fetch, kafka
  <2>2. pos' \in 1 .. Len(log)
    BY <1>0, <2>1
  <2> QED
    BY <1>0, <2>1, <2>2 DEF KafkaInv
<1>3. CASE Record
  <2>1. /\ pos \in 1 .. Len(log) /\ seen' = Append(seen, pos) /\ cons' = "commit"
        /\ UNCHANGED <<log, committed, pos>>
    BY <1>3 DEF Record, kafka, KafkaInv
  <2>2. /\ seen' \in Seq(Nat) /\ Len(seen') = Len(seen) + 1
        /\ \A i \in 1 .. Len(seen) : seen'[i] = seen[i]
        /\ seen'[Len(seen) + 1] = pos
    BY <1>0, <2>1
  <2>3. ASSUME NEW i \in 1 .. Len(seen') PROVE seen'[i] \in 1 .. Len(log)
    <3>1. i \in 1 .. Len(seen) \/ i = Len(seen) + 1
      BY <1>0, <2>2
    <3> QED
      BY <1>0, <2>1, <2>2, <3>1
  <2> QED
    BY <1>0, <2>1, <2>2, <2>3 DEF KafkaInv
<1>4. CASE Commit
  BY <1>0, <1>4 DEF Commit, KafkaInv
<1>5. CASE FetchError
  BY <1>0, <1>5 DEF FetchError, KafkaInv, kafka
<1>6. CASE Rebalance
  BY <1>0, <1>6 DEF Rebalance, KafkaInv, kafka
<1>7. CASE Restart
  <2>1. seen' = <<>> /\ pos' = committed /\ cons' = "fetch" /\ UNCHANGED <<log, committed>>
    BY <1>7 DEF Restart, kafka
  <2>2. seen' \in Seq(Nat) /\ Len(seen') = 0
    BY <2>1
  <2> QED
    BY <1>0, <2>1, <2>2 DEF KafkaInv
<1>8. CASE UNCHANGED <<log, committed, pos, cons, seen>>
  BY <1>8 DEF KafkaInv
<1>9. ASSUME \/ Advance \/ TickLoop \/ ScrapeIds \/ ScrapeReply \/ UNCHANGED vars
             \/ \E r \in Runs : ScrapeRow(r)
      PROVE  UNCHANGED <<log, committed, pos, cons, seen>>
  BY <1>9 DEF Advance, TickLoop, Flush, Write, ScrapeIds, ScrapeReply, ScrapeRow, vars, kafka, consumer
<1> QED
  BY <1>1, <1>2, <1>3, <1>4, <1>5, <1>6, <1>7, <1>8, <1>9 DEF Next, Consume

-----------------------------------------------------------------------------
(* The windows.                                                            *)

\* What Flush does to one run: a window with events goes to the ring and into
\* the total, and every window starts again.
LEMMA FlushOne ==
    ASSUME Flush, WindowInv, NEW r \in Runs
    PROVE  /\ open'[r] = NoWindow
           /\ open[r].count > 0 => /\ history'[r] = Trim(Append(history[r], Flushed(r)))
                                   /\ cumulative'[r] = Fold(cumulative[r], Flushed(r))
           /\ ~ (open[r].count > 0) => /\ history'[r] = history[r]
                                       /\ cumulative'[r] = cumulative[r]
  BY DEF Flush

\* Record, Flush and Restart are the steps that touch a window.
LEMMA WindowStep == KafkaInv /\ WindowInv /\ CapInv /\ [Next]_vars => WindowInv'
<1> SUFFICES ASSUME KafkaInv, WindowInv, CapInv, [Next]_vars PROVE WindowInv'
  OBVIOUS
<1>0. /\ now \in Nat /\ tick \in Nat /\ lastTick \in Nat /\ started \in Nat
      /\ open \in [Runs -> Windows] /\ history \in [Runs -> Seq(Rows)]
      /\ cumulative \in [Runs -> Totals]
  BY DEF WindowInv
<1>1. CASE Record
  <2>1. /\ log[pos] \in Events /\ cons = "record"
        /\ UNCHANGED <<now, tick, lastTick, started, history, cumulative>>
        /\ \/ log[pos].run \in Runs /\ open' = [open EXCEPT ![log[pos].run] = Add(@, log[pos])]
           \/ UNCHANGED open
    BY <1>1 DEF Record, KafkaInv, clock
  <2>2. CASE UNCHANGED open
    BY <2>1, <2>2 DEF WindowInv
  <2>3. CASE log[pos].run \in Runs /\ open' = [open EXCEPT ![log[pos].run] = Add(@, log[pos])]
    <3>1. PICK q \in Runs, w \in Windows : /\ w.count # 0
                                           /\ open' = [open EXCEPT ![q] = w]
      <4>1. open[log[pos].run] \in Windows
        BY <1>0, <2>3
      <4>2. /\ Add(open[log[pos].run], log[pos]) \in Windows
            /\ Add(open[log[pos].run], log[pos]).count = open[log[pos].run].count + 1
        BY <1>0, <2>1, <4>1, AddIsWindow
      <4>3. open[log[pos].run].count \in Nat
        BY <4>1 DEF Windows
      <4>4. Add(open[log[pos].run], log[pos]).count # 0
        BY <4>2, <4>3
      <4> QED
        BY <2>3, <4>2, <4>4
    <3>2. open' \in [Runs -> Windows]
      BY <1>0, <3>1
    <3>3. ASSUME NEW r \in Runs, open'[r].count = 0 PROVE open'[r] = open[r]
      BY <1>0, <3>1, <3>3
    <3> QED
      BY <1>0, <2>1, <3>2, <3>3 DEF WindowInv
  <2> QED
    BY <2>1, <2>2, <2>3
<1>2. CASE Flush
  <2>1. /\ open' = [r \in Runs |-> NoWindow] /\ tick' = NoTick /\ lastTick' = tick
        /\ UNCHANGED <<now, started>>
        /\ DOMAIN history' = Runs /\ DOMAIN cumulative' = Runs
        /\ history' = [r \in Runs |-> history'[r]]
        /\ cumulative' = [r \in Runs |-> cumulative'[r]]
    BY <1>2 DEF Flush
  <2>2. ASSUME NEW r \in Runs
        PROVE  /\ history'[r] \in Seq(Rows) /\ cumulative'[r] \in Totals
               /\ cumulative'[r].windows > 0 => history'[r] # <<>>
    <3>0. history[r] \in Seq(Rows) /\ cumulative[r] \in Totals /\ Flushed(r) \in Rows
      BY <1>0, FlushedIsRow
    <3>1. CASE open[r].count > 0
      <4>1. Append(history[r], Flushed(r)) \in Seq(Rows) /\ Append(history[r], Flushed(r)) # <<>>
        <5>1. PICK x \in Rows : x = Flushed(r)
          BY <3>0
        <5>2. PICK h \in Seq(Rows) : h = history[r]
          BY <3>0
        <5>3. Append(h, x) \in Seq(Rows) /\ Append(h, x) # <<>>
          BY AppendProperties
        <5> QED
          BY <5>1, <5>2, <5>3
      <4>2. history'[r] \in Seq(Rows) /\ history'[r] # <<>>
        BY <1>2, <3>1, <4>1, FlushOne, TrimKeeps
      <4>3. cumulative'[r] \in Totals
        BY <1>2, <3>0, <3>1, FlushOne, FoldIsTotal
      <4> QED
        BY <4>2, <4>3
    <3>2. CASE ~ (open[r].count > 0)
      BY <1>2, <3>0, <3>2, FlushOne DEF WindowInv
    <3> QED
      BY <3>1, <3>2
  <2>3. history' \in [Runs -> Seq(Rows)] /\ cumulative' \in [Runs -> Totals]
    BY <2>1, <2>2
  <2>4. open' \in [Runs -> Windows] /\ \A r \in Runs : open'[r] = NoWindow
    BY <2>1, EmptyValues
  <2>5. NoWindow.rejected = 0 /\ NoWindow.timeouts = 0 /\ \A l \in Lats : NoWindow.hist[l] = 0
    BY DEF NoWindow, NoHist
  <2> QED
    BY <1>0, <2>1, <2>2, <2>3, <2>4, <2>5 DEF WindowInv, NoTick
<1>3. CASE Restart
  <2>1. /\ open' = [r \in Runs |-> NoWindow] /\ history' = [r \in Runs |-> <<>>]
        /\ cumulative' = [r \in Runs |-> NoTotal]
        /\ tick' = NoTick /\ lastTick' = now /\ started' = now /\ now' = now
    BY <1>3 DEF Restart
  <2>2. /\ NoWindow.rejected = 0 /\ NoWindow.timeouts = 0 /\ \A l \in Lats : NoWindow.hist[l] = 0
        /\ NoTotal.windows = 0
    BY DEF NoWindow, NoHist, NoTotal
  <2>3. open' \in [Runs -> Windows] /\ cumulative' \in [Runs -> Totals] /\ history' \in [Runs -> Seq(Rows)]
    BY <2>1, EmptyValues
  <2> QED
    BY <1>0, <2>1, <2>2, <2>3 DEF WindowInv, NoTick
<1>4. CASE Advance
  <2>1. /\ now' = now + 1 /\ (tick' = now' \/ tick' = tick)
        /\ UNCHANGED <<lastTick, started, open, history, cumulative>>
    BY <1>4 DEF Advance, windows
  <2>2. now' \in Nat /\ tick' \in Nat
    BY <1>0, <2>1
  <2> QED
    BY <1>0, <2>1, <2>2 DEF WindowInv
<1>5. ASSUME UNCHANGED <<now, tick, lastTick, started, open, history, cumulative>> PROVE WindowInv'
  BY <1>5 DEF WindowInv
<1>6. ASSUME \/ Fetch \/ Commit \/ FetchError \/ Rebalance \/ Write
             \/ ScrapeIds \/ ScrapeReply \/ UNCHANGED vars
             \/ (\E r \in Runs : ScrapeRow(r)) \/ (\E e \in Events : Produce(e))
      PROVE  UNCHANGED <<now, tick, lastTick, started, open, history, cumulative>>
  BY <1>6 DEF Fetch, Commit, FetchError, Rebalance, Write, ScrapeIds, ScrapeReply, ScrapeRow,
              Produce, vars, windows, clock
<1> QED
  BY <1>1, <1>2, <1>3, <1>4, <1>5, <1>6 DEF Next, Consume, TickLoop

\* The capacity is set when the aggregator is made.
LEMMA CapFixed == [Next]_vars => historyCap' = historyCap
  BY DEF Next, Consume, TickLoop, Fetch, Record, Commit, FetchError, Rebalance, Advance, Flush, Write,
         ScrapeIds, ScrapeRow, ScrapeReply, Produce, Restart, vars, windows

-----------------------------------------------------------------------------
(* The clock.                                                              *)

\* The charge of one flush fits between its tick and the one before.
LEMMA ChargeFits ==
    ASSUME WindowInv, ClockInv, tick # NoTick, NEW r \in Runs, open[r].count > 0
    PROVE  Duration(r) <= tick - lastTick
<1>1. /\ tick \in Nat /\ lastTick \in Nat /\ started \in Nat /\ Window \in Nat
      /\ open[r].start \in Nat /\ lastTick <= open[r].start
      /\ lastTick < tick /\ started <= lastTick
      /\ (lastTick - started) % Window = 0 /\ (tick - started) % Window = 0
  BY AggregatorAssumption DEF WindowInv, ClockInv, Windows
<1>2. PICK a \in Nat, b \in Nat : a = lastTick - started /\ b = tick - started
  <2>1. lastTick - started \in Nat /\ tick - started \in Nat
    BY <1>1
  <2> QED
    BY <2>1
<1>3. a < b /\ a % Window = 0 /\ b % Window = 0
  BY <1>1, <1>2
<1>4. a + Window <= b
  BY <1>3, TicksApart
<1>5. Window <= tick - lastTick
  BY <1>1, <1>2, <1>4
<1> QED
  BY <1>1, <1>5 DEF Duration

\* Ticks stay on the grid, windows open after the last one, and what is
\* charged stays within what the ticker measured.
LEMMA ClockStep ==
    KafkaInv /\ WindowInv /\ ClockInv /\ DurationWithinElapsed /\ [Next]_vars
        => ClockInv' /\ DurationWithinElapsed'
<1> SUFFICES ASSUME KafkaInv, WindowInv, ClockInv, DurationWithinElapsed, [Next]_vars
             PROVE  ClockInv' /\ DurationWithinElapsed'
  OBVIOUS
<1>0. /\ now \in Nat /\ tick \in Nat /\ lastTick \in Nat /\ started \in Nat
      /\ open \in [Runs -> Windows] /\ cumulative \in [Runs -> Totals]
      /\ started <= lastTick /\ lastTick <= now /\ (lastTick - started) % Window = 0
      /\ Window \in Nat \ {0}
  BY AggregatorAssumption DEF WindowInv, ClockInv
<1>1. CASE Record
  <2>1. /\ log[pos] \in Events
        /\ UNCHANGED <<now, tick, lastTick, started, cumulative>>
        /\ \/ log[pos].run \in Runs /\ open' = [open EXCEPT ![log[pos].run] = Add(@, log[pos])]
           \/ UNCHANGED open
    BY <1>1 DEF Record, KafkaInv, clock
  <2>2. ASSUME NEW r \in Runs, open'[r].count > 0
        PROVE  lastTick <= open'[r].start /\ open'[r].start <= now
    <3>1. CASE open'[r] = open[r]
      BY <2>2, <3>1 DEF ClockInv
    <3>2. CASE open'[r] = Add(open[r], log[pos])
      <4>1. open[r] \in Windows /\ open[r].count \in Nat
        BY <1>0 DEF Windows
      <4>2. open'[r].start = IF open[r].count = 0 THEN now ELSE open[r].start
        BY <1>0, <2>1, <3>2, <4>1, AddIsWindow
      <4>3. open[r].count > 0 => lastTick <= open[r].start /\ open[r].start <= now
        BY DEF ClockInv
      <4> QED
        BY <1>0, <4>1, <4>2, <4>3
    <3> QED
      BY <1>0, <2>1, <3>1, <3>2
  <2> QED
    BY <2>1, <2>2 DEF ClockInv, DurationWithinElapsed
<1>2. CASE Flush
  <2>1. /\ tick # NoTick /\ tick' = NoTick /\ lastTick' = tick /\ UNCHANGED <<now, started>>
        /\ open' = [r \in Runs |-> NoWindow]
    BY <1>2 DEF Flush
  <2>2. lastTick < tick /\ tick <= now /\ (tick - started) % Window = 0
    BY <2>1 DEF ClockInv
  <2>3. ClockInv'
    <3>1. NoWindow.count = 0
      BY DEF NoWindow
    <3>2. \A r \in Runs : ~ (open'[r].count > 0)
      BY <2>1, <3>1
    <3>3. started' <= lastTick' /\ lastTick' <= now' /\ (lastTick' - started') % Window = 0
      BY <1>0, <2>1, <2>2
    <3> QED
      BY <2>1, <3>2, <3>3 DEF ClockInv
  <2>4. ASSUME NEW r \in Runs PROVE cumulative'[r].dur <= tick - started
    <3>1. cumulative[r].dur <= lastTick - started /\ cumulative[r].dur \in Nat
      BY <1>0 DEF DurationWithinElapsed, Totals
    <3>2. CASE open[r].count > 0
      <4>1. cumulative'[r] = Fold(cumulative[r], Flushed(r))
        BY <1>2, <3>2, FlushOne
      <4>2. cumulative'[r].dur = cumulative[r].dur + Duration(r)
        BY <4>1 DEF Fold, Flushed
      <4>3. Duration(r) \in Int
        BY <1>0 DEF Duration, Windows
      <4>4. Duration(r) <= tick - lastTick
        BY <2>1, <3>2, ChargeFits
      <4> QED
        BY <1>0, <3>1, <4>2, <4>3, <4>4
    <3>3. CASE ~ (open[r].count > 0)
      <4>1. cumulative'[r] = cumulative[r]
        BY <1>2, <3>3, FlushOne
      <4> QED
        BY <1>0, <2>2, <3>1, <4>1
    <3> QED
      BY <3>2, <3>3
  <2> QED
    BY <2>1, <2>3, <2>4 DEF DurationWithinElapsed
<1>3. CASE Restart
  <2>1. /\ open' = [r \in Runs |-> NoWindow] /\ cumulative' = [r \in Runs |-> NoTotal]
        /\ tick' = NoTick /\ lastTick' = now /\ started' = now /\ now' = now
    BY <1>3 DEF Restart
  <2>2. NoWindow.count = 0 /\ NoTotal.dur = 0
    BY DEF NoWindow, NoTotal
  <2>3. now - now = 0 /\ 0 % Window = 0
    BY <1>0
  <2> QED
    BY <1>0, <2>1, <2>2, <2>3 DEF ClockInv, DurationWithinElapsed
<1>4. CASE Advance
  <2>1. /\ now' = now + 1
        /\ tick' = IF (now' - started) % Window = 0 /\ tick = NoTick THEN now' ELSE tick
        /\ UNCHANGED <<lastTick, started, open, cumulative>>
    BY <1>4 DEF Advance, windows
  <2>2. tick' # NoTick => lastTick < tick' /\ tick' <= now' /\ (tick' - started) % Window = 0
    BY <1>0, <2>1 DEF ClockInv, NoTick
  <2>3. \A r \in Runs : open[r].count > 0 => lastTick <= open[r].start /\ open[r].start <= now'
    BY <1>0, <2>1 DEF ClockInv, Windows
  <2>4. lastTick <= now'
    BY <1>0, <2>1
  <2> QED
    BY <1>0, <2>1, <2>2, <2>3, <2>4 DEF ClockInv, DurationWithinElapsed
<1>5. ASSUME UNCHANGED <<now, tick, lastTick, started, open, cumulative>>
      PROVE  ClockInv' /\ DurationWithinElapsed'
  BY <1>5 DEF ClockInv, DurationWithinElapsed
<1>6. ASSUME \/ Fetch \/ Commit \/ FetchError \/ Rebalance \/ Write
             \/ ScrapeIds \/ ScrapeReply \/ UNCHANGED vars
             \/ (\E r \in Runs : ScrapeRow(r)) \/ (\E e \in Events : Produce(e))
      PROVE  UNCHANGED <<now, tick, lastTick, started, open, cumulative>>
  BY <1>6 DEF Fetch, Commit, FetchError, Rebalance, Write, ScrapeIds, ScrapeReply, ScrapeRow,
              Produce, vars, windows, clock
<1> QED
  BY <1>1, <1>2, <1>3, <1>4, <1>5, <1>6 DEF Next, Consume, TickLoop

-----------------------------------------------------------------------------
(* The scrape.                                                             *)

\* A scrape that runs while windows are flushed keeps its rows between the
\* totals of its start and those of now.
LEMMA ScrapeStep == WindowInv /\ ScrapeInv /\ [Next]_vars => ScrapeInv'
<1> SUFFICES ASSUME WindowInv, ScrapeInv, [Next]_vars PROVE ScrapeInv'
  OBVIOUS
<1>0. /\ cumulative \in [Runs -> Totals] /\ before \in [Runs -> Totals] /\ answer \in [Runs -> Totals]
      /\ \A r \in Runs : /\ cumulative[r].count \in Nat /\ before[r].count \in Nat
                         /\ answer[r].count \in Nat
  BY DEF WindowInv, ScrapeInv, Totals
\* The totals only grow while a scrape runs.
<1>1. ASSUME UNCHANGED <<scrape, ids, answer, before>>,
             \A r \in Runs : /\ cumulative'[r].count \in Nat
                             /\ cumulative[r].count <= cumulative'[r].count
      PROVE  ScrapeInv'
  <2> SUFFICES ASSUME scrape = "rows", NEW r \in Runs
               PROVE  /\ before[r].count <= cumulative'[r].count
                      /\ r \notin ids /\ before[r].windows > 0 =>
                            /\ before[r].count <= answer[r].count
                            /\ answer[r].count <= cumulative'[r].count
    BY <1>0, <1>1 DEF ScrapeInv
  <2>1. /\ before[r].count <= cumulative[r].count
        /\ r \notin ids /\ before[r].windows > 0 =>
              before[r].count <= answer[r].count /\ answer[r].count <= cumulative[r].count
    BY DEF ScrapeInv
  <2> QED
    BY <1>0, <1>1, <2>1
<1>2. CASE Flush
  <2>1. UNCHANGED <<scrape, ids, answer, before>>
    BY <1>2 DEF Flush, scraper
  <2>2. ASSUME NEW r \in Runs
        PROVE  cumulative'[r].count \in Nat /\ cumulative[r].count <= cumulative'[r].count
    <3>1. CASE open[r].count > 0
      <4>1. cumulative[r] \in Totals /\ Flushed(r) \in Rows
        BY <1>0, FlushedIsRow
      <4>2. Fold(cumulative[r], Flushed(r)) \in Totals
            /\ Fold(cumulative[r], Flushed(r)).count >= cumulative[r].count
        BY <4>1, FoldIsTotal
      <4>3. Fold(cumulative[r], Flushed(r)).count \in Nat
        BY <4>2 DEF Totals
      <4> QED
        BY <1>0, <1>2, <3>1, <4>2, <4>3, FlushOne
    <3>2. CASE ~ (open[r].count > 0)
      BY <1>0, <1>2, <3>2, FlushOne
    <3> QED
      BY <3>1, <3>2
  <2> QED
    BY <1>1, <2>1, <2>2
<1>3. CASE ScrapeIds
  <2>1. /\ ids' = {r \in Runs : history[r] # <<>>} /\ answer' = [r \in Runs |-> NoTotal]
        /\ before' = cumulative /\ cumulative' = cumulative
    BY <1>3 DEF ScrapeIds, windows
  <2>2. answer' \in [Runs -> Totals]
    BY <2>1, EmptyValues
  <2>3. \A r \in Runs : r \notin ids' => ~ (before'[r].windows > 0)
    BY <2>1 DEF WindowInv
  <2> QED
    BY <1>0, <2>1, <2>2, <2>3 DEF ScrapeInv
<1>4. ASSUME NEW q \in Runs, ScrapeRow(q) PROVE ScrapeInv'
  <2>1. /\ scrape = "rows" /\ ids' = ids \ {q} /\ answer' = [answer EXCEPT ![q] = MergedRecent(q, 0)]
        /\ UNCHANGED <<cumulative, before, scrape>>
    BY <1>4 DEF ScrapeRow, windows
  <2>2. MergedRecent(q, 0) = cumulative[q]
    BY DEF MergedRecent
  <2>3. answer' \in [Runs -> Totals] /\ answer'[q] = cumulative[q]
        /\ \A r \in Runs \ {q} : answer'[r] = answer[r]
    BY <1>0, <2>1, <2>2
  <2> SUFFICES ASSUME NEW r \in Runs
               PROVE  /\ before[r].count <= cumulative[r].count
                      /\ r \notin ids' /\ before[r].windows > 0 =>
                            /\ before[r].count <= answer'[r].count
                            /\ answer'[r].count <= cumulative[r].count
    BY <1>0, <2>1, <2>3 DEF ScrapeInv
  <2>4. /\ before[r].count <= cumulative[r].count
        /\ r \notin ids /\ before[r].windows > 0 =>
              before[r].count <= answer[r].count /\ answer[r].count <= cumulative[r].count
    BY <2>1 DEF ScrapeInv
  <2>5. CASE r = q
    BY <1>0, <2>3, <2>4, <2>5
  <2>6. CASE r # q
    BY <2>1, <2>3, <2>4, <2>6
  <2> QED
    BY <2>5, <2>6
<1>5. CASE ScrapeReply
  BY <1>0, <1>5 DEF ScrapeReply, ScrapeInv
<1>6. CASE Restart
  <2>1. /\ scrape' = "idle" /\ answer' = [r \in Runs |-> NoTotal] /\ before' = [r \in Runs |-> NoTotal]
    BY <1>6 DEF Restart
  <2>2. answer' \in [Runs -> Totals] /\ before' \in [Runs -> Totals]
    BY <2>1, EmptyValues
  <2> QED
    BY <2>1, <2>2 DEF ScrapeInv
<1>7. ASSUME \/ Consume \/ FetchError \/ Rebalance \/ Advance \/ Write \/ UNCHANGED vars
             \/ (\E e \in Events : Produce(e))
      PROVE  UNCHANGED <<scrape, ids, answer, before, cumulative>>
  BY <1>7 DEF Consume, Fetch, Record, Commit, FetchError, Rebalance, Advance, Write, Produce,
              vars, windows, scraper
<1>8. ASSUME UNCHANGED <<scrape, ids, answer, before, cumulative>> PROVE ScrapeInv'
  BY <1>8 DEF ScrapeInv
<1> QED
  BY <1>2, <1>3, <1>4, <1>5, <1>6, <1>7, <1>8 DEF Next, TickLoop

-----------------------------------------------------------------------------
(* Conservation.                                                           *)

\* The columns of a run's total and open window, as one event changes them.
LEMMA AddCounts ==
    ASSUME NEW w \in Windows, NEW e \in Events
    PROVE  /\ Add(w, e).count = w.count + 1
           /\ Add(w, e).rejected = IF e.result = "rejected" THEN w.rejected + 1 ELSE w.rejected
           /\ Add(w, e).timeouts = IF e.result = "timeout" THEN w.timeouts + 1 ELSE w.timeouts
           /\ \A l \in Lats : Add(w, e).hist[l] = IF e.lat = l THEN w.hist[l] + 1 ELSE w.hist[l]
<1>1. w.hist \in [Lats -> Nat] /\ w.rejected \in Nat /\ w.timeouts \in Nat
  BY DEF Windows, Hists
<1> QED
  BY <1>1 DEF Add

\* A flush moves the columns of a window to the total and leaves their sum.
LEMMA FlushConserves ==
    ASSUME Flush, WindowInv, NEW r \in Runs
    PROVE  /\ cumulative'[r].count + open'[r].count = cumulative[r].count + open[r].count
           /\ cumulative'[r].rejected + open'[r].rejected = cumulative[r].rejected + open[r].rejected
           /\ cumulative'[r].timeouts + open'[r].timeouts = cumulative[r].timeouts + open[r].timeouts
           /\ \A l \in Lats : cumulative'[r].hist[l] + open'[r].hist[l]
                                 = cumulative[r].hist[l] + open[r].hist[l]
<1>1. /\ open[r].count \in Nat /\ open[r].rejected \in Nat /\ open[r].timeouts \in Nat
      /\ open[r].hist \in [Lats -> Nat]
      /\ cumulative[r].count \in Nat /\ cumulative[r].rejected \in Nat
      /\ cumulative[r].timeouts \in Nat /\ cumulative[r].hist \in [Lats -> Nat]
  <2>1. open[r] \in Windows /\ cumulative[r] \in Totals
    BY DEF WindowInv
  <2> QED
    BY <2>1 DEF Windows, Totals, Hists
<1>2. /\ open'[r].count = 0 /\ open'[r].rejected = 0 /\ open'[r].timeouts = 0
      /\ \A l \in Lats : open'[r].hist[l] = 0
  BY FlushOne DEF NoWindow, NoHist
<1>3. CASE open[r].count > 0
  <2>1. cumulative'[r] = Fold(cumulative[r], Flushed(r))
    BY <1>3, FlushOne
  <2>2. /\ cumulative'[r].count = cumulative[r].count + open[r].count
        /\ cumulative'[r].rejected = cumulative[r].rejected + open[r].rejected
        /\ cumulative'[r].timeouts = cumulative[r].timeouts + open[r].timeouts
        /\ \A l \in Lats : cumulative'[r].hist[l] = cumulative[r].hist[l] + open[r].hist[l]
    BY <2>1 DEF Fold, Flushed, MergeHistograms
  <2> QED
    BY <1>1, <1>2, <2>2
<1>4. CASE ~ (open[r].count > 0)
  <2>1. cumulative'[r] = cumulative[r] /\ open[r].count = 0
    BY <1>1, <1>4, FlushOne
  <2>2. /\ open[r].rejected = 0 /\ open[r].timeouts = 0
        /\ \A l \in Lats : open[r].hist[l] = 0
    BY <2>1 DEF WindowInv
  <2> QED
    BY <1>1, <1>2, <2>1, <2>2
<1> QED
  BY <1>3, <1>4

\* A run's deliveries of the events in C, and the events each column counts.
Hits(r, C) == {i \in Delivered(r) : log[seen[i]] \in C}
Rejects == {e \in Events : e.result = "rejected"}
Timeouts == {e \in Events : e.result = "timeout"}
AtLat(l) == {e \in Events : e.lat = l}

Conserved ==
    \A r \in Runs :
        /\ cumulative[r].count + open[r].count = Cardinality(Hits(r, Events))
        /\ cumulative[r].rejected + open[r].rejected = Cardinality(Hits(r, Rejects))
        /\ cumulative[r].timeouts + open[r].timeouts = Cardinality(Hits(r, Timeouts))
        /\ \A l \in Lats : cumulative[r].hist[l] + open[r].hist[l] = Cardinality(Hits(r, AtLat(l)))

\* The property, said with these sets.
LEMMA ConservedIsWholeRun == KafkaInv /\ Conserved => WholeRunConserved
<1> SUFFICES ASSUME KafkaInv, Conserved, NEW r \in Runs
             PROVE  /\ Delivered(r) = Hits(r, Events)
                    /\ {i \in Delivered(r) : log[seen[i]].result = "rejected"} = Hits(r, Rejects)
                    /\ {i \in Delivered(r) : log[seen[i]].result = "timeout"} = Hits(r, Timeouts)
                    /\ \A l \in Lats : {i \in Delivered(r) : log[seen[i]].lat = l} = Hits(r, AtLat(l))
  BY DEF Conserved, WholeRunConserved
<1>1. \A i \in Delivered(r) : log[seen[i]] \in Events
  <2> SUFFICES ASSUME NEW i \in Delivered(r) PROVE log[seen[i]] \in Events
    OBVIOUS
  <2>1. i \in 1 .. Len(seen)
    BY DEF Delivered, KafkaInv
  <2>2. seen[i] \in 1 .. Len(log) /\ log \in Seq(Events)
    BY <2>1 DEF KafkaInv
  <2> QED
    BY <2>2
<1>2. Delivered(r) = Hits(r, Events)
  BY <1>1 DEF Hits
<1>3. {i \in Delivered(r) : log[seen[i]].result = "rejected"} = Hits(r, Rejects)
  BY <1>1 DEF Hits, Rejects
<1>4. {i \in Delivered(r) : log[seen[i]].result = "timeout"} = Hits(r, Timeouts)
  BY <1>1 DEF Hits, Timeouts
<1>5. ASSUME NEW l \in Lats PROVE {i \in Delivered(r) : log[seen[i]].lat = l} = Hits(r, AtLat(l))
  BY <1>1 DEF Hits, AtLat
<1> QED
  BY <1>2, <1>3, <1>4, <1>5

\* The deliveries of a run after one more Record.
LEMMA DeliveredGrows ==
    ASSUME KafkaInv, Record, NEW r \in Runs, NEW C
    PROVE  /\ Cardinality(Hits(r, C)) \in Nat
           /\ Cardinality(Hits(r, C)') = IF log[pos].run = r /\ log[pos] \in C
                                         THEN Cardinality(Hits(r, C)) + 1
                                         ELSE Cardinality(Hits(r, C))
<1>1. seen' = Append(seen, pos) /\ log' = log /\ pos \in Nat
  BY DEF Record, kafka, KafkaInv
<1>2. /\ seen \in Seq(Nat) /\ Len(seen) \in Nat /\ Len(seen') = Len(seen) + 1
      /\ \A i \in 1 .. Len(seen) : seen'[i] = seen[i]
      /\ seen'[Len(seen) + 1] = pos
      /\ DOMAIN seen = 1 .. Len(seen) /\ DOMAIN seen' = 1 .. Len(seen) + 1
  BY <1>1 DEF KafkaInv
<1>3. Delivered(r)' = {i \in DOMAIN seen' : log[seen'[i]].run = r}
  BY <1>1 DEF Delivered
<1>4. \A i \in 1 .. Len(seen) : i \in Delivered(r)' <=> i \in Delivered(r)
  BY <1>2, <1>3 DEF Delivered
<1>5. Len(seen) + 1 \in Delivered(r)' <=> log[pos].run = r
  BY <1>2, <1>3
<1>6. Len(seen) + 1 \notin Delivered(r) /\ Delivered(r) \subseteq 1 .. Len(seen)
  BY <1>2 DEF Delivered
<1>7. \A i \in Delivered(r)' : i \in 1 .. Len(seen) \/ i = Len(seen) + 1
  BY <1>2, <1>3
<1>8. Hits(r, C)' = IF log[pos].run = r /\ log[pos] \in C
                    THEN Hits(r, C) \cup {Len(seen) + 1}
                    ELSE Hits(r, C)
  BY <1>1, <1>2, <1>4, <1>5, <1>6, <1>7 DEF Hits
<1>9. Hits(r, C) \in SUBSET (1 .. Len(seen))
  BY <1>6 DEF Hits
<1> QED
  BY <1>2, <1>8, <1>9, OneMore

\* Only Record and Restart change what was delivered, and only Record, Flush
\* and Restart the columns.
LEMMA ConservedStep == KafkaInv /\ WindowInv /\ Conserved /\ [Next]_vars => Conserved'
<1> SUFFICES ASSUME KafkaInv, WindowInv, Conserved, [Next]_vars PROVE Conserved'
  OBVIOUS
<1>0. ASSUME NEW r \in Runs
      PROVE  /\ open[r] \in Windows
             /\ open[r].count \in Nat /\ open[r].rejected \in Nat /\ open[r].timeouts \in Nat
             /\ cumulative[r].count \in Nat /\ cumulative[r].rejected \in Nat
             /\ cumulative[r].timeouts \in Nat
             /\ \A l \in Lats : open[r].hist[l] \in Nat /\ cumulative[r].hist[l] \in Nat
  <2>1. open[r] \in Windows /\ cumulative[r] \in Totals
    BY DEF WindowInv
  <2> QED
    BY <2>1 DEF Windows, Totals, Hists
<1>1. CASE Record
  <2>0. PICK e \in Events : e = log[pos]
    BY <1>1 DEF Record, KafkaInv
  <2>1. /\ cumulative' = cumulative
        /\ \/ e.run \in Runs /\ open' = [open EXCEPT ![e.run] = Add(@, e)]
           \/ e.run = Anonymous /\ open' = open
    BY <1>1, <2>0 DEF Record
  <2> SUFFICES ASSUME NEW r \in Runs
               PROVE  /\ cumulative'[r].count + open'[r].count = Cardinality(Hits(r, Events)')
                      /\ cumulative'[r].rejected + open'[r].rejected = Cardinality(Hits(r, Rejects)')
                      /\ cumulative'[r].timeouts + open'[r].timeouts = Cardinality(Hits(r, Timeouts)')
                      /\ \A l \in Lats : cumulative'[r].hist[l] + open'[r].hist[l]
                                            = Cardinality(Hits(r, AtLat(l))')
    BY DEF Conserved
  <2>2. /\ cumulative[r].count + open[r].count = Cardinality(Hits(r, Events))
        /\ cumulative[r].rejected + open[r].rejected = Cardinality(Hits(r, Rejects))
        /\ cumulative[r].timeouts + open[r].timeouts = Cardinality(Hits(r, Timeouts))
        /\ \A l \in Lats : cumulative[r].hist[l] + open[r].hist[l] = Cardinality(Hits(r, AtLat(l)))
    BY DEF Conserved
  <2>3. CASE e.run = r
    <3>1. open'[r] = Add(open[r], e)
      BY <2>1, <2>3, AggregatorAssumption DEF WindowInv
    <3>2. /\ open'[r].count = open[r].count + 1
          /\ open'[r].rejected = IF e \in Rejects THEN open[r].rejected + 1 ELSE open[r].rejected
          /\ open'[r].timeouts = IF e \in Timeouts THEN open[r].timeouts + 1 ELSE open[r].timeouts
          /\ \A l \in Lats : open'[r].hist[l]
                                = IF e \in AtLat(l) THEN open[r].hist[l] + 1 ELSE open[r].hist[l]
      BY <1>0, <3>1, AddCounts DEF Rejects, Timeouts, AtLat
    <3>3. ASSUME NEW C
          PROVE  Cardinality(Hits(r, C)') = IF e \in C THEN Cardinality(Hits(r, C)) + 1
                                                       ELSE Cardinality(Hits(r, C))
      BY <1>1, <2>0, <2>3, DeliveredGrows
    <3>4. cumulative'[r].count + open'[r].count = Cardinality(Hits(r, Events)')
      BY <1>0, <2>1, <2>2, <3>2, <3>3
    <3>5. cumulative'[r].rejected + open'[r].rejected = Cardinality(Hits(r, Rejects)')
      BY <1>0, <2>1, <2>2, <3>2, <3>3
    <3>6. cumulative'[r].timeouts + open'[r].timeouts = Cardinality(Hits(r, Timeouts)')
      BY <1>0, <2>1, <2>2, <3>2, <3>3
    <3>7. ASSUME NEW l \in Lats
          PROVE  cumulative'[r].hist[l] + open'[r].hist[l] = Cardinality(Hits(r, AtLat(l))')
      BY <1>0, <2>1, <2>2, <3>2, <3>3
    <3> QED
      BY <3>4, <3>5, <3>6, <3>7
  <2>4. CASE e.run # r
    <3>1. open'[r] = open[r] /\ cumulative'[r] = cumulative[r]
      BY <2>1, <2>4 DEF WindowInv
    <3>2. ASSUME NEW C PROVE Cardinality(Hits(r, C)') = Cardinality(Hits(r, C))
      BY <1>1, <2>0, <2>4, DeliveredGrows
    <3> QED
      BY <2>2, <3>1, <3>2
  <2> QED
    BY <2>3, <2>4
\* Steps that deliver nothing.
<1>2. ASSUME \A r \in Runs : Delivered(r)' = Delivered(r),
             \A i \in DOMAIN seen : log'[seen'[i]] = log[seen[i]]
      PROVE  \A r \in Runs : \A C : Hits(r, C)' = Hits(r, C)
  BY <1>2 DEF Hits, Delivered
<1>3. ASSUME NEW e \in Events, Produce(e) PROVE Conserved'
  <2>1. log' = Append(log, e) /\ UNCHANGED <<seen, open, cumulative>>
    BY <1>3 DEF Produce, consumer, windows
  <2>2. \A i \in DOMAIN seen : log'[seen'[i]] = log[seen[i]]
    <3> SUFFICES ASSUME NEW i \in DOMAIN seen PROVE log'[seen[i]] = log[seen[i]]
      BY <2>1
    <3>1. seen[i] \in 1 .. Len(log) /\ log \in Seq(Events)
      BY DEF KafkaInv
    <3> QED
      BY <2>1, <3>1
  <2>3. \A r \in Runs : Delivered(r)' = Delivered(r)
    BY <2>1, <2>2 DEF Delivered
  <2> QED
    BY <1>2, <2>1, <2>2, <2>3 DEF Conserved
<1>4. CASE Flush
  <2>1. UNCHANGED <<log, seen>>
    BY <1>4 DEF Flush, kafka, consumer
  <2>2. \A r \in Runs : \A C : Hits(r, C)' = Hits(r, C)
    BY <2>1 DEF Hits, Delivered
  <2> QED
    BY <1>4, <2>2, FlushConserves DEF Conserved
<1>5. CASE Restart
  <2>1. /\ seen' = <<>> /\ open' = [r \in Runs |-> NoWindow] /\ cumulative' = [r \in Runs |-> NoTotal]
    BY <1>5 DEF Restart
  <2>2. ASSUME NEW r \in Runs, NEW C PROVE Cardinality(Hits(r, C)') = 0
    <3>1. Hits(r, C)' = {}
      BY <2>1 DEF Hits, Delivered
    <3> QED
      BY <3>1, FS_EmptySet
  <2>3. /\ NoWindow.count = 0 /\ NoWindow.rejected = 0 /\ NoWindow.timeouts = 0
        /\ \A l \in Lats : NoWindow.hist[l] = 0
        /\ NoTotal.count = 0 /\ NoTotal.rejected = 0 /\ NoTotal.timeouts = 0
        /\ \A l \in Lats : NoTotal.hist[l] = 0
    BY DEF NoWindow, NoTotal, NoHist
  <2> QED
    BY <2>1, <2>2, <2>3 DEF Conserved
<1>6. ASSUME UNCHANGED <<log, seen, open, cumulative>> PROVE Conserved'
  <2>1. \A r \in Runs : \A C : Hits(r, C)' = Hits(r, C)
    BY <1>6 DEF Hits, Delivered
  <2> QED
    BY <1>6, <2>1 DEF Conserved
<1>7. ASSUME \/ Fetch \/ Commit \/ FetchError \/ Rebalance \/ Advance \/ Write \/ UNCHANGED vars
             \/ ScrapeIds \/ ScrapeReply \/ (\E r \in Runs : ScrapeRow(r))
      PROVE  UNCHANGED <<log, seen, open, cumulative>>
  BY <1>7 DEF Fetch, Commit, FetchError, Rebalance, Advance, Write, ScrapeIds, ScrapeReply, ScrapeRow,
              vars, kafka, consumer, windows
<1> QED
  BY <1>1, <1>3, <1>4, <1>5, <1>6, <1>7 DEF Next, Consume, TickLoop

-----------------------------------------------------------------------------
(* At least once.                                                          *)

\* An offset some process recorded, or had to skip.
Handled(o) == o \in ever \/ log[o].run = Undecodable

\* The consumer goes through the topic without a gap, and commits no offset
\* before the event was recorded.
CommittedWasRecorded == \A o \in 1 .. committed : Handled(o)
FetchedInOrder ==
    \A o \in 1 .. pos : Handled(o) \/ (cons = "record" /\ o = pos)

\* A commit is only ever made after Record, whatever fails or restarts.
LEMMA RecordedStep ==
    KafkaInv /\ CommittedWasRecorded /\ FetchedInOrder /\ [Next]_vars
        => CommittedWasRecorded' /\ FetchedInOrder'
<1> SUFFICES ASSUME KafkaInv, CommittedWasRecorded, FetchedInOrder, [Next]_vars
             PROVE  CommittedWasRecorded' /\ FetchedInOrder'
  OBVIOUS
<1>0. /\ log \in Seq(Events) /\ Len(log) \in Nat /\ pos \in 0 .. Len(log) /\ committed \in 0 .. Len(log)
      /\ \A o \in 1 .. committed : Handled(o)
      /\ \A o \in 1 .. pos : Handled(o) \/ (cons = "record" /\ o = pos)
  BY DEF KafkaInv, CommittedWasRecorded, FetchedInOrder
\* What is handled stays so.
<1>1. ASSUME UNCHANGED log, ever \subseteq ever' PROVE \A o : Handled(o) => Handled(o)'
  BY <1>1 DEF Handled
<1>2. ASSUME NEW e \in Events, Produce(e) PROVE CommittedWasRecorded' /\ FetchedInOrder'
  <2>1. log' = Append(log, e) /\ UNCHANGED <<committed, pos, cons, ever>>
    BY <1>2 DEF Produce, consumer
  <2>2. \A o \in 1 .. Len(log) : log'[o] = log[o]
    BY <1>0, <2>1
  <2>3. \A o \in 1 .. Len(log) : Handled(o) => Handled(o)'
    BY <2>1, <2>2 DEF Handled
  <2> QED
    BY <1>0, <2>1, <2>3 DEF CommittedWasRecorded, FetchedInOrder
<1>3. CASE Fetch
  <2>1. /\ cons = "fetch" /\ pos' = pos + 1 /\ UNCHANGED <<log, committed, ever>>
        /\ cons' = IF log[pos'].run = Undecodable THEN "fetch" ELSE "record"
    BY <1>3 DEF Fetch, kafka
  <2>2. \A o : Handled(o) => Handled(o)'
    BY <1>1, <2>1
  <2>3. \A o : o = pos' => Handled(o)' \/ cons' = "record"
    BY <2>1 DEF Handled
  <2>4. \A o \in 1 .. pos' : o \in 1 .. pos \/ o = pos'
    BY <1>0, <2>1
  <2>5. \A o \in 1 .. pos : Handled(o)'
    BY <1>0, <2>1, <2>2
  <2> QED
    BY <1>0, <2>1, <2>2, <2>3, <2>4, <2>5 DEF CommittedWasRecorded, FetchedInOrder
<1>4. CASE Record
  <2>1. /\ cons = "record" /\ cons' = "commit" /\ ever' = ever \cup {pos}
        /\ UNCHANGED <<log, committed, pos>>
    BY <1>4 DEF Record, kafka
  <2>2. (\A o : Handled(o) => Handled(o)') /\ Handled(pos)'
    BY <1>1, <2>1 DEF Handled
  <2> QED
    BY <1>0, <2>1, <2>2 DEF CommittedWasRecorded, FetchedInOrder
<1>5. CASE Commit
  <2>1. /\ cons = "commit" /\ cons' = "fetch" /\ UNCHANGED <<log, pos, ever>>
        /\ committed' = pos \/ committed' = committed
    BY <1>5 DEF Commit
  <2>2. \A o : Handled(o) => Handled(o)'
    BY <1>1, <2>1
  <2> QED
    BY <1>0, <2>1, <2>2 DEF CommittedWasRecorded, FetchedInOrder
<1>6. CASE FetchError \/ Rebalance \/ Restart
  <2>1. /\ UNCHANGED <<log, committed, ever>>
        /\ \/ cons = "fetch" /\ cons' = "stopped" /\ pos' = pos
           \/ cons' = "fetch" /\ pos' = committed
    BY <1>6 DEF FetchError, Rebalance, Restart, kafka
  <2>2. \A o : Handled(o) => Handled(o)'
    BY <1>1, <2>1
  <2> QED
    BY <1>0, <2>1, <2>2 DEF CommittedWasRecorded, FetchedInOrder
<1>7. ASSUME UNCHANGED <<log, committed, pos, cons, ever>>
      PROVE  CommittedWasRecorded' /\ FetchedInOrder'
  <2>1. \A o : Handled(o) => Handled(o)'
    BY <1>1, <1>7
  <2> QED
    BY <1>0, <1>7, <2>1 DEF CommittedWasRecorded, FetchedInOrder
<1>8. ASSUME \/ Advance \/ TickLoop \/ ScrapeIds \/ ScrapeReply \/ UNCHANGED vars
             \/ \E r \in Runs : ScrapeRow(r)
      PROVE  UNCHANGED <<log, committed, pos, cons, ever>>
  BY <1>8 DEF Advance, TickLoop, Flush, Write, ScrapeIds, ScrapeReply, ScrapeRow, vars, kafka, consumer
<1> QED
  BY <1>2, <1>3, <1>4, <1>5, <1>6, <1>7, <1>8 DEF Next, Consume

-----------------------------------------------------------------------------
(* The ring and the whole-run total.                                       *)

\* Adding a row to sums gives sums.
LEMMA SumIsSum ==
    ASSUME NEW t \in Sums, NEW w \in Rows
    PROVE  SumWindow(t, w) \in Sums
<1>1. /\ t.hist \in Hists /\ w.hist \in Hists
      /\ t.dur \in Nat /\ t.count \in Nat /\ t.rejected \in Nat /\ t.timeouts \in Nat
      /\ w.dur \in Nat /\ w.count \in Nat /\ w.rejected \in Nat /\ w.timeouts \in Nat
  BY DEF Sums, Rows
<1>2. MergeHistograms(t.hist, w.hist) \in Hists
  BY <1>1 DEF MergeHistograms, Hists
<1> QED
  BY <1>1, <1>2 DEF SumWindow, Sums

\* t holds the sums of the loop over a ring, after 0, 1, ... k windows.
IsMerge(t, ring, k) ==
    /\ t \in [0 .. k -> Sums]
    /\ t[0] = NoSum
    /\ \A i \in 1 .. k : t[i] = SumWindow(t[i - 1], ring[i])

\* The loop has its sums, one per window.
LEMMA MergeExists ==
    ASSUME NEW ring \in Seq(Rows)
    PROVE  \E t : IsMerge(t, ring, Len(ring))
<1> DEFINE P == {k \in 0 .. Len(ring) : \E t : IsMerge(t, ring, k)}
<1>0. Len(ring) \in Nat
  OBVIOUS
<1>1. 0 \in P
  <2>1. PICK t : t = [i \in 0 .. 0 |-> NoSum]
    OBVIOUS
  <2>2. IsMerge(t, ring, 0)
    BY <2>1, EmptyValues DEF IsMerge, NoSum, Sums
  <2> QED
    BY <1>0, <2>2
<1>2. \A k \in 0 .. Len(ring) : k < Len(ring) /\ k \in P => k + 1 \in P
  <2> SUFFICES ASSUME NEW k \in 0 .. Len(ring), k < Len(ring), k \in P PROVE k + 1 \in P
    OBVIOUS
  <2>0. k \in Nat /\ k + 1 \in 1 .. Len(ring)
    BY <1>0
  <2>1. PICK t : IsMerge(t, ring, k)
    OBVIOUS
  <2>2. t[k] \in Sums /\ ring[k + 1] \in Rows
    BY <2>0, <2>1 DEF IsMerge
  <2>3. PICK last \in Sums : last = SumWindow(t[k], ring[k + 1])
    BY <2>2, SumIsSum
  <2>4. PICK u : u = [i \in 0 .. k + 1 |-> IF i = k + 1 THEN last ELSE t[i]]
    OBVIOUS
  <2>5. u \in [0 .. k + 1 -> Sums] /\ u[0] = NoSum
    BY <2>0, <2>1, <2>4 DEF IsMerge
  <2>6. u[k + 1] = last /\ u[k] = t[k] /\ \A i \in 0 .. k : u[i] = t[i]
    BY <2>0, <2>4
  <2>7. ASSUME NEW i \in 1 .. k + 1 PROVE u[i] = SumWindow(u[i - 1], ring[i])
    <3>1. CASE i = k + 1
      <4>1. i - 1 = k
        BY <2>0, <3>1
      <4> QED
        BY <2>3, <2>6, <3>1, <4>1
    <3>2. CASE i # k + 1
      <4>1. i \in 1 .. k /\ i \in 0 .. k /\ i - 1 \in 0 .. k
        BY <2>0, <3>2
      <4> QED
        BY <2>1, <2>6, <4>1 DEF IsMerge
    <3> QED
      BY <3>1, <3>2
  <2>8. IsMerge(u, ring, k + 1)
    BY <2>5, <2>7 DEF IsMerge
  <2> QED
    BY <2>0, <2>8
<1> HIDE DEF P
<1>3. 0 .. Len(ring) \subseteq P
  BY <1>0, <1>1, <1>2, InductionUpTo
<1>4. Len(ring) \in P
  BY <1>0, <1>3
<1> QED
  BY <1>4 DEF P

\* The recursive function that models the loop is that function.
LEMMA MergeValue ==
    ASSUME NEW ring \in Seq(Rows), NEW t, IsMerge(t, ring, Len(ring))
    PROVE  MergeWindows(ring) = MergedRow(Len(ring), t[Len(ring)])
<1> DEFINE n == Len(ring)
           body(h) == [i \in 0 .. n |-> IF i = 0 THEN NoSum ELSE SumWindow(h[i - 1], ring[i])]
           total == CHOOSE h : h = body(h)
<1>0. n \in Nat
  OBVIOUS
<1>1. MergeWindows(ring) = MergedRow(n, total[n])
  BY DEF MergeWindows
<1> HIDE DEF n
<1>2. t \in [0 .. n -> Sums] /\ t[0] = NoSum /\ \A i \in 1 .. n : t[i] = SumWindow(t[i - 1], ring[i])
  BY DEF IsMerge, n
<1>3. t = body(t)
  <2>1. t = [i \in 0 .. n |-> t[i]]
    BY <1>2
  <2>2. \A i \in 0 .. n : i = 0 \/ i \in 1 .. n
    BY <1>0
  <2>3. \A i \in 0 .. n : t[i] = IF i = 0 THEN NoSum ELSE SumWindow(t[i - 1], ring[i])
    BY <1>2, <2>2
  <2> QED
    BY <2>1, <2>3
<1>4. total = body(total)
  <2> HIDE DEF body
  <2> QED
    BY <1>3
<1> HIDE DEF total
<1>5. total[0] = NoSum /\ \A i \in 1 .. n : total[i] = SumWindow(total[i - 1], ring[i])
  BY <1>0, <1>4
<1>6. 0 .. n \subseteq {i \in 0 .. n : total[i] = t[i]}
  <2> DEFINE P == {i \in 0 .. n : total[i] = t[i]}
  <2>1. 0 \in P
    BY <1>0, <1>2, <1>5
  <2>2. \A i \in 0 .. n : i < n /\ i \in P => i + 1 \in P
    <3> SUFFICES ASSUME NEW i \in 0 .. n, i < n, i \in P PROVE i + 1 \in P
      OBVIOUS
    <3>1. i + 1 \in 1 .. n /\ i + 1 \in 0 .. n /\ (i + 1) - 1 = i
      BY <1>0
    <3>2. total[i + 1] = SumWindow(total[i], ring[i + 1]) /\ t[i + 1] = SumWindow(t[i], ring[i + 1])
      BY <1>2, <1>5, <3>1
    <3> QED
      BY <3>1, <3>2
  <2> HIDE DEF P
  <2>3. 0 .. n \subseteq P
    BY <1>0, <2>1, <2>2, InductionUpTo
  <2> QED
    BY <2>3 DEF P
<1>7. total[n] = t[n]
  BY <1>0, <1>6
<1> QED
  BY <1>1, <1>7 DEF n

\* Merging nothing.
LEMMA MergeNothing == MergeWindows(<<>>) = NoTotal
<1>1. PICK ring \in Seq(Rows) : ring = <<>>
  <2>1. <<>> \in Seq(Rows)
    OBVIOUS
  <2> QED
    BY <2>1
<1>2. PICK t : IsMerge(t, ring, Len(ring))
  BY MergeExists
<1>3. MergeWindows(ring) = MergedRow(Len(ring), t[Len(ring)])
  BY <1>2, MergeValue
<1>4. Len(ring) = 0
  BY <1>1
<1>5. t[0] = NoSum
  BY <1>2 DEF IsMerge
<1>6. MergedRow(0, NoSum) = NoTotal
  BY DEF MergedRow, NoSum, NoTotal
<1> QED
  BY <1>1, <1>3, <1>4, <1>5, <1>6

\* MergedRecent's sums and Flush's accumulator take in a window alike.
LEMMA MergeOneMore ==
    ASSUME NEW ring \in Seq(Rows), NEW w \in Rows
    PROVE  MergeWindows(Append(ring, w)) = Fold(MergeWindows(ring), w)
<1>1. PICK longer \in Seq(Rows) : longer = Append(ring, w)
  BY AppendProperties
<1>2. PICK n \in Nat : n = Len(ring)
  OBVIOUS
<1>3. Len(longer) = n + 1 /\ longer[n + 1] = w /\ \A i \in 1 .. n : longer[i] = ring[i]
  BY <1>1, <1>2, AppendProperties
<1>4. PICK u : IsMerge(u, longer, Len(longer))
  BY MergeExists
<1>5. PICK t : t = [i \in 0 .. n |-> u[i]]
  OBVIOUS
<1>6. /\ u \in [0 .. n + 1 -> Sums] /\ u[0] = NoSum
      /\ \A i \in 1 .. n + 1 : u[i] = SumWindow(u[i - 1], longer[i])
  BY <1>3, <1>4 DEF IsMerge
<1>7. t \in [0 .. n -> Sums] /\ t[0] = NoSum
  BY <1>5, <1>6
<1>8. ASSUME NEW i \in 1 .. n PROVE t[i] = SumWindow(t[i - 1], ring[i])
  <2>1. i \in 0 .. n /\ i - 1 \in 0 .. n /\ i \in 1 .. n + 1
    OBVIOUS
  <2>2. t[i] = u[i] /\ t[i - 1] = u[i - 1] /\ ring[i] = longer[i]
    BY <1>3, <1>5, <2>1
  <2> QED
    BY <1>6, <2>1, <2>2
<1>9. IsMerge(t, ring, Len(ring))
  BY <1>2, <1>7, <1>8 DEF IsMerge
<1>10. MergeWindows(ring) = MergedRow(n, t[n])
  BY <1>2, <1>9, MergeValue
<1>11. MergeWindows(longer) = MergedRow(n + 1, u[n + 1])
  BY <1>3, <1>4, MergeValue
<1>12. u[n + 1] = SumWindow(u[n], w) /\ t[n] = u[n]
  <2>1. n + 1 \in 1 .. n + 1 /\ (n + 1) - 1 = n /\ n \in 0 .. n
    OBVIOUS
  <2> QED
    BY <1>3, <1>5, <1>6, <2>1
<1>13. MergedRow(n + 1, SumWindow(u[n], w)) = Fold(MergedRow(n, u[n]), w)
  BY DEF MergedRow, SumWindow, Fold
<1> QED
  BY <1>1, <1>10, <1>11, <1>12, <1>13

\* Until the ring is full, it holds every window of the total.
RingInv ==
    \A r \in Runs : cumulative[r].windows <= historyCap =>
        /\ Len(history[r]) = cumulative[r].windows
        /\ MergeWindows(history[r]) = cumulative[r]

\* Flush adds the same window to both; only Restart empties them.
LEMMA RingStep == CapInv /\ WindowInv /\ RingInv /\ [Next]_vars => RingInv'
<1> SUFFICES ASSUME CapInv, WindowInv, RingInv, [Next]_vars PROVE RingInv'
  OBVIOUS
<1>0. historyCap' = historyCap
  BY CapFixed
<1>1. CASE Flush
  <2> SUFFICES ASSUME NEW r \in Runs, cumulative'[r].windows <= historyCap
               PROVE  /\ Len(history'[r]) = cumulative'[r].windows
                      /\ MergeWindows(history'[r]) = cumulative'[r]
    BY <1>0 DEF RingInv
  <2>1. CASE ~ (open[r].count > 0)
    BY <1>1, <2>1, FlushOne DEF RingInv
  <2>2. CASE open[r].count > 0
    <3>1. PICK h \in Seq(Rows), w \in Rows, t \in Totals :
             h = history[r] /\ w = Flushed(r) /\ t = cumulative[r]
      BY FlushedIsRow DEF WindowInv
    <3>2. history'[r] = Trim(Append(h, w)) /\ cumulative'[r] = Fold(t, w)
      BY <1>1, <2>2, <3>1, FlushOne
    <3>3. PICK n \in Nat : n = t.windows
      BY DEF Totals
    <3>4. Fold(t, w).windows = n + 1
      BY <3>3 DEF Fold
    <3>5. historyCap \in Nat /\ n + 1 <= historyCap
      BY <3>2, <3>4 DEF CapInv
    <3>6. Len(h) = n /\ MergeWindows(h) = t
      BY <3>1, <3>3, <3>5 DEF RingInv
    <3>7. Len(Append(h, w)) = n + 1
      BY <3>6, AppendProperties
    <3>8. Trim(Append(h, w)) = Append(h, w)
      BY <3>5, <3>7 DEF Trim
    <3>9. MergeWindows(Append(h, w)) = Fold(t, w)
      BY <3>6, MergeOneMore
    <3> QED
      BY <3>2, <3>4, <3>7, <3>8, <3>9
  <2> QED
    BY <2>1, <2>2
<1>2. CASE Restart
  <2>1. history' = [r \in Runs |-> <<>>] /\ cumulative' = [r \in Runs |-> NoTotal]
    BY <1>2 DEF Restart
  <2>2. NoTotal.windows = 0 /\ Len(<<>>) = 0
    BY DEF NoTotal
  <2> QED
    BY <1>0, <2>1, <2>2, MergeNothing DEF RingInv
<1>3. ASSUME UNCHANGED <<history, cumulative>> PROVE RingInv'
  BY <1>0, <1>3 DEF RingInv
<1>4. ASSUME \/ Fetch \/ Record \/ Commit \/ FetchError \/ Rebalance \/ Advance \/ Write
             \/ ScrapeIds \/ ScrapeReply \/ UNCHANGED vars
             \/ (\E r \in Runs : ScrapeRow(r)) \/ (\E e \in Events : Produce(e))
      PROVE  UNCHANGED <<history, cumulative>>
  BY <1>4 DEF Fetch, Record, Commit, FetchError, Rebalance, Advance, Write, ScrapeIds, ScrapeReply,
              ScrapeRow, Produce, vars, windows
<1> QED
  BY <1>1, <1>2, <1>3, <1>4 DEF Next, Consume, TickLoop

\* Reading as many windows as the total has, or more, reads the whole ring.
LEMMA RingIsTotal == CapInv /\ WindowInv /\ RingInv => MergedPathsAgree
<1> SUFFICES ASSUME CapInv, WindowInv, RingInv, NEW r \in Runs, NEW n \in 1 .. historyCap,
                    n >= cumulative[r].windows
             PROVE  MergedRecent(r, n) = MergedRecent(r, 0)
  BY DEF MergedPathsAgree
<1>1. PICK h \in Seq(Rows), k \in Nat : h = history[r] /\ k = Len(h)
  BY DEF WindowInv
<1>2. n \in Nat /\ n > 0 /\ n <= historyCap /\ historyCap \in Nat
  BY DEF CapInv
<1>3. cumulative[r].windows \in Nat
  BY DEF WindowInv, Totals
<1>4. k <= n /\ MergeWindows(h) = cumulative[r]
  BY <1>1, <1>2, <1>3 DEF RingInv
<1>5. Min({n, k}) = k
  BY <1>2, <1>4 DEF Min
<1>6. k - k + 1 = 1 /\ SubSeq(h, 1, k) = h
  BY <1>1, SubSeqFull
<1>7. MergedRecent(r, n) = MergeWindows(SubSeq(h, k - k + 1, k))
  BY <1>1, <1>2, <1>5 DEF MergedRecent
<1>8. MergedRecent(r, 0) = cumulative[r]
  BY DEF MergedRecent
<1> QED
  BY <1>4, <1>6, <1>7, <1>8

-----------------------------------------------------------------------------
(* The theorems.                                                           *)

AggregatorInv ==
    /\ KafkaInv /\ WindowInv /\ ClockInv /\ DurationWithinElapsed /\ ScrapeInv /\ Conserved
    /\ CapInv /\ RingInv /\ CommittedWasRecorded /\ FetchedInOrder

\* A process that has just started, on an empty topic.
LEMMA AggregatorInit == Init => AggregatorInv
<1> SUFFICES ASSUME Init PROVE AggregatorInv
  OBVIOUS
<1>1. /\ NoWindow.count = 0 /\ NoWindow.rejected = 0 /\ NoWindow.timeouts = 0
      /\ \A l \in Lats : NoWindow.hist[l] = 0
      /\ NoTotal.windows = 0 /\ NoTotal.dur = 0
      /\ NoTotal.count = 0 /\ NoTotal.rejected = 0 /\ NoTotal.timeouts = 0
      /\ \A l \in Lats : NoTotal.hist[l] = 0
  BY DEF NoWindow, NoTotal, NoHist
<1>2. KafkaInv
  <2>1. log = <<>> /\ seen = <<>> /\ pos = 0 /\ committed = 0 /\ cons = "fetch"
    BY DEF Init
  <2>2. log \in Seq(Events) /\ seen \in Seq(Nat) /\ Len(log) = 0 /\ Len(seen) = 0
    BY <2>1
  <2> QED
    BY <2>1, <2>2 DEF KafkaInv
<1>3. WindowInv
  BY <1>1, EmptyValues DEF Init, WindowInv, NoTick
<1>4. ClockInv /\ DurationWithinElapsed
  <2>1. 0 - 0 = 0 /\ 0 % Window = 0
    BY AggregatorAssumption
  <2> QED
    BY <1>1, <2>1 DEF Init, ClockInv, DurationWithinElapsed, NoTick
<1>5. ScrapeInv
  BY EmptyValues DEF Init, ScrapeInv
<1>6. Conserved
  <2>1. ASSUME NEW r \in Runs, NEW C PROVE Cardinality(Hits(r, C)) = 0
    <3>1. Hits(r, C) = {}
      BY DEF Init, Hits, Delivered
    <3> QED
      BY <3>1, FS_EmptySet
  <2> QED
    BY <1>1, <2>1 DEF Init, Conserved
<1>7. CommittedWasRecorded /\ FetchedInOrder
  BY DEF Init, CommittedWasRecorded, FetchedInOrder
<1>8. RingInv
  <2>1. NoTotal.windows = 0 /\ Len(<<>>) = 0
    BY DEF NoTotal
  <2> QED
    BY <2>1, MergeNothing DEF Init, RingInv
<1>9. CapInv
  BY AggregatorAssumption DEF Init, CapInv
<1> QED
  BY <1>2, <1>3, <1>4, <1>5, <1>6, <1>7, <1>8, <1>9 DEF AggregatorInv

\* The invariant of the aggregator: the consumer, the windows, the ticker and
\* the scrape each keep their part, through restarts, rebalances and failures.
THEOREM AggregatorInductive == Spec => []AggregatorInv
<1>1. CapInv /\ [Next]_vars => CapInv'
  BY CapFixed DEF CapInv
<1>2. AggregatorInv /\ [Next]_vars => AggregatorInv'
  BY <1>1, KafkaStep, WindowStep, ClockStep, ScrapeStep, ConservedStep, RingStep,
     RecordedStep
     DEF AggregatorInv
<1> QED
  BY <1>2, AggregatorInit, PTL DEF Spec

\* Whole-run scoring loses and doubles nothing that was delivered: for any
\* runs, events, window and ring, every delivery is in one window or total.
THEOREM AggregatorConserves == Spec => []WholeRunConserved
<1>1. AggregatorInv => WholeRunConserved
  BY ConservedIsWholeRun DEF AggregatorInv
<1> QED
  BY <1>1, AggregatorInductive, PTL

\* The ring and the whole-run total are two ways to the same row: until a
\* window is evicted, the sums MergedRecent makes over the ring are, in every
\* column and bucket, what Flush accumulated, for a ring of any capacity.
THEOREM AggregatorMergedPathsAgree == Spec => []MergedPathsAgree
<1>1. AggregatorInv => MergedPathsAgree
  BY RingIsTotal DEF AggregatorInv
<1> QED
  BY <1>1, AggregatorInductive, PTL

\* A row-by-row scrape is never older than the request.
THEOREM AggregatorScrapeFresh == Spec => []ScrapeIsFresh
<1>1. AggregatorInv => ScrapeIsFresh
  BY DEF AggregatorInv, ScrapeInv, ScrapeIsFresh
<1> QED
  BY <1>1, AggregatorInductive, PTL

\* A run is never charged for more time than the ticker measured.
THEOREM AggregatorTimeBounded == Spec => []DurationWithinElapsed
  BY AggregatorInductive, PTL DEF AggregatorInv

\* At-least-once, the safety half of EventuallyRecorded: an offset the group
\* has committed was recorded by some process, or did not decode, so a crash,
\* a rebalance or a failed commit never makes the consumer step over an event.
THEOREM AggregatorAtLeastOnce == Spec => []CommittedWasRecorded
  BY AggregatorInductive, PTL DEF AggregatorInv
=============================================================================
