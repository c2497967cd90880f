------------------------------ MODULE Arrivals ------------------------------
(***************************************************************************)
(* services/bot-worker/internal/gen/arrival.go: when the bots of a worker  *)
(* send.  They share one generator; a goroutine turns its burst mode on at *)
(* every tick and a timer per tick turns it off again.  A bot draws the    *)
(* wait for its next order when it starts the present one, so it learns of *)
(* a burst only at its next order.                                         *)
(*                                                                         *)
(* Tickers, timers and goroutines are late by up to MaxLag, whether the    *)
(* scheduler or, for a bot, the call it waits for keeps them.  The end of  *)
(* the context ends the bots with the bursts and is left out.              *)
(***************************************************************************)
EXTENDS Integers

CONSTANTS
    Workers,       \* goroutines of runWorker
    Second,        \* ticks of the clock in a second
    Rps,           \* ORDERS_PER_SECOND
    Jitter,        \* JITTER_MS
    Every,         \* BURST_EVERY_S
    Duration,      \* BURST_DURATION_MS
    Multiplier,    \* BURST_MULTIPLIER
    MaxLag,        \* longest delay of a timer or a goroutine
    LongestDraw,   \* bound: exponential samples, in multiples of the mean
    MaxClock       \* bound: the clock

\* A burst is over, its timer and all, before the next one: a timer that fires
\* late would end the burst after its own.
ASSUME BurstAssumption ==
    /\ Second \in Nat /\ Rps \in Int
    /\ Jitter \in Nat /\ Every \in Nat /\ Duration \in Nat /\ MaxLag \in Nat
    /\ Multiplier \in Nat /\ Multiplier > 1
    /\ Duration + 2 * MaxLag < Every

VARIABLES
    mode,          \* Arrivals.mode
    clock,
    nextTick,      \* when the ticker fires next
    tickDue,       \* the ticker's channel: when its tick came, or Never
    burstActive,   \* Arrivals.burstActive
    offTimers,     \* the AfterFunc timers
    wake,          \* worker -> when its timer fires
    drawn,         \* worker -> the mean its present wait was drawn from
    burstAt        \* history: when the latest burst began, or Never

arrivalVars == <<mode, clock, nextTick, tickDue, burstActive, offTimers, wake, drawn, burstAt>>

Never == -1

\* NewArrivals: 1/rps, where a rate of nothing counts as one.
interval == Second \div (IF Rps <= 0 THEN 1 ELSE Rps)

\* StartBurst: the interval over the multiplier, at least something.
burstIvl == IF interval \div Multiplier <= 0 THEN 1 ELSE interval \div Multiplier

ArrivalsInit ==
    /\ mode \in {"uniform", "poisson"}
    /\ clock = 0
    /\ nextTick = Every
    /\ tickDue = Never
    /\ burstActive = FALSE
    /\ offTimers = {}
    /\ wake \in [Workers -> 1 .. interval]
    /\ drawn = [w \in Workers |-> interval]
    /\ burstAt = Never

\* Next: the waits it may return for a mean of ivl, before jitter.
Samples(ivl) == IF mode = "poisson" THEN 1 .. LongestDraw * ivl ELSE {ivl}
Jitters == IF Jitter > 0 THEN 0 .. Jitter - 1 ELSE {0}

\* A bot's timer has fired: it draws the next wait and sends.
Arrival(w) ==
    /\ wake[w] <= clock
    /\ LET ivl == IF burstActive THEN burstIvl ELSE interval
       IN  /\ \E base \in Samples(ivl), j \in Jitters : wake' = [wake EXCEPT ![w] = clock + base + j]
           /\ drawn' = [drawn EXCEPT ![w] = ivl]
    /\ UNCHANGED <<mode, clock, nextTick, tickDue, burstActive, offTimers, burstAt>>

\* Mutant: one timer for all bursts, started with the first.
BurstOn_OneTimer ==
    /\ tickDue # Never
    /\ tickDue' = Never
    /\ burstActive' = TRUE
    /\ offTimers' = IF burstAt = Never THEN {clock + Duration} ELSE offTimers
    /\ burstAt' = clock
    /\ UNCHANGED <<mode, clock, nextTick, wake, drawn>>

\* The goroutine of StartBurst takes a tick.
BurstOn ==
    /\ tickDue # Never
    /\ tickDue' = Never
    /\ burstActive' = TRUE
    /\ offTimers' = offTimers \cup {clock + Duration}
    /\ burstAt' = clock
    /\ UNCHANGED <<mode, clock, nextTick, wake, drawn>>

\* A timer of AfterFunc runs.
BurstOff(t) ==
    /\ t <= clock
    /\ burstActive' = FALSE
    /\ offTimers' = offTimers \ {t}
    /\ UNCHANGED <<mode, clock, nextTick, tickDue, wake, drawn, burstAt>>

\* Time passes, but for nobody past MaxLag.  A tick that finds the channel
\* full is dropped.
ClockTick ==
    /\ clock < MaxClock
    /\ tickDue # Never => clock < tickDue + MaxLag
    /\ \A t \in offTimers : clock < t + MaxLag
    /\ \A w \in Workers : clock < wake[w] + MaxLag
    /\ clock' = clock + 1
    /\ IF clock' = nextTick
       THEN /\ tickDue' = IF tickDue = Never THEN clock' ELSE tickDue
            /\ nextTick' = nextTick + Every
       ELSE UNCHANGED <<tickDue, nextTick>>
    /\ UNCHANGED <<mode, burstActive, offTimers, wake, drawn, burstAt>>

ArrivalsNext ==
    \/ \E w \in Workers : Arrival(w)
    \/ BurstOn
    \/ \E t \in offTimers : BurstOff(t)
    \/ ClockTick

-----------------------------------------------------------------------------
(* Properties.                                                             *)

\* Every burst reaches every bot and ends for every bot: with a fixed interval,
\* once the wait a bot was in has passed all bots send at the burst's rate
\* until Duration is over, and soon after that all are back at their own,
\* however late the ticks, the timers and the bots are (StartBurst, Next).
BurstShapesLoad ==
    mode = "uniform" /\ burstAt # Never =>
        \A w \in Workers :
            /\ burstAt + interval + Jitter + MaxLag < clock /\ clock < burstAt + Duration
                   => drawn[w] = burstIvl
            /\ burstAt + Duration + burstIvl + Jitter + 2 * MaxLag < clock
                   => drawn[w] = interval
=============================================================================
