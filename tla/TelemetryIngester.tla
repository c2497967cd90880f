------------------------- MODULE TelemetryIngester -------------------------
(***************************************************************************)
(* services/telemetry-ingester: gRPC stream handlers push OrderEvents onto *)
(* a bounded channel, one drain goroutine batches them and publishes each  *)
(* batch, and the main goroutine shuts the two down on SIGTERM.            *)
(*                                                                         *)
(* An event is the pair <<stream, sequence number>>; the stream also       *)
(* stands for the contestant that keys the event's Kafka partition.        *)
(***************************************************************************)
EXTENDS Integers, Sequences, FiniteSets

CONSTANTS
    Streams,      \* the client-streaming RPCs (bot workers)
    Cap,          \* INGEST_BUFFER: capacity of the channel
    BatchSize,    \* INGEST_BATCH: events per publish
    MaxEvents     \* bound: events one client sends on its stream

ASSUME IngesterAssumption ==
    /\ Cap \in Nat \ {0}
    /\ BatchSize \in Nat \ {0}
    /\ MaxEvents \in Nat

VARIABLES
    phase,        \* program counter of main()
    buf,          \* "open", "flagged" (Buffer.closed is set), "closed" (so is ch)
    handler,      \* program counter of each IngestStream handler
    sent,         \* how many events each client has sent
    received,     \* IngestStream's local counter, returned in IngestAck
    pushed,       \* Buffer.pushed
    ch,           \* Buffer.ch, oldest event first
    drain,        \* program counter of drainLoop
    pending,      \* drainLoop's batch
    accepted,     \* history: events the channel took, in order
    handed,       \* history: events given to Publish, in order
    written       \* history: events the topic really holds

mainVars == <<phase, buf>>
streamVars == <<sent, received, pushed>>
drainVars == <<drain, pending, handed, written>>
vars == <<phase, buf, handler, sent, received, pushed, ch,
          drain, pending, accepted, handed, written>>

Event == Streams \X Nat

(***************************************************************************)
(* "idle": no RPC yet; "recv": in stream.Recv; "check": in Push, before    *)
(* the closed test; "send": past it; "count": the event is in the channel, *)
(* pushed.Add(1) and received++ are not done; "ended": the RPC returned.   *)
(***************************************************************************)
HandlerState == {"idle", "recv", "check", "send", "count", "ended"}
InRPC(s) == handler[s] \in {"recv", "check", "send", "count"}
Alive == phase # "killed"

Init ==
    /\ phase = "serving"
    /\ buf = "open"
    /\ handler = [s \in Streams |-> "idle"]
    /\ sent = [s \in Streams |-> 0]
    /\ received = [s \in Streams |-> 0]
    /\ pushed = 0
    /\ ch = <<>>
    /\ drain = "loop"
    /\ pending = <<>>
    /\ accepted = <<>>
    /\ handed = <<>>
    /\ written = {}

-----------------------------------------------------------------------------
(* The stream handlers.                                                    *)

\* gRPC starts a handler for a new RPC; GracefulStop refuses new ones.
OpenStream(s) ==
    /\ phase = "serving"
    /\ handler[s] = "idle"
    /\ handler' = [handler EXCEPT ![s] = "recv"]
    /\ UNCHANGED <<mainVars, streamVars, ch, accepted, drainVars>>

\* stream.Recv returns the client's next event and Push is called on it.
Recv(s) ==
    /\ Alive
    /\ handler[s] = "recv"
    /\ sent[s] < MaxEvents
    /\ sent' = [sent EXCEPT ![s] = @ + 1]
    /\ handler' = [handler EXCEPT ![s] = "check"]
    /\ UNCHANGED <<mainVars, received, pushed, ch, accepted, drainVars>>

\* stream.Recv returns io.EOF (the ack is sent) or an error: the RPC ends.
EndStream(s) ==
    /\ Alive
    /\ handler[s] = "recv"
    /\ handler' = [handler EXCEPT ![s] = "ended"]
    /\ UNCHANGED <<mainVars, streamVars, ch, accepted, drainVars>>

\* Push: the load of b.closed and its early return.
PushCheck(s) ==
    /\ Alive
    /\ handler[s] = "check"
    /\ handler' = [handler EXCEPT ![s] = IF buf # "open" THEN "recv" ELSE "send"]
    /\ UNCHANGED <<mainVars, streamVars, ch, accepted, drainVars>>

\* Push: the non-blocking send, or the drop when the channel is full. A send
\* on a closed channel panics; NoSendOnClosedChannel says it never happens.
PushSend(s) ==
    /\ Alive
    /\ handler[s] = "send"
    /\ buf # "closed"
    /\ \/ /\ Len(ch) < Cap
          /\ ch' = Append(ch, <<s, sent[s]>>)
          /\ accepted' = Append(accepted, <<s, sent[s]>>)
          /\ handler' = [handler EXCEPT ![s] = "count"]
       \/ /\ Len(ch) >= Cap
          /\ handler' = [handler EXCEPT ![s] = "recv"]
          /\ UNCHANGED <<ch, accepted>>
    /\ UNCHANGED <<mainVars, streamVars, drainVars>>

\* pushed.Add(1), Push returns true, received++.
PushCount(s) ==
    /\ Alive
    /\ handler[s] = "count"
    /\ pushed' = pushed + 1
    /\ received' = [received EXCEPT ![s] = @ + 1]
    /\ handler' = [handler EXCEPT ![s] = "recv"]
    /\ UNCHANGED <<mainVars, sent, ch, accepted, drainVars>>

-----------------------------------------------------------------------------
(* drainLoop.                                                              *)

\* prod.Publish: WriteMessages succeeds for some of the partitions. It
\* returns an error unless it succeeded for all; the error is only logged.
Publish(batch) ==
    /\ handed' = handed \o batch
    /\ \E ok \in SUBSET Streams :
          written' = written \cup {e \in {batch[i] : i \in 1 .. Len(batch)} : e[1] \in ok}

\* flush(): pending is emptied whatever Publish returned.
Flush ==
    /\ Publish(pending)
    /\ pending' = <<>>

\* Mutant: the size test is off by one, so a batch grows by one more.
BatchFull_OffByOne == Len(pending) > BatchSize

\* len(pending) >= batchSize: the goroutine is past the append and calls
\* flush() before it does anything else.
BatchFull == Len(pending) >= BatchSize

\* Mutant: an event is put in front of the batch.
DrainRecv_Front ==
    /\ Alive
    /\ drain \in {"loop", "range"}
    /\ ~ BatchFull
    /\ ch # <<>>
    /\ ch' = Tail(ch)
    /\ pending' = <<Head(ch)>> \o pending
    /\ UNCHANGED <<mainVars, handler, streamVars, accepted, drain, handed, written>>

\* An event is taken off the channel, by the select or by the range, and
\* appended to the batch. From here a Push can use the slot it has left.
DrainRecv ==
    /\ Alive
    /\ drain \in {"loop", "range"}
    /\ ~ BatchFull
    /\ ch # <<>>
    /\ ch' = Tail(ch)
    /\ pending' = Append(pending, Head(ch))
    /\ UNCHANGED <<mainVars, handler, streamVars, accepted, drain, handed, written>>

\* The batch is full: flush().
DrainFlush ==
    /\ Alive
    /\ drain \in {"loop", "range"}
    /\ BatchFull
    /\ Flush
    /\ UNCHANGED <<mainVars, handler, streamVars, ch, accepted, drain>>

\* Mutant: the ticker only flushes a full batch.
Tick_FullOnly ==
    /\ Alive
    /\ drain = "loop"
    /\ BatchFull
    /\ Flush
    /\ UNCHANGED <<mainVars, handler, streamVars, ch, accepted, drain>>

\* case <-ticker.C: only the select has it.
Tick ==
    /\ Alive
    /\ drain = "loop"
    /\ ~ BatchFull
    /\ Flush
    /\ UNCHANGED <<mainVars, handler, streamVars, ch, accepted, drain>>

\* case <-ctx.Done(): the rest is read by ranging over the channel.
StartRange ==
    /\ Alive
    /\ phase # "serving"
    /\ drain = "loop"
    /\ ~ BatchFull
    /\ drain' = "range"
    /\ UNCHANGED <<mainVars, handler, streamVars, ch, accepted, pending, handed, written>>

\* The channel is closed and empty: last flush, return, close(drainDone).
DrainExit ==
    /\ Alive
    /\ drain \in {"loop", "range"}
    /\ ~ BatchFull
    /\ buf = "closed"
    /\ ch = <<>>
    /\ Flush
    /\ drain' = "exited"
    /\ UNCHANGED <<mainVars, handler, streamVars, ch, accepted>>

-----------------------------------------------------------------------------
(* main().                                                                 *)

\* SIGTERM ends ctx; main enters GracefulStop.
Signal ==
    /\ phase = "serving"
    /\ phase' = "stopping"
    /\ UNCHANGED <<buf, handler, streamVars, ch, accepted, drainVars>>

\* Mutant: main does not wait for the running RPCs before buf.Close.
GracefulStop_NoWait ==
    /\ phase = "stopping"
    /\ phase' = "stopped"
    /\ UNCHANGED <<buf, handler, streamVars, ch, accepted, drainVars>>

\* GracefulStop returns once every running RPC has returned.
GracefulStop ==
    /\ phase = "stopping"
    /\ \A s \in Streams : ~InRPC(s)
    /\ phase' = "stopped"
    /\ UNCHANGED <<buf, handler, streamVars, ch, accepted, drainVars>>

\* buf.Close(): the compare-and-swap, then the close of the channel.
CloseFlag ==
    /\ phase = "stopped"
    /\ buf' = "flagged"
    /\ phase' = "closing"
    /\ UNCHANGED <<handler, streamVars, ch, accepted, drainVars>>

\* Mutant: Close sets the flag and leaves the channel open.
CloseChannel_FlagOnly ==
    /\ phase = "closing"
    /\ phase' = "waiting"
    /\ UNCHANGED <<buf, handler, streamVars, ch, accepted, drainVars>>

CloseChannel ==
    /\ phase = "closing"
    /\ buf' = "closed"
    /\ phase' = "waiting"
    /\ UNCHANGED <<handler, streamVars, ch, accepted, drainVars>>

\* <-drainDone, prod.Close(), exit.
Exit ==
    /\ phase = "waiting"
    /\ drain = "exited"
    /\ phase' = "exited"
    /\ UNCHANGED <<buf, handler, streamVars, ch, accepted, drainVars>>

\* The process is killed (grace period over, OOM): its memory is lost.
Kill ==
    /\ phase \notin {"exited", "killed"}
    /\ phase' = "killed"
    /\ ch' = <<>>
    /\ pending' = <<>>
    /\ UNCHANGED <<buf, handler, streamVars, accepted, drain, handed, written>>

Terminated ==
    /\ phase \in {"exited", "killed"}
    /\ UNCHANGED vars

Handler(s) == PushCheck(s) \/ PushSend(s) \/ PushCount(s)
Drain == DrainRecv \/ DrainFlush \/ StartRange \/ DrainExit
Main == GracefulStop \/ CloseFlag \/ CloseChannel \/ Exit

Next ==
    \/ \E s \in Streams : OpenStream(s) \/ Recv(s) \/ EndStream(s) \/ Handler(s)
    \/ Drain
    \/ Tick
    \/ Main
    \/ Signal
    \/ Kill
    \/ Terminated

Spec == Init /\ [][Next]_vars

(***************************************************************************)
(* Goroutines are scheduled fairly and the ticker keeps firing. Nothing is *)
(* assumed of the clients, of SIGTERM or of the kill.                      *)
(***************************************************************************)
Fairness ==
    /\ \A s \in Streams : WF_vars(Handler(s))
    /\ WF_vars(Drain)
    /\ WF_vars(Tick)
    /\ WF_vars(Main)

FairSpec == Spec /\ Fairness

-----------------------------------------------------------------------------
(* Properties.                                                             *)

\* Types; in particular the counters of a stream never become negative.
TypeOK ==
    /\ phase \in {"serving", "stopping", "stopped", "closing", "waiting", "exited", "killed"}
    /\ buf \in {"open", "flagged", "closed"}
    /\ handler \in [Streams -> HandlerState]
    /\ sent \in [Streams -> Nat]
    /\ received \in [Streams -> Nat]
    /\ pushed \in Nat
    /\ ch \in Seq(Event)
    /\ drain \in {"loop", "range", "exited"}
    /\ pending \in Seq(Event)
    /\ accepted \in Seq(Event)
    /\ handed \in Seq(Event)
    /\ written \in SUBSET Event

\* Buffer.Push tests b.closed and sends in two steps, so a Close between
\* them would panic the process. It never does: main closes the buffer only
\* after GracefulStop has seen every handler return.
NoSendOnClosedChannel ==
    \A s \in Streams : handler[s] = "send" => buf # "closed"

\* While the process lives, every event Push accepted is exactly once in a
\* published batch, in the drain goroutine's batch or in the channel, and in
\* the order in which it was accepted.
EventConservation ==
    Alive => accepted = handed \o pending \o ch

\* A kill at any moment loses at most Cap + BatchSize accepted events that were
\* never given to Publish: a channel that was filled again after its event
\* completed a batch that is not yet published.
BoundedLoss ==
    Len(accepted) <= Len(handed) + Cap + BatchSize

\* The channel, the batch and Publish together are a queue that only a kill
\* makes lossy: whatever the handlers, the ticker and the shutdown do, events
\* leave in the order Push accepted them and none twice.
Queue == INSTANCE LossyQueue WITH
             in <- accepted,
             out <- handed,
             done <- IF Alive THEN Len(handed) ELSE Len(accepted)
ImplementsLossyQueue == Queue!Spec

\* While the service is not told to stop, an accepted event does not wait
\* for its batch to fill: the ticker gives it to Publish.
AcceptedIsPublished ==
    \A n \in 1 .. Cardinality(Streams) * MaxEvents :
        Len(accepted) >= n ~> (Len(handed) >= n \/ phase # "serving")

\* Once it is told to stop and no client holds an RPC open, the process
\* exits (or is killed): main, the handlers and drainLoop never wait on one
\* another for ever.
ShutdownCompletes ==
    (phase = "stopping" /\ \A s \in Streams : ~InRPC(s)) ~> phase \in {"exited", "killed"}
=============================================================================
