-------------------------- MODULE TelemetryClient --------------------------
(***************************************************************************)
(* services/bot-worker/internal/telemetry: the bots of a worker emit their *)
(* events into a bounded queue, one sender goroutine takes them and sends  *)
(* them on a gRPC stream it opens again after a failure, and main stops    *)
(* the bots and then the client on SIGTERM.                                *)
(*                                                                         *)
(* Events are numbered in the order the queue took them.                   *)
(***************************************************************************)
EXTENDS Naturals, Sequences, FiniteSets

CONSTANTS
    Bots,          \* goroutines of runWorker
    QueueCap,      \* TELEMETRY_BUFFER: capacity of the queue
    MaxEmits,      \* bound: events emitted or dropped
    MaxFaults      \* bound: failures of the connection

ASSUME ClientAssumption ==
    /\ QueueCap \in Nat \ {0}
    /\ MaxEmits \in Nat /\ MaxFaults \in Nat

VARIABLES
    main,       \* program counter of main
    bot,        \* program counter of each runWorker
    calls,      \* history: calls of Emit
    queue,
    emitted, dropped,
    sender,     \* program counter of run
    held,       \* the event run works on, as a sequence of at most one
    stream,     \* "none", "up", or "broken" and run has not noticed
    wire,       \* events sent on the stream, not yet received
    arrived,    \* events the ingester received, in order
    faults

botVars == <<bot, calls, queue, emitted, dropped>>
net == <<stream, wire, arrived>>
clientVars == <<main, bot, calls, queue, emitted, dropped, sender, held, stream, wire,
                arrived, faults>>

ClientInit ==
    /\ main = "serving"
    /\ bot = [b \in Bots |-> "idle"]
    /\ calls = 0
    /\ queue = <<>>
    /\ emitted = 0
    /\ dropped = 0
    /\ sender = "select"
    /\ held = <<>>
    /\ stream = "none"
    /\ wire = <<>>
    /\ arrived = <<>>
    /\ faults = 0

\* ctx of main, the bots and the sender: SIGTERM ends it.
Cancelled == main # "serving"

Fault ==
    /\ faults < MaxFaults
    /\ faults' = faults + 1

\* A call on the connection fails: the connection does, or ctx is done.
CallFails ==
    \/ Fault
    \/ Cancelled /\ UNCHANGED faults

-----------------------------------------------------------------------------
(* The bots.                                                               *)

\* The timer fires and a request is sent to the contestant's engine.
Request(b) ==
    /\ bot[b] = "idle"
    /\ calls + Cardinality({x \in Bots : bot[x] = "busy"}) < MaxEmits
    /\ bot' = [bot EXCEPT ![b] = "busy"]
    /\ UNCHANGED <<main, calls, queue, emitted, dropped, sender, held, net, faults>>

\* The request is answered, or fails, and Emit is called: the event is
\* queued, dropped when the queue is full, or ignored once closed is set.
Emit(b) ==
    /\ bot[b] = "busy"
    /\ bot' = [bot EXCEPT ![b] = "idle"]
    /\ calls' = calls + 1
    /\ LET open == main \in {"serving", "stopping"}
           room == Len(queue) < QueueCap
       IN  /\ queue' = IF open /\ room THEN Append(queue, emitted + 1) ELSE queue
           /\ emitted' = IF open /\ room THEN emitted + 1 ELSE emitted
           /\ dropped' = IF open /\ ~ room THEN dropped + 1 ELSE dropped
    /\ UNCHANGED <<main, sender, held, net, faults>>

\* ctx is done: the select returns, or the pending request fails with it.
BotReturns(b) ==
    /\ Cancelled
    /\ bot[b] \in {"idle", "busy"}
    /\ bot' = [bot EXCEPT ![b] = "returned"]
    /\ UNCHANGED <<main, calls, queue, emitted, dropped, sender, held, net, faults>>

-----------------------------------------------------------------------------
(* run.                                                                    *)

\* case e := <-c.queue.
Take ==
    /\ sender = "select"
    /\ queue # <<>>
    /\ held' = <<Head(queue)>>
    /\ queue' = Tail(queue)
    /\ sender' = IF stream = "none" THEN "open" ELSE "send"
    /\ UNCHANGED <<main, bot, calls, emitted, dropped, net, faults>>

\* Mutant: the loop goes on after the stream was opened.
openStream_Continue ==
    /\ sender = "open"
    /\ held' = <<>>
    /\ \/ /\ ~ Cancelled
          /\ stream' = "up"
          /\ sender' = "select"
          /\ UNCHANGED faults
       \/ /\ CallFails
          /\ sender' = "backoff"
          /\ UNCHANGED stream
    /\ UNCHANGED <<main, botVars, wire, arrived>>

\* Mutant: a stream that cannot be opened ends the goroutine.
openStream_GiveUp ==
    /\ sender = "open"
    /\ \/ /\ ~ Cancelled
          /\ stream' = "up"
          /\ sender' = "send"
          /\ UNCHANGED <<held, faults>>
       \/ /\ CallFails
          /\ sender' = "returned"
          /\ held' = <<>>
          /\ UNCHANGED stream
    /\ UNCHANGED <<main, botVars, wire, arrived>>

\* openStream; when it fails, the event is gone.
openStream ==
    /\ sender = "open"
    /\ \/ /\ ~ Cancelled
          /\ stream' = "up"
          /\ sender' = "send"
          /\ UNCHANGED <<held, faults>>
       \/ /\ CallFails
          /\ sender' = "backoff"
          /\ held' = <<>>
          /\ UNCHANGED stream
    /\ UNCHANGED <<main, botVars, wire, arrived>>

\* Mutant: an event that could not be sent goes back to the queue.
Send_Requeue ==
    /\ sender = "send"
    /\ held' = <<>>
    /\ \/ /\ sender' = "select"
          /\ wire' = IF stream = "up" THEN wire \o held ELSE wire
          /\ UNCHANGED <<stream, faults, queue>>
       \/ /\ \/ stream = "broken" /\ UNCHANGED faults
             \/ CallFails
          /\ sender' = "backoff"
          /\ stream' = "none"
          /\ wire' = <<>>
          /\ queue' = queue \o held
    /\ UNCHANGED <<main, bot, calls, emitted, dropped, arrived>>

\* stream.Send returns nil once the message is buffered, also on a stream
\* that broke unnoticed; when it fails, the event is gone and the stream is
\* given up.
Send ==
    /\ sender = "send"
    /\ held' = <<>>
    /\ \/ /\ sender' = "select"
          /\ wire' = IF stream = "up" THEN wire \o held ELSE wire
          /\ UNCHANGED <<stream, faults>>
       \/ /\ \/ stream = "broken" /\ UNCHANGED faults
             \/ CallFails
          /\ sender' = "backoff"
          /\ stream' = "none"
          /\ wire' = <<>>
    /\ UNCHANGED <<main, botVars, arrived>>

\* Mutant: the sender retries to open the stream before it looks at its select.
sleepBackoff_Retry ==
    /\ sender = "backoff"
    /\ sender' = "open"
    /\ UNCHANGED <<main, botVars, held, net, faults>>

\* sleepBackoff: the time passes, or the client is closed.
sleepBackoff ==
    /\ sender = "backoff"
    /\ \/ sender' = "select"
       \/ main \in {"waiting", "exited"} /\ sender' = "returned"
    /\ UNCHANGED <<main, botVars, held, net, faults>>

\* case <-c.done or <-ctx.Done(): the queue is left as it is. ctx is done in
\* both, so the stream is reset and what is on the wire may be lost.
StopSender ==
    /\ Cancelled
    /\ sender = "select"
    /\ sender' = "returned"
    /\ stream' = "none"
    /\ wire' = <<>>
    /\ UNCHANGED <<main, botVars, held, arrived, faults>>

-----------------------------------------------------------------------------
(* The connection.                                                         *)

Deliver ==
    /\ wire # <<>>
    /\ arrived' = Append(arrived, Head(wire))
    /\ wire' = Tail(wire)
    /\ UNCHANGED <<main, botVars, sender, held, stream, faults>>

\* What the ingester still receives of a broken stream was delivered before the
\* Break here.  That leaves out only an old handler that goes on receiving after
\* the sender, 100 ms of backoff or more later, has opened the next stream.
Break ==
    /\ stream = "up"
    /\ Fault
    /\ stream' = "broken"
    /\ wire' = <<>>
    /\ UNCHANGED <<main, botVars, sender, held, arrived>>

-----------------------------------------------------------------------------
(* main.                                                                   *)

WorkerSignal ==
    /\ main = "serving"
    /\ main' = "stopping"
    /\ UNCHANGED <<botVars, sender, held, net, faults>>

\* wg.Wait, then tele.Close sets closed.
SetClosed ==
    /\ main = "stopping"
    /\ \A b \in Bots : bot[b] = "returned"
    /\ main' = "closed"
    /\ UNCHANGED <<botVars, sender, held, net, faults>>

\* close(c.done).
CloseDone ==
    /\ main = "closed"
    /\ main' = "waiting"
    /\ UNCHANGED <<botVars, sender, held, net, faults>>

\* c.wg.Wait, conn.Close.
WorkerExit ==
    /\ main = "waiting"
    /\ sender = "returned"
    /\ main' = "exited"
    /\ UNCHANGED <<botVars, sender, held, net, faults>>

\* The process has ended.
WorkerGone ==
    /\ main = "exited"
    /\ UNCHANGED clientVars

Sender == Take \/ openStream \/ Send \/ sleepBackoff \/ StopSender
ClientMain == SetClosed \/ CloseDone \/ WorkerExit

ClientNext ==
    \/ \E b \in Bots : Request(b) \/ Emit(b) \/ BotReturns(b)
    \/ Sender
    \/ Deliver \/ Break
    \/ WorkerSignal \/ ClientMain \/ WorkerGone

\* The goroutines run, and a request ends at its timeout.
ClientFairness ==
    /\ WF_clientVars(Sender) /\ WF_clientVars(ClientMain)
    /\ \A b \in Bots : WF_clientVars(Emit(b) \/ BotReturns(b))

ClientSpec == ClientInit /\ [][ClientNext]_clientVars

-----------------------------------------------------------------------------
(* Properties.                                                             *)

\* Seen from the ingester, the queue, the sender's hand and the streams are
\* one lossy queue: over any number of broken and opened streams events
\* arrive in the order they were emitted and none twice (an event whose fate
\* is unknown is not sent again), and a failure loses the oldest ones.
EventQueue == INSTANCE LossyQueue WITH
             in <- [i \in 1 .. emitted |-> i],
             out <- arrived,
             done <- emitted - Len(wire) - Len(held) - Len(queue)
ClientIsLossyQueue == EventQueue!Spec

\* Only failures and the shutdown lose events: until the first of them every
\* event the queue took is received, on the wire, in the sender's hand or in
\* the queue.
LosslessWhileHealthy ==
    faults = 0 /\ main = "serving" =>
        arrived \o wire \o held \o queue = [i \in 1 .. emitted |-> i]

\* An outage does not end telemetry: a queued event is taken by the sender.
QueueMoves ==
    \A n \in 1 .. MaxEmits :
        (\E i \in DOMAIN queue : queue[i] = n)
            ~> (~ (\E i \in DOMAIN queue : queue[i] = n) \/ main # "serving")

\* After SIGTERM the worker exits, whatever the connection does and however
\* full the queue is: the bots, the sender and Close never wait for ever.
WorkerExits == (main = "stopping") ~> (main = "exited")
=============================================================================
