-------------------------- MODULE TelemetryProofs --------------------------
(***************************************************************************)
(* Proofs that the telemetry ingester keeps its types, never sends on a    *)
(* closed channel, keeps every accepted event exactly once and in order,   *)
(* loses a bounded number of events when it is killed and none when it     *)
(* exits, for every set of streams, capacity and batch size; and that the  *)
(* bot-worker's client delivers its events in order and none twice over    *)
(* any number of streams, and loses none without a failure.                *)
(***************************************************************************)
EXTENDS Telemetry, SequenceTheorems, TLAPS

-----------------------------------------------------------------------------
(* Facts about sequences.                                                  *)

\* Moving the head of the channel to the end of the batch keeps the whole.
LEMMA ShiftHead ==
  ASSUME NEW S, NEW h \in Seq(S), NEW p \in Seq(S), NEW c \in Seq(S), c # <<>>
  PROVE  h \o p \o c = h \o Append(p, Head(c)) \o Tail(c)
OBVIOUS

\* The length of the whole is the sum of the lengths.
LEMMA LenOfThree ==
  ASSUME NEW S, NEW h \in Seq(S), NEW p \in Seq(S), NEW c \in Seq(S)
  PROVE  /\ h \o p \o c \in Seq(S)
         /\ Len(h \o p \o c) = Len(h) + Len(p) + Len(c)
OBVIOUS

-----------------------------------------------------------------------------
(* Type correctness.                                                       *)

\* Publish keeps the types of the two histories it extends.
LEMMA PublishType ==
  ASSUME TypeOK, NEW batch \in Seq(Event), Publish(batch)
  PROVE  handed' \in Seq(Event) /\ written' \in SUBSET Event
<1>1. handed' \in Seq(Event)
  BY DEF Publish, TypeOK
<1>2. \A i \in 1 .. Len(batch) : batch[i] \in Event
  OBVIOUS
<1>3. written' \in SUBSET Event
  BY <1>2 DEF Publish, TypeOK
<1> QED
  BY <1>1, <1>3

\* One step of the program keeps the types.
LEMMA TypeStep == TypeOK /\ [Next]_vars => TypeOK'
<1> SUFFICES ASSUME TypeOK, [Next]_vars PROVE TypeOK'
  OBVIOUS
<1> USE DEF TypeOK, HandlerState
<1>1. ASSUME NEW s \in Streams, OpenStream(s) PROVE TypeOK'
  BY <1>1 DEF OpenStream, mainVars, streamVars, drainVars
<1>2. ASSUME NEW s \in Streams, Recv(s) PROVE TypeOK'
  BY <1>2 DEF Recv, mainVars, drainVars
<1>3. ASSUME NEW s \in Streams, EndStream(s) PROVE TypeOK'
  BY <1>3 DEF EndStream, mainVars, streamVars, drainVars
<1>4. ASSUME NEW s \in Streams, PushCheck(s) PROVE TypeOK'
  BY <1>4 DEF PushCheck, mainVars, streamVars, drainVars
<1>5. ASSUME NEW s \in Streams, PushSend(s) PROVE TypeOK'
  <2>1. <<s, sent[s]>> \in Event
    BY DEF Event
  <2>2. ch' \in Seq(Event) /\ accepted' \in Seq(Event)
    <3>1. /\ Append(ch, <<s, sent[s]>>) \in Seq(Event)
          /\ Append(accepted, <<s, sent[s]>>) \in Seq(Event)
      BY <2>1, AppendProperties
    <3> QED
      BY <1>5, <3>1 DEF PushSend
  <2>3. handler' \in [Streams -> HandlerState]
    BY <1>5 DEF PushSend
  <2> QED
    BY <1>5, <2>2, <2>3 DEF PushSend, mainVars, streamVars, drainVars
<1>6. ASSUME NEW s \in Streams, PushCount(s) PROVE TypeOK'
  BY <1>6 DEF PushCount, mainVars, drainVars
<1>7. CASE DrainRecv
  <2>1. Head(ch) \in Event /\ Tail(ch) \in Seq(Event)
    BY <1>7 DEF DrainRecv
  <2>2. Append(pending, Head(ch)) \in Seq(Event)
    BY <2>1
  <2> QED
    BY <1>7, <2>1, <2>2 DEF DrainRecv, mainVars, streamVars
<1>8. CASE Tick \/ DrainFlush
  <2>1. /\ Flush /\ UNCHANGED <<mainVars, handler, streamVars, ch, accepted, drain>>
    BY <1>8 DEF Tick, DrainFlush
  <2>2. handed' \in Seq(Event) /\ written' \in SUBSET Event /\ pending' = <<>>
    BY <2>1, PublishType DEF Flush
  <2> QED
    BY <2>1, <2>2 DEF mainVars, streamVars
<1>9. CASE StartRange
  BY <1>9 DEF StartRange, mainVars, streamVars
<1>10. CASE DrainExit
  BY <1>10, PublishType DEF DrainExit, Flush, mainVars, streamVars
<1>11. CASE Main
  BY <1>11 DEF Main, GracefulStop, CloseFlag, CloseChannel, Exit, streamVars, drainVars
<1>12. CASE Signal
  BY <1>12 DEF Signal, streamVars, drainVars
<1>13. CASE Kill
  BY <1>13 DEF Kill, streamVars
<1>14. CASE Terminated \/ UNCHANGED vars
  BY <1>14 DEF Terminated, vars
<1> QED
  BY <1>1, <1>2, <1>3, <1>4, <1>5, <1>6, <1>7, <1>8, <1>9, <1>10, <1>11, <1>12,
     <1>13, <1>14 DEF Next, Handler, Drain

\* The states of every behaviour have the types of the program's variables.
THEOREM TypeCorrect == Spec => []TypeOK
<1>1. Init => TypeOK
  BY DEF Init, TypeOK, HandlerState
<1> QED
  BY <1>1, TypeStep, PTL DEF Spec

-----------------------------------------------------------------------------
(* Safety. No conjunct of IInv is inductive without the others: that the   *)
(* channel is never sent to once closed rests on the phase main is in, and *)
(* that a graceful exit leaves nothing behind rests on both.               *)

\* Once GracefulStop has returned, and once the channel is closed, no handler runs.
QuietWhenStopped ==
    (phase \in {"stopped", "closing", "waiting", "exited"} \/ buf # "open")
        => \A s \in Streams : ~InRPC(s)

\* The buffer is closed by main alone, and the drain goroutine leaves last.
CloseOrder ==
    /\ phase \in {"serving", "stopping", "stopped"} => buf = "open"
    /\ phase = "closing" => buf = "flagged"
    /\ phase = "exited" => drain = "exited"
    /\ drain = "exited" => buf = "closed" /\ ch = <<>> /\ pending = <<>>

\* Neither the channel nor the batch outgrows its capacity.
Bounded ==
    /\ Len(ch) <= Cap
    /\ Len(pending) <= BatchSize

IInv == TypeOK /\ QuietWhenStopped /\ CloseOrder /\ Bounded /\ EventConservation /\ BoundedLoss

\* Only these actions move events; every other one leaves the four sequences
\* alone and does not bring a killed process back.
LEMMA NoTransfer ==
  ASSUME \/ \E s \in Streams : OpenStream(s) \/ Recv(s) \/ EndStream(s)
         \/ \E s \in Streams : PushCheck(s) \/ PushCount(s)
         \/ StartRange \/ Main \/ Signal \/ Terminated \/ UNCHANGED vars
  PROVE  /\ UNCHANGED <<ch, pending, handed, accepted>>
         /\ phase' # "killed" => phase # "killed"
<1>1. CASE \E s \in Streams : OpenStream(s) \/ Recv(s) \/ EndStream(s)
  BY <1>1 DEF OpenStream, Recv, EndStream, mainVars, drainVars
<1>2. CASE (\E s \in Streams : PushCheck(s) \/ PushCount(s)) \/ StartRange
  BY <1>2 DEF PushCheck, PushCount, StartRange, mainVars, drainVars
<1>3. CASE Main \/ Signal
  BY <1>3 DEF Main, GracefulStop, CloseFlag, CloseChannel, Exit, Signal, drainVars
<1>4. CASE Terminated \/ UNCHANGED vars
  BY <1>4 DEF Terminated, vars
<1> QED
  BY <1>1, <1>2, <1>3, <1>4

\* The handlers, main and the drain goroutine keep the close order.
LEMMA ControlStep ==
  ASSUME IInv, [Next]_vars
  PROVE  QuietWhenStopped' /\ CloseOrder'
<1> USE DEF IInv, QuietWhenStopped, CloseOrder, InRPC, TypeOK, HandlerState
<1>1. ASSUME NEW s \in Streams, OpenStream(s) PROVE QuietWhenStopped' /\ CloseOrder'
  BY <1>1 DEF OpenStream, mainVars, drainVars
<1>2. ASSUME NEW s \in Streams, Recv(s) PROVE QuietWhenStopped' /\ CloseOrder'
  BY <1>2 DEF Recv, Alive, mainVars, drainVars
<1>3. ASSUME NEW s \in Streams, EndStream(s) PROVE QuietWhenStopped' /\ CloseOrder'
  BY <1>3 DEF EndStream, Alive, mainVars, drainVars
<1>4. ASSUME NEW s \in Streams, PushCheck(s) PROVE QuietWhenStopped' /\ CloseOrder'
  BY <1>4 DEF PushCheck, Alive, mainVars, drainVars
<1>5. ASSUME NEW s \in Streams, PushSend(s) PROVE QuietWhenStopped' /\ CloseOrder'
  <2>1. buf = "open" /\ drain # "exited"
    BY <1>5 DEF PushSend
  <2> QED
    BY <1>5, <2>1 DEF PushSend, mainVars, drainVars
<1>6. ASSUME NEW s \in Streams, PushCount(s) PROVE QuietWhenStopped' /\ CloseOrder'
  BY <1>6 DEF PushCount, Alive, mainVars, drainVars
<1>7. CASE DrainRecv
  BY <1>7 DEF DrainRecv, mainVars
<1>8. CASE Tick \/ DrainFlush \/ StartRange
  BY <1>8 DEF Tick, DrainFlush, StartRange, Flush, mainVars
<1>9. CASE DrainExit
  BY <1>9 DEF DrainExit, Flush, mainVars
<1>10. CASE Main
  BY <1>10 DEF Main, GracefulStop, CloseFlag, CloseChannel, Exit, drainVars
<1>11. CASE Signal
  BY <1>11 DEF Signal, drainVars
<1>12. CASE Kill
  BY <1>12 DEF Kill
<1>13. CASE Terminated \/ UNCHANGED vars
  BY <1>13 DEF Terminated, vars
<1> QED
  BY <1>1, <1>2, <1>3, <1>4, <1>5, <1>6, <1>7, <1>8, <1>9, <1>10, <1>11, <1>12,
     <1>13 DEF Next, Handler, Drain

\* No event is lost, duplicated or overtaken, and the buffers stay bounded.
LEMMA DataStep ==
  ASSUME IInv, [Next]_vars
  PROVE  EventConservation' /\ Bounded'
<1>0. /\ ch \in Seq(Event) /\ pending \in Seq(Event)
      /\ handed \in Seq(Event) /\ accepted \in Seq(Event)
      /\ Bounded /\ EventConservation
  BY DEF IInv, TypeOK
<1>1. ASSUME NEW s \in Streams, PushSend(s)
      PROVE  EventConservation' /\ Bounded'
  <2>1. PICK e \in Event : e = <<s, sent[s]>>
    BY DEF Event, IInv, TypeOK
  <2>2. CASE Len(ch) < Cap
    <3>1. /\ ch' = Append(ch, e) /\ accepted' = Append(accepted, e)
          /\ pending' = pending /\ handed' = handed /\ Alive
      BY <1>1, <2>1, <2>2, IngesterAssumption DEF PushSend, drainVars
    <3>2. /\ Append(ch, e) = ch \o <<e>> /\ <<e>> \in Seq(Event)
          /\ handed \o pending \o ch \in Seq(Event)
      BY <1>0, AppendIsConcat
    <3>3. handed \o pending \o (ch \o <<e>>) = (handed \o pending \o ch) \o <<e>>
      BY <1>0
    <3>4. accepted = (handed \o pending) \o ch
      BY <1>0, <3>1 DEF EventConservation
    <3>5. accepted' = (handed' \o pending') \o ch'
      <4>1. accepted' = accepted \o <<e>>
        BY <1>0, <3>1, AppendIsConcat
      <4> QED
        BY <3>1, <3>2, <3>3, <3>4, <4>1
    <3>6. Len(ch') = Len(ch) + 1
      BY <1>0, <3>1, AppendProperties
    <3> QED
      BY <1>0, <2>2, <3>1, <3>5, <3>6, IngesterAssumption DEF EventConservation, Bounded
  <2>3. CASE ~(Len(ch) < Cap)
    BY <1>0, <1>1, <2>3 DEF PushSend, EventConservation, Bounded, Alive, mainVars, drainVars
  <2> QED
    BY <2>2, <2>3
<1>2. CASE DrainRecv
  <2> DEFINE batch == Append(pending, Head(ch))
  <2>1. /\ ch # <<>> /\ Alive /\ ch' = Tail(ch)
        /\ UNCHANGED accepted
        /\ Head(ch) \in Event
    BY <1>0, <1>2 DEF DrainRecv
  <2>2. batch \in Seq(Event) /\ Len(batch) = Len(pending) + 1
    BY <1>0, <2>1, AppendProperties
  <2>3. accepted = (handed \o batch) \o Tail(ch)
    <3>1. handed \o pending \o ch = handed \o Append(pending, Head(ch)) \o Tail(ch)
      BY <1>0, <2>1, ShiftHead
    <3>2. accepted = handed \o pending \o ch
      BY <1>0, <2>1 DEF EventConservation
    <3> QED
      BY <3>1, <3>2
  <2>4. Len(Tail(ch)) <= Cap
    BY <1>0, <2>1, HeadTailProperties, IngesterAssumption DEF Bounded
  <2>5. Len(batch) <= BatchSize
    BY <1>0, <1>2, <2>2, IngesterAssumption DEF DrainRecv, BatchFull
  <2>6. pending' = batch /\ handed' = handed
    BY <1>2 DEF DrainRecv
  <2> HIDE DEF batch
  <2> QED
    BY <2>1, <2>3, <2>4, <2>5, <2>6 DEF EventConservation, Bounded
<1>3. CASE Tick \/ DrainFlush \/ DrainExit
  <2>1. /\ handed' = handed \o pending /\ pending' = <<>>
        /\ UNCHANGED <<ch, accepted>> /\ Alive
    BY <1>3 DEF Tick, DrainFlush, DrainExit, Flush, Publish
  <2>2. handed' \o pending' = handed \o pending
    BY <1>0, <2>1, ConcatProperties, ConcatEmptySeq
  <2> QED
    BY <1>0, <2>1, <2>2, IngesterAssumption DEF EventConservation, Bounded
<1>4. CASE Kill
  BY <1>0, <1>4, IngesterAssumption DEF Kill, EventConservation, Alive, Bounded
<1>5. CASE /\ UNCHANGED <<ch, pending, handed, accepted>>
           /\ phase' # "killed" => phase # "killed"
  BY <1>0, <1>5 DEF EventConservation, Alive, Bounded
<1> QED
  BY <1>1, <1>2, <1>3, <1>4, <1>5, NoTransfer DEF Next, Handler, Drain

\* What a kill can lose stays bounded, in the process and after it is gone.
LEMMA LossStep ==
  ASSUME IInv, [Next]_vars
  PROVE  BoundedLoss'
<1>1. /\ ch' \in Seq(Event) /\ pending' \in Seq(Event)
      /\ handed' \in Seq(Event) /\ accepted' \in Seq(Event)
  BY TypeStep DEF IInv, TypeOK
<1>2. Bounded' /\ EventConservation'
  BY DataStep
<1>3. CASE phase' # "killed"
  <2>1. accepted' = handed' \o pending' \o ch'
    BY <1>2, <1>3 DEF EventConservation, Alive
  <2>2. Len(accepted') = Len(handed') + Len(pending') + Len(ch')
    BY <1>1, <2>1, LenOfThree
  <2> QED
    BY <1>1, <1>2, <2>2, IngesterAssumption DEF Bounded, BoundedLoss
<1>4. CASE phase' = "killed"
  <2>1. handed' = handed /\ accepted' = accepted
    BY <1>4 DEF Next, Handler, Drain, Main, Alive, OpenStream, Recv, EndStream, PushCheck,
       PushSend, PushCount, DrainRecv, DrainFlush, Tick, StartRange, DrainExit, GracefulStop,
       CloseFlag, CloseChannel, Exit, Signal, Kill, Terminated, mainVars, vars
  <2> QED
    BY <2>1 DEF IInv, BoundedLoss
<1> QED
  BY <1>3, <1>4

\* IInv is an inductive invariant of the ingester.
THEOREM InductiveInvariant == Spec => []IInv
<1>1. Init => IInv
  BY IngesterAssumption DEF Init, IInv, TypeOK, HandlerState, QuietWhenStopped, CloseOrder,
     Bounded, EventConservation, BoundedLoss, InRPC
<1>2. IInv /\ [Next]_vars => IInv'
  <2> SUFFICES ASSUME IInv, [Next]_vars PROVE IInv'
    OBVIOUS
  <2>1. TypeOK'
    BY TypeStep DEF IInv
  <2> QED
    BY <2>1, ControlStep, DataStep, LossStep DEF IInv
<1> QED
  BY <1>1, <1>2, PTL DEF Spec

\* Buffer.Push never sends on the channel after Buffer.Close has closed it,
\* although it tests the flag and sends in two steps.
THEOREM PushNeverPanics == Spec => []NoSendOnClosedChannel
<1>1. IInv => NoSendOnClosedChannel
  BY DEF IInv, QuietWhenStopped, NoSendOnClosedChannel, InRPC
<1> QED
  BY <1>1, InductiveInvariant, PTL

\* drainLoop keeps every accepted event, once and in order, until it has
\* been given to Publish.
THEOREM EventsConserved == Spec => []EventConservation
<1>1. IInv => EventConservation
  BY DEF IInv
<1> QED
  BY <1>1, InductiveInvariant, PTL

\* Killing the ingester loses at most Cap + BatchSize accepted events.
THEOREM KillLossBounded == Spec => []BoundedLoss
<1>1. IInv => BoundedLoss
  BY DEF IInv
<1> QED
  BY <1>1, InductiveInvariant, PTL

\* What was given to Publish is the beginning of what Push accepted.
HandedIsPrefix ==
    /\ Len(handed) <= Len(accepted)
    /\ \A i \in 1 .. Len(handed) : handed[i] = accepted[i]

\* The first of three sequences is the beginning of the whole.
LEMMA FirstOfThree ==
  ASSUME NEW S, NEW h \in Seq(S), NEW p \in Seq(S), NEW c \in Seq(S), NEW a, a = h \o p \o c
  PROVE  Len(h) <= Len(a) /\ \A i \in 1 .. Len(h) : h[i] = a[i]
<1>1. PICK hp \in Seq(S) : /\ hp = h \o p /\ Len(hp) = Len(h) + Len(p)
                           /\ \A i \in 1 .. Len(h) : hp[i] = h[i]
  <2>1. h \o p \in Seq(S) /\ Len(h \o p) = Len(h) + Len(p)
    OBVIOUS
  <2>2. \A i \in 1 .. Len(h) : (h \o p)[i] = h[i]
    OBVIOUS
  <2> QED
    BY <2>1, <2>2
<1>2. Len(h) \in Nat /\ Len(p) \in Nat /\ Len(c) \in Nat
  OBVIOUS
<1>3. Len(a) = Len(hp) + Len(c) /\ \A i \in 1 .. Len(hp) : a[i] = hp[i]
  BY <1>1
<1>4. \A i \in 1 .. Len(h) : i \in 1 .. Len(hp)
  BY <1>1, <1>2
<1> QED
  BY <1>1, <1>2, <1>3, <1>4

\* Whatever the ticker, the shutdown and a kill do, drainLoop gives Publish the
\* first events Push accepted, in that order: what a kill loses are the latest.
THEOREM IngesterHandsOnPrefix == Spec => []HandedIsPrefix
<1>1. Init => HandedIsPrefix
  BY DEF Init, HandedIsPrefix
<1>2. ASSUME IInv, IInv', HandedIsPrefix, [Next]_vars PROVE HandedIsPrefix'
  <2>1. CASE phase' # "killed"
    <3>1. /\ ch' \in Seq(Event) /\ pending' \in Seq(Event) /\ handed' \in Seq(Event)
          /\ accepted' = handed' \o pending' \o ch'
      BY <1>2, <2>1 DEF IInv, TypeOK, EventConservation, Alive
    <3>2. Len(handed') <= Len(accepted') /\ \A i \in 1 .. Len(handed') : handed'[i] = accepted'[i]
      BY <3>1, FirstOfThree
    <3> QED
      BY <3>2 DEF HandedIsPrefix
  <2>2. CASE phase' = "killed"
    <3>1. handed' = handed /\ accepted' = accepted
      BY <1>2, <2>2 DEF Next, Handler, Drain, Main, Alive, OpenStream, Recv, EndStream, PushCheck,
         PushSend, PushCount, DrainRecv, DrainFlush, Tick, StartRange, DrainExit, GracefulStop,
         CloseFlag, CloseChannel, Exit, Signal, Kill, Terminated, mainVars, vars
    <3> QED
      BY <1>2, <3>1 DEF HandedIsPrefix
  <2> QED
    BY <2>1, <2>2
<1> QED
  BY <1>1, <1>2, InductiveInvariant, PTL DEF Spec

\* When main exits, drainLoop has given every accepted event to Publish.
THEOREM GracefulExitDrains == Spec => [](phase = "exited" => handed = accepted)
<1>1. IInv => (phase = "exited" => handed = accepted)
  <2> SUFFICES ASSUME IInv, phase = "exited" PROVE handed = accepted
    OBVIOUS
  <2>1. accepted = handed \o <<>> \o <<>>
    BY DEF IInv, CloseOrder, EventConservation, Alive
  <2>2. handed \in Seq(Event)
    BY DEF IInv, TypeOK
  <2> QED
    BY <2>1, <2>2, ConcatEmptySeq
<1> QED
  BY <1>1, InductiveInvariant, PTL

-----------------------------------------------------------------------------
(* The ingester implements LossyQueue.                                     *)

\* The middle of three sequences is the subsequence that starts after the first.
LEMMA MiddleIsSubSeq ==
  ASSUME NEW S, NEW h \in Seq(S), NEW b \in Seq(S), NEW t \in Seq(S)
  PROVE  SubSeq((h \o b) \o t, Len(h) + 1, Len(h) + Len(b)) = b
<1>1. PICK w : w = (h \o b) \o t
  OBVIOUS
<1>2. w \in Seq(S) /\ Len(w) = Len(h) + Len(b) + Len(t)
  BY <1>1
<1>3. \A i \in 1 .. Len(b) : w[Len(h) + i] = b[i]
  BY <1>1
<1>4. PICK v : v = SubSeq(w, Len(h) + 1, Len(h) + Len(b))
  OBVIOUS
<1>5. /\ v \in Seq(S)
      /\ Len(v) = Len(b)
      /\ \A i \in 1 .. Len(b) : v[i] = w[Len(h) + i]
  <2>1. \A i \in (Len(h) + 1) .. (Len(h) + Len(b)) : w[i] \in S
    BY <1>2
  <2>2. Len(h) \in Nat /\ Len(b) \in Nat
    OBVIOUS
  <2> QED
    BY <1>4, <2>1, <2>2, SubSeqProperties
<1>6. \A i \in 1 .. Len(v) : v[i] = b[i]
  BY <1>3, <1>5
<1>7. v = b
  BY <1>5, <1>6, SeqEqual
<1> QED
  BY <1>1, <1>4, <1>7

\* Handing a batch to Publish is a delivery of the oldest events inside.
LEMMA FlushDelivers ==
  ASSUME NEW batch \in Seq(Event), NEW rest \in Seq(Event),
         handed \in Seq(Event), accepted = (handed \o batch) \o rest,
         handed' = handed \o batch, accepted' = accepted, Alive, Alive'
  PROVE  [Queue!Next]_(Queue!qvars)
<1>1. Len(handed') = Len(handed) + Len(batch) /\ Len(handed) \in Nat /\ Len(batch) \in Nat
  OBVIOUS
<1>2. CASE Len(batch) = 0
  <2>1. handed' = handed
    BY <1>2
  <2> QED
    BY <2>1 DEF Queue!qvars
<1>3. CASE Len(batch) > 0
  <2>1. SubSeq(accepted, Len(handed) + 1, Len(handed) + Len(batch)) = batch
    BY MiddleIsSubSeq
  <2>2. Len(accepted) >= Len(handed) + Len(batch) /\ Len(accepted) \in Nat
    BY LenOfThree
  <2>3. Queue!Deliver(Len(batch))
    BY <1>1, <2>1 DEF Queue!Deliver
  <2>4. Len(batch) \in 1 .. Len(accepted) - Len(handed)
    BY <1>1, <1>3, <2>2
  <2> QED
    BY <2>3, <2>4 DEF Queue!Next
<1> QED
  BY <1>1, <1>2, <1>3

\* Every step of the ingester is a step of the queue, or none.
LEMMA QueueStep ==
  ASSUME IInv, [Next]_vars
  PROVE  [Queue!Next]_(Queue!qvars)
<1>0. /\ ch \in Seq(Event) /\ pending \in Seq(Event)
      /\ handed \in Seq(Event) /\ accepted \in Seq(Event)
      /\ EventConservation
  BY DEF IInv, TypeOK
<1>1. ASSUME NEW s \in Streams, PushSend(s)
      PROVE  [Queue!Next]_(Queue!qvars)
  <2>0. Alive /\ Alive' /\ handed' = handed
    BY <1>1 DEF PushSend, Alive, mainVars, drainVars
  <2>1. CASE accepted' = accepted
    BY <2>0, <2>1 DEF Queue!qvars
  <2>2. CASE accepted' = Append(accepted, <<s, sent[s]>>)
    <3>1. Len(accepted') = Len(accepted) + 1
      BY <1>0, <2>2
    <3>2. PICK e \in Event : e = <<s, sent[s]>>
      BY DEF Event, IInv, TypeOK
    <3>3. SubSeq(accepted', 1, Len(accepted)) = accepted
      <4>1. accepted' = (<<>> \o accepted) \o <<e>>
        <5>1. accepted' = accepted \o <<e>>
          BY <1>0, <2>2, <3>2, AppendIsConcat
        <5>2. <<>> \o accepted = accepted
          BY <1>0, ConcatEmptySeq
        <5> QED
          BY <5>1, <5>2
      <4>2. <<>> \in Seq(Event) /\ <<e>> \in Seq(Event) /\ Len(<<>>) = 0
        OBVIOUS
      <4>3. SubSeq((<<>> \o accepted) \o <<e>>, 0 + 1, 0 + Len(accepted)) = accepted
        BY <1>0, <4>2, MiddleIsSubSeq
      <4> QED
        BY <1>0, <4>1, <4>3
    <3> QED
      BY <2>0, <3>1, <3>3 DEF Queue!Next, Queue!Accept
  <2> QED
    BY <1>1, <2>1, <2>2 DEF PushSend
<1>2. CASE DrainRecv
  BY <1>2 DEF DrainRecv, Alive, mainVars, Queue!qvars
<1>3. CASE Tick \/ DrainFlush \/ DrainExit
  <2>1. handed' = handed \o pending /\ accepted' = accepted /\ Alive /\ Alive'
    BY <1>3 DEF Tick, DrainFlush, DrainExit, Flush, Publish, Alive, mainVars
  <2>2. accepted = (handed \o pending) \o ch
    BY <1>0, <2>1 DEF EventConservation
  <2> QED
    BY <1>0, <2>1, <2>2, FlushDelivers
<1>4. CASE Kill
  <2>1. Alive /\ ~ Alive' /\ handed' = handed /\ accepted' = accepted
    BY <1>4 DEF Kill, Alive
  <2>2. Len(accepted) \in Nat /\ Len(handed) \in Nat /\ Len(handed) <= Len(accepted)
    BY <1>0, <2>1, LenOfThree DEF EventConservation
  <2>3. CASE Len(handed) = Len(accepted)
    BY <2>1, <2>3 DEF Queue!qvars
  <2>4. CASE Len(handed) < Len(accepted)
    <3>1. PICK n : n = Len(accepted) - Len(handed)
      OBVIOUS
    <3>2. n \in 1 .. Len(accepted) - Len(handed) /\ Len(accepted) = Len(handed) + n
      BY <2>2, <2>4, <3>1
    <3>3. Queue!Lose(n)
      BY <2>1, <2>2, <3>2 DEF Queue!Lose
    <3> QED
      BY <2>1, <3>2, <3>3 DEF Queue!Next
  <2> QED
    BY <2>2, <2>3, <2>4
<1>5. CASE UNCHANGED <<handed, accepted>> /\ (Alive' <=> Alive)
  BY <1>5 DEF Queue!qvars
<1>6. ASSUME \/ \E s \in Streams : OpenStream(s) \/ Recv(s) \/ EndStream(s)
             \/ \E s \in Streams : PushCheck(s) \/ PushCount(s)
             \/ StartRange \/ Main \/ Signal \/ Terminated \/ UNCHANGED vars
      PROVE  Alive' <=> Alive
  BY <1>6 DEF Alive, OpenStream, Recv, EndStream, PushCheck, PushCount, StartRange, Main,
     GracefulStop, CloseFlag, CloseChannel, Exit, Signal, Terminated, mainVars, vars
<1> QED
  BY <1>1, <1>2, <1>3, <1>4, <1>5, <1>6, NoTransfer DEF Next, Handler, Drain

\* Handlers, channel, batch and Publish implement a queue that keeps the order
\* in which Push accepted the events, hands on none twice and loses events
\* only when the process is killed, for any streams, capacity and batch size.
THEOREM IngesterIsLossyQueue == Spec => ImplementsLossyQueue
<1>1. Init => Queue!Init
  BY DEF Init, Queue!Init, Alive
<1>2. IInv /\ [Next]_vars => [Queue!Next]_(Queue!qvars)
  BY QueueStep
<1> QED
  BY <1>1, <1>2, InductiveInvariant, PTL DEF Spec, ImplementsLossyQueue, Queue!Spec

-----------------------------------------------------------------------------
(* The bot-worker's client.  Events are numbered, so what is under way is  *)
(* told by three intervals of numbers that follow each other: the wire,    *)
(* the sender's hand, the queue.                                           *)

\* How many events were received or lost.
Past == emitted - Len(wire) - Len(held) - Len(queue)

ClientTypeOK ==
    /\ queue \in Seq(Nat) /\ held \in Seq(Nat) /\ wire \in Seq(Nat) /\ arrived \in Seq(Nat)
    /\ emitted \in Nat
    /\ faults \in Nat
    /\ stream \in {"none", "up", "broken"}

\* What the sender holds and what is on the wire, at each of its steps: a
\* failed stream has nothing on the wire.
SenderState ==
    /\ sender \in {"open", "send"} => Len(held) = 1
    /\ sender \notin {"open", "send"} => held = <<>>
    /\ sender = "open" => stream = "none"
    /\ sender = "send" => stream # "none"
    /\ stream # "up" => wire = <<>>
    /\ stream = "broken" => faults > 0

\* The events under way are the latest ones, in order.
UnderWay ==
    /\ Past \in Nat
    /\ \A i \in 1 .. Len(wire) : wire[i] = Past + i
    /\ \A i \in 1 .. Len(held) : held[i] = Past + Len(wire) + i
    /\ \A i \in 1 .. Len(queue) : queue[i] = Past + Len(wire) + Len(held) + i

\* Without a failure nothing is lost.
Healthy ==
    faults = 0 /\ main = "serving" =>
        Len(arrived) = Past /\ \A i \in 1 .. Len(arrived) : arrived[i] = i

ClientInv == ClientTypeOK /\ SenderState /\ UnderWay /\ Healthy

\* A client that starts has the invariant.
LEMMA ClientInitHolds == ClientInit => ClientInv
<1> SUFFICES ASSUME ClientInit PROVE ClientInv
  OBVIOUS
<1>1. /\ Len(queue) = 0 /\ Len(held) = 0 /\ Len(wire) = 0 /\ Len(arrived) = 0
      /\ emitted = 0
  BY DEF ClientInit
<1>2. Past = 0
  BY <1>1 DEF Past
<1>3. ClientTypeOK
  BY DEF ClientInit, ClientTypeOK
<1>4. SenderState
  BY DEF ClientInit, SenderState
<1>5. UnderWay /\ Healthy
  BY <1>1, <1>2 DEF UnderWay, Healthy
<1> QED
  BY <1>3, <1>4, <1>5 DEF ClientInv

\* Every step of a bot, of the sender, of the connection and of main keeps the
\* invariant: what is given up is the oldest of what is under way.
LEMMA ClientStep == ClientInv /\ [ClientNext]_clientVars => ClientInv'
<1> SUFFICES ASSUME ClientInv, [ClientNext]_clientVars
             PROVE  ClientInv'
  OBVIOUS
<1> USE DEF ClientInv
<1>0. /\ Len(wire) \in Nat /\ Len(held) \in Nat /\ Len(queue) \in Nat /\ emitted \in Nat
      /\ Past \in Nat /\ Past = emitted - Len(wire) - Len(held) - Len(queue)
  BY DEF ClientTypeOK, UnderWay, Past
\* Steps that move no event.
<1>1. ASSUME UNCHANGED <<queue, emitted, held, wire, arrived>>, SenderState',
             faults' \in Nat, faults' = 0 => faults = 0, main' = "serving" => main = "serving",
             stream' \in {"none", "up", "broken"}
      PROVE  ClientInv'
  BY <1>1 DEF ClientTypeOK, UnderWay, Healthy, Past
<1>2. ASSUME UNCHANGED <<queue, emitted, sender, held, stream, wire, arrived, faults>>,
             main' = "serving" => main = "serving"
      PROVE  ClientInv'
  <2>1. SenderState' /\ faults' \in Nat /\ stream' \in {"none", "up", "broken"}
    BY <1>2 DEF SenderState, ClientTypeOK
  <2> QED
    BY <1>1, <1>2, <2>1
<1>3. ASSUME NEW b \in Bots, Request(b) \/ BotReturns(b) PROVE ClientInv'
  BY <1>2, <1>3 DEF Request, BotReturns, net
<1>4. ASSUME NEW b \in Bots, Emit(b) PROVE ClientInv'
  <2>1. UNCHANGED <<main, sender, held, stream, wire, arrived, faults>>
    BY <1>4 DEF Emit, net
  <2>2. CASE queue' = queue /\ emitted' = emitted
    BY <1>2, <2>1, <2>2
  <2>3. CASE queue' = Append(queue, emitted + 1) /\ emitted' = emitted + 1
    <3>1. /\ Len(queue') = Len(queue) + 1 /\ queue' \in Seq(Nat)
          /\ \A i \in 1 .. Len(queue) : queue'[i] = queue[i]
          /\ queue'[Len(queue) + 1] = emitted + 1
      BY <1>0, <2>3 DEF ClientTypeOK
    <3>2. Past' = Past
      BY <1>0, <2>1, <2>3, <3>1 DEF Past
    <3>3. \A i \in 1 .. Len(queue') : queue'[i] = Past + Len(wire) + Len(held) + i
      <4> SUFFICES ASSUME NEW i \in 1 .. Len(queue')
                   PROVE  queue'[i] = Past + Len(wire) + Len(held) + i
        OBVIOUS
      <4>1. CASE i \in 1 .. Len(queue)
        BY <3>1, <4>1 DEF UnderWay
      <4>2. CASE i = Len(queue) + 1
        BY <1>0, <3>1, <4>2
      <4> QED
        BY <1>0, <3>1, <4>1, <4>2
    <3>4. ClientTypeOK' /\ SenderState'
      BY <1>0, <2>1, <2>3, <3>1 DEF ClientTypeOK, SenderState
    <3>5. UnderWay'
      BY <2>1, <3>2, <3>3 DEF UnderWay
    <3>6. Healthy'
      BY <2>1, <3>2 DEF Healthy
    <3> QED
      BY <3>4, <3>5, <3>6
  <2> QED
    BY <1>4, <2>2, <2>3 DEF Emit
<1>5. CASE Take
  <2>1. /\ held = <<>> /\ held' = <<Head(queue)>> /\ queue # <<>> /\ queue' = Tail(queue)
        /\ sender' = IF stream = "none" THEN "open" ELSE "send"
        /\ UNCHANGED <<main, emitted, stream, wire, arrived, faults>>
    BY <1>5 DEF Take, net, SenderState
  <2>2. /\ Len(held) = 0 /\ Len(held') = 1 /\ held' \in Seq(Nat) /\ held'[1] = queue[1]
        /\ Len(queue') = Len(queue) - 1 /\ queue' \in Seq(Nat) /\ Len(queue) >= 1
        /\ \A i \in 1 .. Len(queue') : queue'[i] = queue[i + 1]
    BY <2>1 DEF ClientTypeOK
  <2>3. Past' = Past
    BY <1>0, <2>1, <2>2 DEF Past
  <2>4. ClientTypeOK' /\ SenderState'
    BY <2>1, <2>2 DEF ClientTypeOK, SenderState
  <2>5. \A i \in 1 .. Len(queue') : queue'[i] = Past + Len(wire) + Len(held') + i
    <3> SUFFICES ASSUME NEW i \in 1 .. Len(queue')
                 PROVE  queue'[i] = Past + Len(wire) + 1 + i
      BY <2>2
    <3>1. i + 1 \in 1 .. Len(queue) /\ i \in Nat
      BY <1>0, <2>2
    <3>2. queue[i + 1] = Past + Len(wire) + Len(held) + (i + 1)
      BY <3>1 DEF UnderWay
    <3> QED
      BY <1>0, <2>2, <3>1, <3>2
  <2>6. \A i \in 1 .. Len(held') : held'[i] = Past + Len(wire) + i
    <3>1. queue[1] = Past + Len(wire) + Len(held) + 1
      BY <1>0, <2>2 DEF UnderWay
    <3> QED
      BY <1>0, <2>2, <3>1
  <2>7. UnderWay' /\ Healthy'
    BY <2>1, <2>3, <2>5, <2>6 DEF UnderWay, Healthy
  <2> QED
    BY <2>4, <2>7
\* Steps that give up the n oldest events under way: the wire, and the event
\* the sender holds.
<1>6. ASSUME NEW n \in Nat, Past' = Past + n, held' = <<>>, wire' = <<>>,
             n = Len(wire) + Len(held), UNCHANGED <<queue, emitted, arrived>>,
             SenderState', faults' \in Nat, stream' \in {"none", "up", "broken"},
             n = 0 \/ faults' > 0 \/ main' # "serving",
             faults' = 0 => faults = 0, main' = "serving" => main = "serving"
      PROVE  ClientInv'
  <2>1. ClientTypeOK'
    BY <1>6 DEF ClientTypeOK
  <2>2. \A i \in 1 .. Len(queue) : queue[i] = Past + Len(wire) + Len(held) + i
    BY DEF UnderWay
  <2>3. UnderWay'
    BY <1>0, <1>6, <2>2 DEF UnderWay
  <2>4. Healthy'
    BY <1>0, <1>6 DEF Healthy
  <2> QED
    BY <1>6, <2>1, <2>3, <2>4
<1>7. CASE openStream
  <2>1. /\ Len(held) = 1 /\ wire = <<>> /\ Len(wire) = 0 /\ stream = "none"
        /\ UNCHANGED <<main, queue, emitted, wire, arrived>>
    BY <1>7 DEF openStream, botVars, SenderState
  <2>2. CASE stream' = "up" /\ sender' = "send" /\ UNCHANGED <<held, faults>>
    <3>1. SenderState' /\ faults' \in Nat /\ stream' \in {"none", "up", "broken"}
      BY <2>1, <2>2 DEF SenderState, ClientTypeOK
    <3> QED
      BY <1>1, <2>1, <2>2, <3>1
  <2>3. CASE CallFails /\ sender' = "backoff" /\ held' = <<>> /\ UNCHANGED stream
    <3>1. /\ faults' \in Nat
          /\ faults' > 0 \/ main' # "serving"
          /\ faults' = 0 => faults = 0
      BY <2>1, <2>3 DEF CallFails, Fault, Cancelled, ClientTypeOK
    <3>2. SenderState' /\ stream' \in {"none", "up", "broken"}
      BY <2>1, <2>3 DEF SenderState, ClientTypeOK
    <3>3. Past' = Past + 1
      BY <1>0, <2>1, <2>3 DEF Past
    <3> QED
      BY <1>6, <2>1, <2>3, <3>1, <3>2, <3>3
  <2> QED
    BY <1>7, <2>2, <2>3 DEF openStream
<1>8. CASE Send
  <2>1. /\ Len(held) = 1 /\ held' = <<>> /\ stream # "none"
        /\ UNCHANGED <<main, queue, emitted, arrived>>
    BY <1>8 DEF Send, botVars, SenderState
  <2>2. CASE sender' = "select" /\ stream = "up" /\ wire' = wire \o held /\ UNCHANGED <<stream, faults>>
    <3>1. /\ Len(wire') = Len(wire) + 1 /\ wire' \in Seq(Nat) /\ Len(held') = 0
          /\ \A i \in 1 .. Len(wire) : wire'[i] = wire[i]
          /\ wire'[Len(wire) + 1] = held[1]
      <4>1. wire \in Seq(Nat) /\ held \in Seq(Nat) /\ wire' = wire \o held /\ Len(held) = 1
        BY <2>1, <2>2 DEF ClientTypeOK
      <4>0. /\ wire \o held \in Seq(Nat)
            /\ Len(wire \o held) = Len(wire) + Len(held)
            /\ \A i \in 1 .. Len(wire) + Len(held) : (wire \o held)[i] =
                  IF i <= Len(wire) THEN wire[i] ELSE held[i - Len(wire)]
        BY <4>1, ConcatProperties, Zenon
      <4>2. /\ Len(wire') = Len(wire) + 1 /\ wire' \in Seq(Nat)
            /\ \A i \in 1 .. Len(wire) + 1 :
                  wire'[i] = IF i <= Len(wire) THEN wire[i] ELSE held[i - Len(wire)]
        BY <4>0, <4>1, Zenon
      <4>3. ASSUME NEW i \in 1 .. Len(wire) PROVE wire'[i] = wire[i]
        BY <1>0, <4>2
      <4>4. wire'[Len(wire) + 1] = held[1]
        <5>1. /\ Len(wire) + 1 \in 1 .. Len(wire) + 1 /\ ~ (Len(wire) + 1 <= Len(wire))
              /\ (Len(wire) + 1) - Len(wire) = 1
          BY <1>0
        <5> QED
          BY <4>2, <5>1
      <4>5. Len(held') = 0
        BY <2>1
      <4> QED
        BY <4>2, <4>3, <4>4, <4>5
    <3>2. Past' = Past
      BY <1>0, <2>1, <3>1 DEF Past
    <3>3. ClientTypeOK' /\ SenderState'
      BY <2>1, <2>2, <3>1 DEF ClientTypeOK, SenderState
    <3>4. held[1] = Past + Len(wire) + 1
      BY <2>1 DEF UnderWay
    <3>5. \A i \in 1 .. Len(wire') : wire'[i] = Past + i
      <4> SUFFICES ASSUME NEW i \in 1 .. Len(wire')
                   PROVE  wire'[i] = Past + i
        OBVIOUS
      <4>1. CASE i \in 1 .. Len(wire)
        BY <3>1, <4>1 DEF UnderWay
      <4>2. CASE i = Len(wire) + 1
        BY <1>0, <3>1, <3>4, <4>2
      <4> QED
        BY <1>0, <3>1, <4>1, <4>2
    <3>6. \A i \in 1 .. Len(queue) : queue[i] = Past + Len(wire') + Len(held') + i
      <4>1. Past + Len(wire') + Len(held') = Past + Len(wire) + Len(held)
        BY <1>0, <2>1, <3>1
      <4> QED
        BY <4>1 DEF UnderWay
    <3>7. UnderWay' /\ Healthy'
      BY <2>1, <2>2, <3>1, <3>2, <3>5, <3>6 DEF UnderWay, Healthy
    <3> QED
      BY <3>3, <3>7
  <2>3. CASE sender' = "select" /\ stream = "broken" /\ wire' = wire /\ UNCHANGED <<stream, faults>>
    <3>1. wire = <<>> /\ Len(wire) = 0 /\ faults > 0 /\ faults \in Nat
      BY <2>3 DEF SenderState, ClientTypeOK
    <3>2. SenderState' /\ stream' \in {"none", "up", "broken"}
      BY <2>1, <2>3, <3>1 DEF SenderState, ClientTypeOK
    <3>3. Past' = Past + 1
      BY <1>0, <2>1, <2>3, <3>1 DEF Past
    <3> QED
      BY <1>6, <2>1, <2>3, <3>1, <3>2, <3>3
  <2>4. CASE /\ (stream = "broken" /\ UNCHANGED faults) \/ CallFails
             /\ sender' = "backoff" /\ stream' = "none" /\ wire' = <<>>
    <3>1. /\ faults' \in Nat
          /\ faults' > 0 \/ main' # "serving"
          /\ faults' = 0 => faults = 0
      BY <2>1, <2>4 DEF CallFails, Fault, Cancelled, ClientTypeOK, SenderState
    <3>2. SenderState' /\ stream' \in {"none", "up", "broken"}
      BY <2>1, <2>4 DEF SenderState, ClientTypeOK
    <3>3. Past' = Past + (Len(wire) + Len(held))
      BY <1>0, <2>1, <2>4 DEF Past
    <3> QED
      <4>1. Len(wire) + Len(held) \in Nat
        BY <1>0
      <4> QED
        BY <1>6, <2>1, <2>4, <3>1, <3>2, <3>3, <4>1
  <2>5. \/ stream = "up" \/ stream = "broken"
    BY <2>1 DEF ClientTypeOK
  <2> QED
    BY <1>8, <2>2, <2>3, <2>4, <2>5 DEF Send
<1>9. CASE sleepBackoff
  <2>1. SenderState' /\ faults' \in Nat /\ stream' \in {"none", "up", "broken"}
    BY <1>9 DEF sleepBackoff, net, SenderState, ClientTypeOK
  <2> QED
    BY <1>1, <1>9, <2>1 DEF sleepBackoff, botVars, net
<1>10. CASE StopSender
  <2>1. /\ held = <<>> /\ held' = <<>> /\ Len(held) = 0 /\ wire' = <<>> /\ main' # "serving"
        /\ UNCHANGED <<main, queue, emitted, arrived, faults>>
    BY <1>10 DEF StopSender, Cancelled, botVars, SenderState
  <2>2. SenderState' /\ faults' \in Nat /\ stream' \in {"none", "up", "broken"}
    BY <1>10, <2>1 DEF StopSender, SenderState, ClientTypeOK
  <2>3. Past' = Past + (Len(wire) + Len(held))
    BY <1>0, <2>1 DEF Past
  <2> QED
    BY <1>0, <1>6, <2>1, <2>2, <2>3
<1>11. CASE Deliver
  <2>1. /\ wire # <<>> /\ wire' = Tail(wire) /\ arrived' = Append(arrived, Head(wire))
        /\ UNCHANGED <<main, queue, emitted, sender, held, stream, faults>>
    BY <1>11 DEF Deliver, botVars
  <2>2. /\ Len(wire) >= 1 /\ Len(wire') = Len(wire) - 1 /\ wire' \in Seq(Nat)
        /\ \A i \in 1 .. Len(wire') : wire'[i] = wire[i + 1]
        /\ Head(wire) = wire[1] /\ Head(wire) \in Nat
    BY <2>1 DEF ClientTypeOK
  <2>3. Past' = Past + 1
    BY <1>0, <2>1, <2>2 DEF Past
  <2>4. /\ arrived' \in Seq(Nat) /\ Len(arrived') = Len(arrived) + 1 /\ Len(arrived) \in Nat
        /\ \A i \in 1 .. Len(arrived) : arrived'[i] = arrived[i]
        /\ arrived'[Len(arrived) + 1] = Head(wire)
    BY <2>1, <2>2 DEF ClientTypeOK
  <2>5. ClientTypeOK' /\ SenderState'
    BY <2>1, <2>2, <2>4 DEF ClientTypeOK, SenderState
  <2>6. Head(wire) = Past + 1
    BY <1>0, <2>2 DEF UnderWay
  <2>7. UnderWay'
    <3>1. \A i \in 1 .. Len(wire') : wire'[i] = Past' + i
      <4> SUFFICES ASSUME NEW i \in 1 .. Len(wire')
                   PROVE  wire'[i] = Past' + i
        OBVIOUS
      <4>1. i + 1 \in 1 .. Len(wire) /\ i \in Nat
        BY <1>0, <2>2
      <4>2. wire[i + 1] = Past + (i + 1)
        BY <4>1 DEF UnderWay
      <4> QED
        BY <1>0, <2>2, <2>3, <4>1, <4>2
    <3>2. Past' + Len(wire') = Past + Len(wire)
      BY <1>0, <2>2, <2>3
    <3>3. /\ \A i \in 1 .. Len(held') : held'[i] = Past' + Len(wire') + i
          /\ \A i \in 1 .. Len(queue') : queue'[i] = Past' + Len(wire') + Len(held') + i
      BY <2>1, <3>2 DEF UnderWay
    <3> QED
      BY <1>0, <2>3, <3>1, <3>2, <3>3 DEF UnderWay
  <2>8. Healthy'
    <3> SUFFICES ASSUME faults = 0, main = "serving"
                 PROVE  Len(arrived') = Past' /\ \A i \in 1 .. Len(arrived') : arrived'[i] = i
      BY <2>1 DEF Healthy
    <3>1. Len(arrived) = Past /\ \A i \in 1 .. Len(arrived) : arrived[i] = i
      BY DEF Healthy
    <3>2. ASSUME NEW i \in 1 .. Len(arrived') PROVE arrived'[i] = i
      <4>1. CASE i \in 1 .. Len(arrived)
        BY <2>4, <3>1, <4>1
      <4>2. CASE i = Len(arrived) + 1
        BY <2>4, <2>6, <3>1, <4>2
      <4> QED
        BY <2>4, <4>1, <4>2
    <3> QED
      BY <1>0, <2>3, <2>4, <3>1, <3>2
  <2> QED
    BY <2>5, <2>7, <2>8
<1>12. CASE Break
  <2>1. /\ faults' = faults + 1 /\ faults \in Nat /\ wire' = <<>>
        /\ UNCHANGED <<main, queue, emitted, sender, held, arrived>>
    BY <1>12 DEF Break, Fault, botVars, ClientTypeOK
  <2>2. ClientTypeOK' /\ SenderState'
    BY <1>12, <2>1 DEF Break, ClientTypeOK, SenderState
  <2>3. Past' = Past + Len(wire) /\ Len(wire') = 0
    BY <1>0, <2>1 DEF Past
  <2>4. UnderWay'
    BY <1>0, <2>1, <2>3 DEF UnderWay
  <2>5. Healthy'
    BY <2>1 DEF Healthy
  <2> QED
    BY <2>2, <2>4, <2>5
<1>13. CASE WorkerSignal \/ ClientMain \/ WorkerGone
  BY <1>2, <1>13 DEF WorkerSignal, ClientMain, SetClosed, CloseDone, WorkerExit, WorkerGone,
                     botVars, net, clientVars
<1>14. CASE UNCHANGED clientVars
  BY <1>2, <1>14 DEF clientVars
<1> QED
  BY <1>3, <1>4, <1>5, <1>7, <1>8, <1>9, <1>10, <1>11, <1>12, <1>13, <1>14
     DEF ClientNext, Sender

-----------------------------------------------------------------------------
(* What follows for the client.                                            *)

\* Counting on from one sequence of numbers to the next.
LEMMA CountOn ==
    ASSUME NEW s \in Seq(Nat), NEW t \in Seq(Nat),
           \A i \in 1 .. Len(s) : s[i] = i,
           \A i \in 1 .. Len(t) : t[i] = Len(s) + i
    PROVE  /\ s \o t \in Seq(Nat)
           /\ Len(s \o t) = Len(s) + Len(t)
           /\ \A i \in 1 .. Len(s \o t) : (s \o t)[i] = i
<1>1. /\ s \o t \in Seq(Nat) /\ Len(s \o t) = Len(s) + Len(t)
      /\ \A i \in 1 .. Len(s) + Len(t) : (s \o t)[i] =
            IF i <= Len(s) THEN s[i] ELSE t[i - Len(s)]
  BY ConcatProperties, Zenon
<1>2. Len(s) \in Nat /\ Len(t) \in Nat
  OBVIOUS
<1>3. ASSUME NEW i \in 1 .. Len(s) + Len(t) PROVE (s \o t)[i] = i
  <2>1. (s \o t)[i] = IF i <= Len(s) THEN s[i] ELSE t[i - Len(s)]
    BY <1>1
  <2>2. CASE i <= Len(s)
    <3>1. i \in 1 .. Len(s)
      BY <1>2, <2>2
    <3> QED
      BY <2>1, <2>2, <3>1
  <2>3. CASE ~ (i <= Len(s))
    <3>1. i - Len(s) \in 1 .. Len(t) /\ Len(s) + (i - Len(s)) = i
      BY <1>2, <2>3
    <3>2. t[i - Len(s)] = Len(s) + (i - Len(s))
      BY <3>1
    <3> QED
      BY <2>1, <2>3, <3>1, <3>2
  <2> QED
    BY <2>2, <2>3
<1> QED
  BY <1>1, <1>3

\* The numbers 1 .. n as a sequence.
LEMMA Numbered ==
    ASSUME NEW n \in Nat
    PROVE  /\ [i \in 1 .. n |-> i] \in Seq(Nat)
           /\ Len([i \in 1 .. n |-> i]) = n
           /\ \A k \in 1 .. n : [i \in 1 .. n |-> i][k] = k
  OBVIOUS

\* Counting to n is the beginning of counting to n + 1.
LEMMA NumberedPrefix ==
    ASSUME NEW n \in Nat
    PROVE  SubSeq([i \in 1 .. n + 1 |-> i], 1, n) = [i \in 1 .. n |-> i]
<1>0. n + 1 \in Nat
  OBVIOUS
<1>1. PICK s \in Seq(Nat) : s = [i \in 1 .. n + 1 |-> i] /\ \A k \in 1 .. n + 1 : s[k] = k
  BY <1>0, Numbered, Zenon
<1>2. \A i \in 1 .. n : s[i] \in Nat
  BY <1>1
<1>3. /\ SubSeq(s, 1, n) \in Seq(Nat)
      /\ Len(SubSeq(s, 1, n)) = IF 1 <= n THEN n - 1 + 1 ELSE 0
      /\ \A i \in 1 .. n - 1 + 1 : SubSeq(s, 1, n)[i] = s[1 + i - 1]
  BY <1>2, SubSeqProperties, 1 \in Int, n \in Int
<1>4. Len(SubSeq(s, 1, n)) = n
  BY <1>3
<1>5. \A i \in 1 .. n : SubSeq(s, 1, n)[i] = i
  <2> SUFFICES ASSUME NEW i \in 1 .. n PROVE SubSeq(s, 1, n)[i] = i
    OBVIOUS
  <2>1. i \in 1 .. n - 1 + 1 /\ 1 + i - 1 = i /\ i \in 1 .. n + 1
    OBVIOUS
  <2> QED
    BY <1>1, <1>3, <2>1
<1>6. PICK t \in Seq(Nat) : t = [i \in 1 .. n |-> i] /\ Len(t) = n /\ \A k \in 1 .. n : t[k] = k
  BY Numbered
<1>7. SubSeq(s, 1, n) = t
  BY <1>3, <1>4, <1>5, <1>6, SeqEqual
<1> QED
  BY <1>1, <1>6, <1>7

\* Taking the k-th number.
LEMMA NumberedItem ==
    ASSUME NEW n \in Nat, NEW k \in 1 .. n, NEW r \in Seq(Nat)
    PROVE  Append(r, k) = r \o SubSeq([i \in 1 .. n |-> i], k, k)
<1>1. PICK s \in Seq(Nat) : s = [i \in 1 .. n |-> i] /\ \A j \in 1 .. n : s[j] = j
  BY Numbered
<1>2. s[k] = k /\ k \in Nat
  BY <1>1
<1>3. SubSeq(s, k, k) = <<k>>
  <2>1. \A i \in k .. k : s[i] \in Nat
    BY <1>2
  <2>2. /\ SubSeq(s, k, k) \in Seq(Nat)
        /\ Len(SubSeq(s, k, k)) = IF k <= k THEN k - k + 1 ELSE 0
        /\ \A i \in 1 .. k - k + 1 : SubSeq(s, k, k)[i] = s[k + i - 1]
    BY <2>1, SubSeqProperties, k \in Int
  <2>3. Len(SubSeq(s, k, k)) = 1 /\ SubSeq(s, k, k)[1] = k
    BY <1>2, <2>2
  <2>4. <<k>> \in Seq(Nat) /\ Len(<<k>>) = 1 /\ <<k>>[1] = k
    BY <1>2
  <2>5. \A i \in 1 .. Len(SubSeq(s, k, k)) : SubSeq(s, k, k)[i] = <<k>>[i]
    BY <2>3, <2>4
  <2>6. Len(SubSeq(s, k, k)) = Len(<<k>>)
    BY <2>3, <2>4
  <2> QED
    BY <2>2, <2>4, <2>5, <2>6, SeqEqual, Zenon
<1>4. Append(r, k) = r \o <<k>>
  BY <1>2
<1> QED
  BY <1>1, <1>3, <1>4

\* What a step of the client is to its environment: nothing, one event
\* accepted, the oldest one delivered, or some of the oldest lost.
LEMMA ClientMoves ==
    ASSUME ClientInv, ClientInv', [ClientNext]_clientVars
    PROVE  \/ arrived' = arrived /\ emitted' = emitted + 1 /\ Past' = Past
           \/ arrived' = Append(arrived, Past + 1) /\ emitted' = emitted /\ Past' = Past + 1
           \/ arrived' = arrived /\ emitted' = emitted /\ Past' >= Past
<1>0. /\ Len(wire) \in Nat /\ Len(held) \in Nat /\ Len(queue) \in Nat /\ emitted \in Nat
      /\ queue \in Seq(Nat) /\ held \in Seq(Nat) /\ wire \in Seq(Nat)
      /\ Past \in Nat /\ Past = emitted - Len(wire) - Len(held) - Len(queue)
      /\ Past' = emitted' - Len(wire') - Len(held') - Len(queue')
  <2>1. ClientTypeOK /\ UnderWay
    BY DEF ClientInv
  <2>2. queue \in Seq(Nat) /\ held \in Seq(Nat) /\ wire \in Seq(Nat) /\ emitted \in Nat
    BY <2>1 DEF ClientTypeOK
  <2>3. Len(wire) \in Nat /\ Len(held) \in Nat /\ Len(queue) \in Nat
    BY <2>2
  <2>4. Past \in Nat
    BY <2>1 DEF UnderWay
  <2>5. Past = emitted - Len(wire) - Len(held) - Len(queue)
    BY DEF Past
  <2>6. Past' = emitted' - Len(wire') - Len(held') - Len(queue')
    BY DEF Past
  <2> QED
    BY <2>2, <2>3, <2>4, <2>5, <2>6
<1>1. ASSUME UNCHANGED <<queue, emitted, held, wire, arrived>>
      PROVE  arrived' = arrived /\ emitted' = emitted /\ Past' >= Past
  BY <1>0, <1>1
<1>2. ASSUME NEW b \in Bots, Request(b) \/ BotReturns(b)
      PROVE  UNCHANGED <<queue, emitted, held, wire, arrived>>
  BY <1>2 DEF Request, BotReturns, net
<1>3. ASSUME NEW b \in Bots, Emit(b)
      PROVE  \/ UNCHANGED <<queue, emitted, held, wire, arrived>>
             \/ arrived' = arrived /\ emitted' = emitted + 1 /\ Past' = Past
  <2>1. UNCHANGED <<held, wire, arrived>>
    BY <1>3 DEF Emit, net
  <2>2. CASE queue' = queue /\ emitted' = emitted
    BY <2>1, <2>2
  <2>3. CASE queue' = Append(queue, emitted + 1) /\ emitted' = emitted + 1
    <3>1. Len(queue') = Len(queue) + 1
      BY <1>0, <2>3
    <3> QED
      BY <1>0, <2>1, <2>3, <3>1
  <2> QED
    BY <1>3, <2>2, <2>3 DEF Emit
<1>4. CASE Take
  <2>1. /\ held = <<>> /\ held' = <<Head(queue)>> /\ queue # <<>> /\ queue' = Tail(queue)
        /\ UNCHANGED <<emitted, wire, arrived>>
    BY <1>4 DEF Take, net, ClientInv, SenderState
  <2>2. Len(held) = 0 /\ Len(held') = 1 /\ Len(queue') = Len(queue) - 1
    BY <1>0, <2>1
  <2> QED
    BY <1>0, <2>1, <2>2
\* The sender gives up what is on the wire or in its hand.
<1>5. ASSUME UNCHANGED <<queue, emitted, arrived>>, Len(held') <= Len(held),
             Len(wire') <= Len(wire), Len(held') \in Nat, Len(wire') \in Nat
      PROVE  arrived' = arrived /\ emitted' = emitted /\ Past' >= Past
  BY <1>0, <1>5
<1>6. CASE openStream
  <2>1. UNCHANGED <<queue, emitted, arrived, wire>> /\ (held' = held \/ held' = <<>>)
    BY <1>6 DEF openStream, botVars
  <2>2. Len(held') <= Len(held) /\ Len(held') \in Nat
    BY <1>0, <2>1
  <2> QED
    BY <1>0, <1>5, <2>1, <2>2
<1>7. CASE Send
  <2>1. /\ UNCHANGED <<queue, emitted, arrived>> /\ held' = <<>>
        /\ \/ wire' = wire \o held
           \/ wire' = wire
           \/ wire' = <<>>
    BY <1>7 DEF Send, botVars
  <2>2. Len(held') = 0
    BY <2>1
  <2>3. CASE wire' = wire \o held
    <3>1. Len(wire') = Len(wire) + Len(held)
      BY <1>0, <2>3
    <3> QED
      BY <1>0, <2>1, <2>2, <3>1
  <2>4. CASE wire' = wire \/ wire' = <<>>
    <3>1. Len(wire') <= Len(wire) /\ Len(wire') \in Nat
      BY <1>0, <2>4
    <3> QED
      BY <1>0, <1>5, <2>1, <2>2, <3>1
  <2> QED
    BY <2>1, <2>3, <2>4
<1>8. CASE sleepBackoff
  BY <1>1, <1>8 DEF sleepBackoff, botVars, net
<1>9. CASE StopSender \/ Break
  <2>1. UNCHANGED <<queue, emitted, arrived, held>> /\ wire' = <<>>
    BY <1>9 DEF StopSender, Break, botVars
  <2>2. Len(wire') = 0 /\ Len(held') = Len(held)
    BY <2>1
  <2> QED
    BY <1>0, <1>5, <2>1, <2>2
<1>10. CASE Deliver
  <2>1. /\ wire # <<>> /\ wire' = Tail(wire) /\ arrived' = Append(arrived, Head(wire))
        /\ UNCHANGED <<queue, emitted, held>>
    BY <1>10 DEF Deliver, botVars
  <2>2. Len(wire') = Len(wire) - 1 /\ Len(wire) >= 1 /\ Head(wire) = wire[1]
    BY <1>0, <2>1
  <2>3. wire[1] = Past + 1
    BY <1>0, <2>2 DEF ClientInv, UnderWay
  <2> QED
    BY <1>0, <2>1, <2>2, <2>3
<1>11. CASE WorkerSignal \/ ClientMain \/ WorkerGone
  BY <1>1, <1>11 DEF WorkerSignal, ClientMain, SetClosed, CloseDone, WorkerExit, WorkerGone,
                     botVars, net, clientVars
<1>12. CASE UNCHANGED clientVars
  BY <1>1, <1>12 DEF clientVars
<1> QED
  BY <1>1, <1>2, <1>3, <1>4, <1>6, <1>7, <1>8, <1>9, <1>10, <1>11, <1>12 DEF ClientNext, Sender

-----------------------------------------------------------------------------
(* The theorems about the client.                                          *)

\* What is under way between a bot's Emit and the ingester's Recv is always
\* the latest events in their order, in the order wire, hand, queue.
THEOREM ClientInductive == ClientSpec => []ClientInv
  BY ClientInitHolds, ClientStep, PTL DEF ClientSpec

\* For any number of bots, events and streams: until the first failure or the
\* shutdown, no event the queue took is missing, doubled or out of order.
THEOREM ClientLosesNothingHealthy == ClientSpec => []LosslessWhileHealthy
<1>1. ASSUME ClientInv PROVE LosslessWhileHealthy
  <2> SUFFICES ASSUME faults = 0, main = "serving"
               PROVE  arrived \o wire \o held \o queue = [i \in 1 .. emitted |-> i]
    BY DEF LosslessWhileHealthy
  <2>0. /\ queue \in Seq(Nat) /\ held \in Seq(Nat) /\ wire \in Seq(Nat) /\ arrived \in Seq(Nat)
        /\ emitted \in Nat
        /\ Len(wire) \in Nat /\ Len(held) \in Nat /\ Len(queue) \in Nat
    BY <1>1 DEF ClientInv, ClientTypeOK
  <2>1. Len(arrived) = Past /\ Past \in Nat /\ \A i \in 1 .. Len(arrived) : arrived[i] = i
    BY <1>1 DEF ClientInv, Healthy, UnderWay
  <2>2. PICK a \in Seq(Nat) : /\ a = arrived \o wire /\ Len(a) = Past + Len(wire)
                              /\ \A i \in 1 .. Len(a) : a[i] = i
    <3>1. \A i \in 1 .. Len(wire) : wire[i] = Len(arrived) + i
      BY <1>1, <2>1 DEF ClientInv, UnderWay
    <3> QED
      BY <2>0, <2>1, <3>1, CountOn
  <2>3. PICK b \in Seq(Nat) : /\ b = a \o held /\ Len(b) = Past + Len(wire) + Len(held)
                              /\ \A i \in 1 .. Len(b) : b[i] = i
    <3>1. \A i \in 1 .. Len(held) : held[i] = Len(a) + i
      BY <1>1, <2>2 DEF ClientInv, UnderWay
    <3> QED
      BY <2>0, <2>2, <3>1, CountOn
  <2>4. PICK c \in Seq(Nat) :
            /\ c = b \o queue /\ Len(c) = Past + Len(wire) + Len(held) + Len(queue)
            /\ \A i \in 1 .. Len(c) : c[i] = i
    <3>1. \A i \in 1 .. Len(queue) : queue[i] = Len(b) + i
      BY <1>1, <2>3 DEF ClientInv, UnderWay
    <3> QED
      BY <2>0, <2>3, <3>1, CountOn
  <2>5. Len(c) = emitted
    BY <2>0, <2>1, <2>4 DEF Past
  <2>6. PICK d \in Seq(Nat) : /\ d = [i \in 1 .. emitted |-> i] /\ Len(d) = emitted
                              /\ \A i \in 1 .. emitted : d[i] = i
    BY <2>0, Numbered
  <2>7. c = d
    BY <2>4, <2>5, <2>6, SeqEqual
  <2> QED
    BY <2>2, <2>3, <2>4, <2>6, <2>7
<1> QED
  BY <1>1, ClientInductive, PTL

\* The ingester has received events in the order of their numbers, none twice
\* and none that is still under way.
ArrivedInOrder ==
    /\ \A i \in 1 .. Len(arrived) : arrived[i] \in 1 .. Past
    /\ \A i, j \in 1 .. Len(arrived) : i < j => arrived[i] < arrived[j]

\* Over any number of broken and opened streams: the events that get through
\* arrive in the order in which Emit put them into the queue, with gaps where a
\* stream broke and without repetitions, although run opens a new stream after
\* each failure.
THEOREM ClientArrivesInOrder == ClientSpec => []ArrivedInOrder
<1>1. ClientInit => ArrivedInOrder
  BY DEF ClientInit, ArrivedInOrder
<1>2. ASSUME ClientInv, ClientInv', ArrivedInOrder, [ClientNext]_clientVars PROVE ArrivedInOrder'
  <2>0. arrived \in Seq(Nat) /\ Len(arrived) \in Nat /\ Past \in Nat /\ Past' \in Nat
    <3>1. ClientTypeOK /\ UnderWay /\ UnderWay'
      BY <1>2 DEF ClientInv
    <3>2. arrived \in Seq(Nat)
      BY <3>1 DEF ClientTypeOK
    <3>3. Past \in Nat /\ Past' \in Nat
      BY <3>1 DEF UnderWay
    <3> QED
      BY <3>2, <3>3
  <2>1. /\ \A i \in 1 .. Len(arrived) : arrived[i] \in 1 .. Past
        /\ \A i, j \in 1 .. Len(arrived) : i < j => arrived[i] < arrived[j]
    BY <1>2 DEF ArrivedInOrder
  <2>2. CASE arrived' = arrived /\ Past' >= Past
    <3>1. \A i \in 1 .. Len(arrived) : arrived[i] \in 1 .. Past'
      BY <2>0, <2>1, <2>2
    <3> QED
      BY <2>1, <2>2, <3>1 DEF ArrivedInOrder
  <2>3. CASE arrived' = Append(arrived, Past + 1) /\ Past' = Past + 1
    <3>1. /\ Len(arrived') = Len(arrived) + 1
          /\ arrived'[Len(arrived) + 1] = Past + 1
          /\ \A i \in 1 .. Len(arrived) : arrived'[i] = arrived[i]
      BY <2>0, <2>3
    <3>2. ASSUME NEW i \in 1 .. Len(arrived') PROVE arrived'[i] \in 1 .. Past'
      <4>1. i \in 1 .. Len(arrived) \/ i = Len(arrived) + 1
        BY <2>0, <3>1
      <4>2. CASE i \in 1 .. Len(arrived)
        <5>1. arrived'[i] \in 1 .. Past
          BY <2>1, <3>1, <4>2
        <5> QED
          BY <2>0, <2>3, <5>1
      <4>3. CASE i = Len(arrived) + 1
        BY <2>0, <2>3, <3>1, <4>3
      <4> QED
        BY <4>1, <4>2, <4>3
    <3>3. ASSUME NEW i \in 1 .. Len(arrived'), NEW j \in 1 .. Len(arrived'), i < j
          PROVE  arrived'[i] < arrived'[j]
      <4>1. i \in 1 .. Len(arrived) /\ (j \in 1 .. Len(arrived) \/ j = Len(arrived) + 1)
        BY <2>0, <3>1, <3>3
      <4>2. CASE j \in 1 .. Len(arrived)
        BY <2>1, <3>1, <3>3, <4>1, <4>2
      <4>3. CASE j = Len(arrived) + 1
        <5>1. arrived'[i] \in 1 .. Past /\ arrived'[j] = Past + 1
          BY <2>1, <3>1, <4>1, <4>3
        <5> QED
          BY <2>0, <5>1
      <4> QED
        BY <4>1, <4>2, <4>3
    <3> QED
      BY <3>2, <3>3 DEF ArrivedInOrder
  <2>4. Past >= Past
    BY <2>0
  <2> QED
    BY <1>2, <2>2, <2>3, <2>4, ClientMoves
<1> QED
  BY <1>1, <1>2, ClientInductive, PTL DEF ClientSpec

\* Over any number of broken and opened streams the client is a lossy queue
\* between its bots and the ingester.
THEOREM ClientKeepsOrder == ClientSpec => ClientIsLossyQueue
<1>1. ClientInit => EventQueue!Init
  <2> SUFFICES ASSUME ClientInit PROVE EventQueue!Init
    OBVIOUS
  <2>1. /\ Len(queue) = 0 /\ Len(held) = 0 /\ Len(wire) = 0 /\ emitted = 0 /\ arrived = <<>>
    BY DEF ClientInit
  <2>2. [i \in 1 .. emitted |-> i] = <<>>
    BY <2>1
  <2>3. emitted - Len(wire) - Len(held) - Len(queue) = 0
    BY <2>1
  <2> QED
    BY <2>1, <2>2, <2>3 DEF EventQueue!Init
<1>2. ClientInv /\ ClientInv' /\ [ClientNext]_clientVars => [EventQueue!Next]_(EventQueue!qvars)
  <2> SUFFICES ASSUME ClientInv, ClientInv', [ClientNext]_clientVars
               PROVE  EventQueue!Next \/ UNCHANGED EventQueue!qvars
    OBVIOUS
  <2>0. /\ emitted \in Nat /\ Past \in Nat /\ Past' \in Nat /\ arrived \in Seq(Nat)
        /\ Past <= emitted /\ Past' <= emitted'
    <3>1. /\ emitted \in Nat /\ Past \in Nat /\ arrived \in Seq(Nat)
          /\ Len(wire) \in Nat /\ Len(held) \in Nat /\ Len(queue) \in Nat
      BY DEF ClientInv, ClientTypeOK, UnderWay
    <3>2. /\ emitted' \in Nat /\ Past' \in Nat
          /\ Len(wire') \in Nat /\ Len(held') \in Nat /\ Len(queue') \in Nat
      BY DEF ClientInv, ClientTypeOK, UnderWay
    <3> QED
      BY <3>1, <3>2 DEF Past
  <2>1. CASE arrived' = arrived /\ emitted' = emitted + 1 /\ Past' = Past
    <3>1. /\ Len([i \in 1 .. emitted |-> i]) = emitted
          /\ Len([i \in 1 .. emitted' |-> i]) = emitted + 1
      BY <2>0, <2>1, Numbered
    <3>2. SubSeq([i \in 1 .. emitted' |-> i], 1, emitted) = [i \in 1 .. emitted |-> i]
      BY <2>0, <2>1, NumberedPrefix
    <3>3. EventQueue!Accept
      BY <2>1, <3>1, <3>2 DEF EventQueue!Accept, Past
    <3> QED
      BY <3>3 DEF EventQueue!Next
  <2>2. CASE arrived' = Append(arrived, Past + 1) /\ emitted' = emitted /\ Past' = Past + 1
    <3>1. /\ Len([i \in 1 .. emitted |-> i]) = emitted
          /\ Past + 1 \in 1 .. emitted /\ 1 \in 1 .. emitted - Past
      BY <2>0, <2>2, Numbered
    <3>2. arrived' = arrived \o SubSeq([i \in 1 .. emitted |-> i], Past + 1, Past + 1)
      BY <2>0, <2>2, <3>1, NumberedItem
    <3>3. EventQueue!Deliver(1)
      BY <2>2, <3>2 DEF EventQueue!Deliver, Past
    <3> QED
      BY <3>1, <3>3 DEF EventQueue!Next, Past
  <2>3. CASE arrived' = arrived /\ emitted' = emitted /\ Past' > Past
    <3>0. Len([i \in 1 .. emitted |-> i]) = emitted
      BY <2>0, Numbered
    <3>1. PICK n \in 1 .. emitted - Past : Past' = Past + n
      <4>1. ASSUME NEW p \in Nat, NEW q \in Nat, NEW e \in Nat, p < q, q <= e
            PROVE  \E n \in 1 .. e - p : q = p + n
        <5>1. q - p \in 1 .. e - p /\ q = p + (q - p)
          BY <4>1
        <5> QED
          BY <5>1
      <4>2. Past < Past' /\ Past' <= emitted
        BY <2>0, <2>3
      <4> QED
        BY <2>0, <4>1, <4>2
    <3>2. EventQueue!Lose(n)
      BY <2>3, <3>1 DEF EventQueue!Lose, Past
    <3> QED
      BY <3>0, <3>2 DEF EventQueue!Next, Past
  <2>4. CASE arrived' = arrived /\ emitted' = emitted /\ Past' = Past
    BY <2>4 DEF EventQueue!qvars, Past
  <2> QED
    BY <2>0, <2>1, <2>2, <2>3, <2>4, ClientMoves
<1> QED
  BY <1>1, <1>2, ClientInductive, PTL DEF ClientSpec, ClientIsLossyQueue, EventQueue!Spec

\* The two ends do not disturb each other: what is proved of the ingester and
\* of the client holds of the path.
THEOREM PathHasBothEnds == TelemetrySpec => Spec /\ ClientSpec
<1>1. TelemetryInit => Init /\ ClientInit
  BY DEF TelemetryInit
<1>2. [TelemetryNext]_telemetryVars => [Next]_vars
  BY DEF TelemetryNext, telemetryVars
<1>3. [TelemetryNext]_telemetryVars => [ClientNext]_clientVars
  BY DEF TelemetryNext, telemetryVars
<1> QED
  BY <1>1, <1>2, <1>3, PTL DEF TelemetrySpec, Spec, ClientSpec
=============================================================================
