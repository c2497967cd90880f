----------------------------- MODULE LossyQueue -----------------------------
(***************************************************************************)
(* What each hop of the telemetry path promises: items leave in the order  *)
(* in which they were accepted, none twice and none invented; what is lost *)
(* is the oldest that was still inside, never an item out of the middle.   *)
(*                                                                         *)
(* The bot-worker's telemetry client and the telemetry-ingester implement  *)
(* it (TelemetryClient!ClientIsLossyQueue,                                 *)
(* TelemetryIngester!ImplementsLossyQueue).                                *)
(***************************************************************************)
EXTENDS Naturals, Sequences

VARIABLES in,   \* everything accepted so far, in order
          out,  \* everything handed on so far, in order
          done  \* how many of in were handed on or lost

qvars == <<in, out, done>>

Init ==
    /\ in = <<>>
    /\ out = <<>>
    /\ done = 0

\* One item is accepted.
Accept ==
    /\ Len(in') = Len(in) + 1
    /\ SubSeq(in', 1, Len(in)) = in
    /\ UNCHANGED <<out, done>>

\* The n oldest items inside are handed on.
Deliver(n) ==
    /\ out' = out \o SubSeq(in, done + 1, done + n)
    /\ done' = done + n
    /\ UNCHANGED in

\* The n oldest items inside are lost.
Lose(n) ==
    /\ done' = done + n
    /\ UNCHANGED <<in, out>>

Next ==
    \/ Accept
    \/ \E n \in 1 .. Len(in) - done : Deliver(n) \/ Lose(n)

Spec == Init /\ [][Next]_qvars
=============================================================================
