---------------------------- MODULE MCAggregator ----------------------------
(* The aggregator on a small instance.                                     *)
EXTENDS Aggregator

CONSTANTS r1, r2, bad, anon

Event(r, l, res) == [run |-> r, lat |-> l, result |-> res]

\* Two runs, both recordable latencies, a latency that is not, every result.
MixedEvents ==
    {Event(r1, 1, "filled"), Event(r1, 2, "timeout"), Event(r2, 0, "rejected"),
     Event(bad, 1, "filled"), Event(anon, 1, "filled")}
=============================================================================
