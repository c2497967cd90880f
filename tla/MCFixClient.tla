---------------------------- MODULE MCFixClient ----------------------------
(* The FIX client on small instances.                                      *)
EXTENDS FixClient

\* A kind and a side of each: an order that rests, and one that does not.
RestAndTake == {<<"limit", "sell">>, <<"market", "buy">>}
=============================================================================
