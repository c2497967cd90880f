----------------------------- MODULE MCGateway -----------------------------
EXTENDS Gateway, TLC

(* Clients and request goroutines are interchangeable. *)
Symmetry == Permutations(Clients) \cup Permutations(Requests)
=============================================================================
