------------------------------- MODULE Quota -------------------------------
(***************************************************************************)
(* What a rate limiter promises each client, without buckets, locks or     *)
(* eviction: a request is granted exactly when the grants of the client    *)
(* stay under the line  Cap + elapsed time  for every earlier grant, and   *)
(* refused exactly when one more would cross it.  Time is counted in the   *)
(* units one of which is refilled per tick; a request costs Cost units.    *)
(***************************************************************************)
EXTENDS Integers

CONSTANTS Clients, Cost, Cap

VARIABLES clock,    \* the time
          granted,  \* client -> set of [at, before]: time and units spent before it
          spent,    \* client -> units spent so far
          refused   \* client -> number of requests refused

vars == <<clock, granted, spent, refused>>

Init ==
  /\ clock = 0
  /\ granted = [c \in Clients |-> {}]
  /\ spent = [c \in Clients |-> 0]
  /\ refused = [c \in Clients |-> 0]

(* One more request of c now keeps every window of c under the line. *)
Conforms(c) ==
  /\ Cost <= Cap
  /\ \A g \in granted[c] : spent[c] + Cost - g.before <= Cap + clock - g.at

Grant(c) ==
  /\ Conforms(c)
  /\ granted' = [granted EXCEPT ![c] = @ \cup {[at |-> clock, before |-> spent[c]]}]
  /\ spent' = [spent EXCEPT ![c] = @ + Cost]
  /\ UNCHANGED <<clock, refused>>

Refuse(c) ==
  /\ ~Conforms(c)
  /\ refused' = [refused EXCEPT ![c] = @ + 1]
  /\ UNCHANGED <<clock, granted, spent>>

Tick ==
  /\ clock' > clock
  /\ UNCHANGED <<granted, spent, refused>>

Next == Tick \/ \E c \in Clients : Grant(c) \/ Refuse(c)

Spec == Init /\ [][Next]_vars
=============================================================================
