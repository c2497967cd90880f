----------------------------- MODULE RateLimiter -----------------------------
(***************************************************************************)
(* The per-address token buckets of the api-gateway                        *)
(* (services/api-gateway/internal/ratelimit/bucket.go).                    *)
(*                                                                         *)
(* IPLimiter.Allow works in two steps, each under a lock of its own: it    *)
(* finds or creates the client's entry and stamps it (Lookup), then        *)
(* refills the bucket of that entry and takes a token from it (Grant or    *)
(* Deny).  A goroutine drops the entries that were not seen for long       *)
(* (Evict), which makes the next bucket of that address a full one.        *)
(*                                                                         *)
(* Tokens are scaled so that one unit is refilled per tick of the clock:   *)
(* Cost is one token, Cap the burst.  Nothing in the code bounds the time  *)
(* between the two steps of Allow; MaxPause is the longest a request       *)
(* goroutine is kept from running.                                         *)
(***************************************************************************)
EXTENDS Integers

CONSTANTS Keys,        \* addresses
          Requests,    \* request goroutines
          Free,        \* "no entry held"
          Cost,        \* units of one token
          Cap,         \* units of a full bucket (burst)
          EvictAfter,  \* idle time after which an entry is dropped
          MaxPause     \* longest time between the two steps of Allow

ASSUME CostAssumption == Cost \in Nat \ {0}
ASSUME CapAssumption == Cap \in Nat
ASSUME PauseAssumption == MaxPause \in Nat
ASSUME EvictAssumption == EvictAfter \in Nat /\ Cap + MaxPause <= EvictAfter
ASSUME FreeAssumption == Free \notin Keys

VARIABLES now,      \* the clock
          clients,  \* keys of il.clients
          seen,     \* key -> clientEntry.seen
          tokens,   \* key -> tokenBucket.tokens
          last,     \* key -> tokenBucket.last
          holder,   \* request -> key whose entry Allow holds, or Free
          heldAt,   \* request -> when it looked the entry up
          grants,   \* key -> history: set of [at, before] of the granted requests
          used      \* key -> history: units granted so far

entryVars == <<clients, seen, tokens, last>>
heldVars == <<holder, heldAt>>
histVars == <<grants, used>>
limiterVars == <<now, clients, seen, tokens, last, holder, heldAt, grants, used>>

Grants == [at : Nat, before : Nat]

(* Every variable has the shape the code gives it. *)
LimiterTypeOK ==
  /\ now \in Nat
  /\ clients \in SUBSET Keys
  /\ seen \in [Keys -> Nat]
  /\ tokens \in [Keys -> Int]
  /\ last \in [Keys -> Nat]
  /\ holder \in [Requests -> Keys \cup {Free}]
  /\ heldAt \in [Requests -> Nat]
  /\ grants \in [Keys -> SUBSET Grants]
  /\ used \in [Keys -> Nat]

LimiterInit ==
  /\ now = 0
  /\ clients = {}
  /\ seen = [k \in Keys |-> 0]
  /\ tokens = [k \in Keys |-> 0]
  /\ last = [k \in Keys |-> 0]
  /\ holder = [r \in Requests |-> Free]
  /\ heldAt = [r \in Requests |-> 0]
  /\ grants = [k \in Keys |-> {}]
  /\ used = [k \in Keys |-> 0]

(* The bucket after the refill at the start of tokenBucket.allow. *)
Credit(k) == IF tokens[k] + (now - last[k]) > Cap THEN Cap ELSE tokens[k] + (now - last[k])

(* First half of Allow, under il.mu: find or create the entry, stamp it.  *)
(* A new entry has a full bucket.                                          *)
Lookup(r, k) ==
  /\ holder[r] = Free
  /\ holder' = [holder EXCEPT ![r] = k]
  /\ heldAt' = [heldAt EXCEPT ![r] = now]
  /\ clients' = clients \cup {k}
  /\ seen' = [seen EXCEPT ![k] = now]
  /\ tokens' = IF k \in clients THEN tokens ELSE [tokens EXCEPT ![k] = Cap]
  /\ last' = IF k \in clients THEN last ELSE [last EXCEPT ![k] = now]
  /\ UNCHANGED <<now, grants, used>>

(* Allow returns: it holds no entry any more. *)
Release(r) ==
  /\ holder' = [holder EXCEPT ![r] = Free]
  /\ heldAt' = [heldAt EXCEPT ![r] = 0]

(* Second half of Allow, under the bucket's lock: refill, take a token. *)
Grant(r, k) ==
  /\ holder[r] = k
  /\ Credit(k) >= Cost
  /\ tokens' = [tokens EXCEPT ![k] = Credit(k) - Cost]
  /\ last' = [last EXCEPT ![k] = now]
  /\ grants' = [grants EXCEPT ![k] = @ \cup {[at |-> now, before |-> used[k]]}]
  /\ used' = [used EXCEPT ![k] = @ + Cost]
  /\ Release(r)
  /\ UNCHANGED <<now, clients, seen>>

(* ... or leave what there is and refuse. *)
Deny(r, k) ==
  /\ holder[r] = k
  /\ Credit(k) < Cost
  /\ tokens' = [tokens EXCEPT ![k] = Credit(k)]
  /\ last' = [last EXCEPT ![k] = now]
  /\ Release(r)
  /\ UNCHANGED <<now, clients, seen, grants, used>>

(* Mutant: an entry is dropped as soon as it was idle for a tick. *)
Evict_Early ==
  /\ clients' = {k \in clients : now - seen[k] <= 1}
  /\ clients' # clients
  /\ seen' = [k \in Keys |-> IF k \in clients' THEN seen[k] ELSE 0]
  /\ tokens' = [k \in Keys |-> IF k \in clients' THEN tokens[k] ELSE 0]
  /\ last' = [k \in Keys |-> IF k \in clients' THEN last[k] ELSE 0]
  /\ UNCHANGED <<now, holder, heldAt, grants, used>>

(* One pass of the eviction goroutine.  A request that holds an entry has  *)
(* stamped it at most MaxPause ago, so the pass leaves that entry alone.   *)
Evict ==
  /\ clients' = {k \in clients : now - seen[k] <= EvictAfter}
  /\ clients' # clients
  /\ seen' = [k \in Keys |-> IF k \in clients' THEN seen[k] ELSE 0]
  /\ tokens' = [k \in Keys |-> IF k \in clients' THEN tokens[k] ELSE 0]
  /\ last' = [k \in Keys |-> IF k \in clients' THEN last[k] ELSE 0]
  /\ UNCHANGED <<now, holder, heldAt, grants, used>>

(* Time passes, but not past MaxPause for a request inside Allow. *)
Advance ==
  /\ \A r \in Requests : holder[r] # Free => now - heldAt[r] < MaxPause
  /\ now' = now + 1
  /\ UNCHANGED <<clients, seen, tokens, last, holder, heldAt, grants, used>>

LimiterNext ==
  \/ \E r \in Requests, k \in Keys : Lookup(r, k) \/ Grant(r, k) \/ Deny(r, k)
  \/ Evict
  \/ Advance

LimiterSpec == LimiterInit /\ [][LimiterNext]_limiterVars

(* Between any two requests granted to an address, Allow has not granted   *)
(* more than a full bucket and what was refilled in between, whatever is   *)
(* evicted and created again in the meantime.                              *)
RateBounded ==
  \A k \in Keys : \A g, h \in grants[k] :
    g.before <= h.before => h.before + Cost - g.before <= Cap + (h.at - g.at)
=============================================================================
