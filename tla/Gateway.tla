------------------------------- MODULE Gateway -------------------------------
(***************************************************************************)
(* The api-gateway (services/api-gateway): every request goes through the  *)
(* rate limiter, then to the token endpoint, the health endpoint or,       *)
(* behind the JWT check, to submission-svc.  The buckets are those of      *)
(* RateLimiter, keyed by the address clientIP finds behind Hops trusted    *)
(* proxies.  Access log, request ids and the signature are left out; a     *)
(* token is its claims, and a request carries one the gateway issued or    *)
(* none it accepts.                                                        *)
(***************************************************************************)
EXTENDS RateLimiter, Sequences

CONSTANTS Clients,      \* the clients' addresses
          Nobody,       \* not a client
          Proxy,        \* the address of a trusted proxy
          Hops,         \* TRUSTED_PROXY_HOPS, the proxies in front of the gateway
          TTL,          \* JWTTokenTTL
          Second,       \* ticks of a second: claims are in whole seconds
          MaxTime,      \* bound on the clock
          MaxRequests   \* bound on the requests sent

ASSUME HopsAssumption == Hops \in Nat
ASSUME KeysAssumption == Keys = Clients \cup {Proxy}
ASSUME TokenAssumption == TTL \in Nat /\ Second \in Nat \ {0}

VARIABLES pc,       \* request -> idle, allow, route, upstream
          from,     \* request -> client
          kind,     \* request -> token, submission, health
          bearer,   \* request -> the claims it carries
          claims,   \* client -> the claims of its latest token
          sent,     \* number of requests sent
          throttled \* client -> number of 429 answers

requestVars == <<pc, from, kind, bearer>>
gatewayVars == <<now, clients, seen, tokens, last, holder, heldAt, grants, used,
                 pc, from, kind, bearer, claims, sent, throttled>>

(* The claims of a token: when it expires, in whole seconds; at is the     *)
(* moment of issue, for the property (the code keeps its second in iat).   *)
NoClaims == [at |-> -1, exp |-> -1]
Kinds == {"token", "submission", "health"}

GatewayInit ==
  /\ LimiterInit
  /\ pc = [r \in Requests |-> "idle"]
  /\ from = [r \in Requests |-> Nobody]
  /\ kind = [r \in Requests |-> "health"]
  /\ bearer = [r \in Requests |-> NoClaims]
  /\ claims = [c \in Clients |-> NoClaims]
  /\ sent = 0
  /\ throttled = [c \in Clients |-> 0]

(* What the trusted proxies make of a request of c that arrives at the     *)
(* first of them with the header xff: each appends the address it sees.    *)
Forwarded(c, xff) ==
  IF Hops = 0 THEN xff ELSE xff \o <<c>> \o [i \in 1 .. Hops - 1 |-> Proxy]
RemoteAddr(c) == IF Hops = 0 THEN c ELSE Proxy

(* Mutant: the entry before the Nth from the right. *)
clientIP_OffByOne(remote, xff) ==
  LET idx == Len(xff) - Hops IN IF Hops > 0 /\ idx \in DOMAIN xff THEN xff[idx] ELSE remote

(* The key of a request: the Nth entry from the right, or the peer. *)
clientIP(remote, xff) ==
  LET idx == Len(xff) - Hops + 1 IN IF Hops > 0 /\ idx \in DOMAIN xff THEN xff[idx] ELSE remote

(* A request arrives: Middleware finds its key and Allow its entry. *)
Arrive(r, c, what, xff, tok) ==
  /\ pc[r] = "idle"
  /\ sent < MaxRequests
  /\ Lookup(r, clientIP(RemoteAddr(c), Forwarded(c, xff)))
  /\ pc' = [pc EXCEPT ![r] = "allow"]
  /\ from' = [from EXCEPT ![r] = c]
  /\ kind' = [kind EXCEPT ![r] = what]
  /\ bearer' = [bearer EXCEPT ![r] = tok]
  /\ sent' = sent + 1
  /\ UNCHANGED <<claims, throttled>>

(* A request ends; nothing of it is kept. *)
Reset(r) ==
  /\ pc' = [pc EXCEPT ![r] = "idle"]
  /\ from' = [from EXCEPT ![r] = Nobody]
  /\ kind' = [kind EXCEPT ![r] = "health"]
  /\ bearer' = [bearer EXCEPT ![r] = NoClaims]

(* Allow says yes: the mux is next. *)
Pass(r) ==
  /\ pc[r] = "allow"
  /\ Grant(r, holder[r])
  /\ pc' = [pc EXCEPT ![r] = "route"]
  /\ UNCHANGED <<from, kind, bearer, claims, sent, throttled>>

(* Allow says no: 429. *)
Throttle(r) ==
  /\ pc[r] = "allow"
  /\ Deny(r, holder[r])
  /\ throttled' = [throttled EXCEPT ![from[r]] = @ + 1]
  /\ Reset(r)
  /\ UNCHANGED <<claims, sent>>

(* GET /healthz. *)
handleHealth(r) ==
  /\ pc[r] = "route" /\ kind[r] = "health"
  /\ Reset(r)
  /\ UNCHANGED <<limiterVars, claims, sent, throttled>>

(* The claims auth.Issue signs: the expiry in whole seconds. *)
Issue(t) == [at |-> t, exp |-> (t + TTL) \div Second]

(* POST /auth/token: a new token, or 400 for a request without an id. *)
handleToken(r) ==
  /\ pc[r] = "route" /\ kind[r] = "token"
  /\ \/ claims' = [claims EXCEPT ![from[r]] = Issue(now)]
     \/ UNCHANGED claims
  /\ Reset(r)
  /\ UNCHANGED <<limiterVars, sent, throttled>>

(* Mutant: the second of the expiry is lost. *)
Validate_Eager(tok) == tok # NoClaims /\ now \div Second < tok.exp

(* auth.Validate: the token is one the gateway issued and has not expired. *)
Validate(tok) == tok # NoClaims /\ now \div Second <= tok.exp

(* The routes behind auth.Middleware: forwarded, or 401. *)
Forward(r) ==
  /\ pc[r] = "route" /\ kind[r] = "submission"
  /\ Validate(bearer[r])
  /\ pc' = [pc EXCEPT ![r] = "upstream"]
  /\ UNCHANGED <<limiterVars, from, kind, bearer, claims, sent, throttled>>

Unauthorized(r) ==
  /\ pc[r] = "route" /\ kind[r] = "submission"
  /\ ~Validate(bearer[r])
  /\ Reset(r)
  /\ UNCHANGED <<limiterVars, claims, sent, throttled>>

(* submission-svc answers, or the proxy gives up with 502. *)
Answer(r) ==
  /\ pc[r] = "upstream"
  /\ Reset(r)
  /\ UNCHANGED <<limiterVars, claims, sent, throttled>>

Tick ==
  /\ now < MaxTime
  /\ Advance
  /\ UNCHANGED <<requestVars, claims, sent, throttled>>

EvictPass ==
  /\ Evict
  /\ UNCHANGED <<requestVars, claims, sent, throttled>>

Handle(r) ==
  \/ Pass(r) \/ Throttle(r)
  \/ handleHealth(r) \/ handleToken(r)
  \/ Forward(r) \/ Unauthorized(r) \/ Answer(r)

(* A client sends what it likes in X-Forwarded-For, a token or none. *)
Send(r) ==
  \E c \in Clients, what \in Kinds :
    \E xff \in {<<>>} \cup {<<d>> : d \in Clients \ {c}} :
      \E tok \in IF what = "submission" THEN {NoClaims, claims[c]} ELSE {NoClaims} :
        Arrive(r, c, what, xff, tok)

GatewayNext ==
  \/ \E r \in Requests : Send(r) \/ Handle(r)
  \/ Tick \/ EvictPass

GatewaySpec == GatewayInit /\ [][GatewayNext]_gatewayVars

(* Seen from outside, the limiter keeps exactly the quota of each client: *)
(* whatever a client writes into X-Forwarded-For, whichever requests are   *)
(* between the two steps of Allow and whatever is evicted, its requests    *)
(* are granted and refused by its own traffic alone.                       *)
Limit == INSTANCE Quota WITH clock <- now,
                             granted <- [c \in Clients |-> grants[c]],
                             spent <- [c \in Clients |-> used[c]],
                             refused <- throttled
KeepsQuota == Limit!Spec

(* A token is good for the expires_in its owner was told, and for less     *)
(* than a second more, however long the request waits in Allow first:      *)
(* neither the rounding of exp nor the test in Validate loses a moment.    *)
TokenLifetime ==
  [][\A r \in Requests :
       (pc[r] = "route" /\ kind[r] = "submission" /\ pc'[r] # "route" /\ bearer[r] # NoClaims) =>
         /\ now < bearer[r].at + TTL => pc'[r] = "upstream"
         /\ now >= bearer[r].at + TTL + Second => pc'[r] = "idle"]_gatewayVars
=============================================================================
