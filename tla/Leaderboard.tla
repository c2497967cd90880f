---------------------------- MODULE Leaderboard ----------------------------
(***************************************************************************)
(* services/leaderboard-svc: replicas of the Ingester each run a tick loop *)
(* that fetches the aggregator's snapshots, the validator's reports and    *)
(* the sandbox-runner's crash counts with three separate requests, scores  *)
(* every run and upserts the scores into one shared Redis store.           *)
(*                                                                         *)
(* A run is one row of the upstream services, identified by its run key: a *)
(* submission, or (legacy rows without a submission_id) a contestant.      *)
(***************************************************************************)
EXTENDS Integers, FiniteSets

CONSTANTS
    Replicas,       \* leaderboard-svc replicas
    Contestants,
    Submissions,
    Owner,          \* the contestant of each submission
    Snapshots,      \* snapshot rows [base, timeouts]: points before correctness
    MaxCorr,        \* points of a fully correct run
    CrashPenalty, TimeoutPenalty,
    TopN,
    MaxChanges,     \* bound: changes of the upstream services
    MaxFaults       \* bound: failed requests; every outage ends

Runs == Submissions \cup Contestants
OwnerOf(r) == IF r \in Submissions THEN Owner[r] ELSE r
RunsOf(c) == {r \in Runs : OwnerOf(r) = c}

ASSUME LeaderboardAssumption ==
    /\ Submissions \cap Contestants = {}
    /\ Owner \in [Submissions -> Contestants]
    /\ Snapshots \subseteq [base : Nat, timeouts : Nat]
    /\ MaxCorr \in Nat /\ CrashPenalty \in Nat /\ TimeoutPenalty \in Nat
    /\ TopN \in Nat \ {0}
    /\ MaxChanges \in Nat /\ MaxFaults \in Nat

VARIABLES
    agg,         \* aggregator: GET /metrics/merged, a row per run
    val,         \* validator: GET /validate
    crash,       \* sandbox-runner: GET /crashes, as a set of crashes <<run, n>>
    changes, faults,
    pc,          \* program counter of each replica's Tick
    snaps,       \* Tick's local results of the three requests
    reports,
    crashes,
    todo,        \* runs of snaps not yet visited by the scoring loop
    hash,        \* Redis: <key>:subs:<contestant>, the score of each run
    best,        \* Redis: the ZSET
    feed,        \* what each replica broadcast last
    measured,    \* history: snapshot rows each run has had
    judged       \* history: correctness each run was given after real checks

world == <<agg, val, crash, changes, measured, judged>>
local == <<snaps, reports, crashes>>
store == <<hash, best>>
vars == <<agg, val, crash, changes, measured, judged, faults, pc, snaps, reports,
          crashes, todo, hash, best, feed>>

NoRow == [base |-> -1, timeouts |-> 0]      \* no snapshot row for the run
NoReport == [total |-> -1, corr |-> 0]      \* no report row for the run
NoScore == -1                               \* absent from the hash / the ZSET

NoSnapshots == [r \in Runs |-> NoRow]
NoReports == [r \in Runs |-> NoReport]
NoCrashes == {}

\* The number of crashes in rows that the runs in R had.
CrashCount(rows, R) == Cardinality({e \in rows : e[1] \in R})

\* A report with nothing checked carries the default correctness of 1.0.
Report == [total : {0}, corr : {MaxCorr}] \cup [total : {1}, corr : 0 .. MaxCorr]

Init ==
    /\ agg = NoSnapshots
    /\ val = NoReports
    /\ crash = NoCrashes
    /\ changes = 0
    /\ measured = [r \in Runs |-> {}]
    /\ judged = [r \in Runs |-> {}]
    /\ faults = 0
    /\ pc = [p \in Replicas |-> "idle"]
    /\ snaps = [p \in Replicas |-> NoSnapshots]
    /\ reports = [p \in Replicas |-> NoReports]
    /\ crashes = [p \in Replicas |-> NoCrashes]
    /\ todo = [p \in Replicas |-> {}]
    /\ hash = [r \in Runs |-> NoScore]
    /\ best = [c \in Contestants |-> NoScore]
    /\ feed = [p \in Replicas |-> [c \in {} |-> NoScore]]

-----------------------------------------------------------------------------
(* The upstream services, as far as Tick sees them.                        *)

Change ==
    /\ changes < MaxChanges
    /\ changes' = changes + 1
    /\ UNCHANGED <<faults, pc, local, todo, store, feed>>

\* The aggregator flushes a window of the run.
Measure(r, row) ==
    /\ Change
    /\ agg' = [agg EXCEPT ![r] = row]
    /\ measured' = [measured EXCEPT ![r] = @ \cup {row}]
    /\ UNCHANGED <<val, crash, judged>>

\* The validator replays events of the run.
Judge(r, rep) ==
    /\ Change
    /\ val' = [val EXCEPT ![r] = rep]
    /\ judged' = [judged EXCEPT ![r] = IF rep.total > 0 THEN @ \cup {rep.corr} ELSE @]
    /\ UNCHANGED <<agg, crash, measured>>

\* The run's sandbox pod crashes.
Crash(r) ==
    /\ Change
    /\ crash' = crash \cup {<<r, CrashCount(crash, {r}) + 1>>}
    /\ UNCHANGED <<agg, val, measured, judged>>

\* Both services keep their rows in memory and lose them on a restart.
AggregatorRestart ==
    /\ Change
    /\ agg' = NoSnapshots
    /\ UNCHANGED <<val, crash, measured, judged>>

ValidatorRestart ==
    /\ Change
    /\ val' = NoReports
    /\ UNCHANGED <<agg, crash, measured, judged>>

World ==
    \/ \E r \in Runs, row \in Snapshots : Measure(r, row)
    \/ \E r \in Runs, rep \in Report : Judge(r, rep)
    \/ \E r \in Runs : Crash(r)
    \/ AggregatorRestart
    \/ ValidatorRestart

-----------------------------------------------------------------------------
(* Scoring. Points are integers here; the weights are in the rows.         *)

\* score.Compute: the penalties are subtracted and the result never negative.
Compute(row, corr, k) ==
    LET s == row.base + corr - (k * CrashPenalty + row.timeouts * TimeoutPenalty)
    IN  IF s < 0 THEN 0 ELSE s

\* Mutant: a submission is scored with its contestant's crash total.
Sources_Contestant(r) == RunsOf(OwnerOf(r))

\* The rows a run is scored from: its own when it names a submission, all of
\* the contestant's when it is a legacy run.
Sources(r) == IF r \in Submissions THEN {r} ELSE RunsOf(r)

\* corrBySubmission and corrByContestant. Rows come in map order, so for a
\* legacy run any report of the contestant may be the last one written.
Corrs(p, r) ==
    {reports[p][q].corr : q \in {x \in Sources(r) : reports[p][x].total > 0}}

\* crashBySubmission and crashByContestant.
CrashesOf(p, r) == CrashCount(crashes[p], Sources(r))

\* Mutant: the ZSET gets the score just written instead of the maximum.
UpsertSubmission_Last(r, s) ==
    /\ hash' = [hash EXCEPT ![r] = s]
    /\ best' = [best EXCEPT ![OwnerOf(r)] = s]

\* Mutant: the hash keeps the higher of the old and the new score.
UpsertSubmission_KeepHigher(r, s) ==
    /\ hash' = [hash EXCEPT ![r] = IF s > @ THEN s ELSE @]
    /\ \E m \in {hash'[q] : q \in RunsOf(OwnerOf(r))} :
          /\ \A q \in RunsOf(OwnerOf(r)) : hash'[q] <= m
          /\ best' = [best EXCEPT ![OwnerOf(r)] = m]

\* The Lua script of UpsertSubmission, one atomic step in Redis: HSET, then
\* the maximum of HVALS goes to the ZSET.
UpsertSubmission(r, s) ==
    /\ hash' = [hash EXCEPT ![r] = s]
    /\ \E m \in {hash'[q] : q \in RunsOf(OwnerOf(r))} :
          /\ \A q \in RunsOf(OwnerOf(r)) : hash'[q] <= m
          /\ best' = [best EXCEPT ![OwnerOf(r)] = m]

-----------------------------------------------------------------------------
(* Tick.                                                                   *)

Fault ==
    /\ faults < MaxFaults
    /\ faults' = faults + 1

Goto(p, l) == pc' = [pc EXCEPT ![p] = l]

\* Tick returns, with or without an error: its locals are gone.
Return(p) ==
    /\ Goto(p, "idle")
    /\ snaps' = [snaps EXCEPT ![p] = NoSnapshots]
    /\ reports' = [reports EXCEPT ![p] = NoReports]
    /\ crashes' = [crashes EXCEPT ![p] = NoCrashes]
    /\ todo' = [todo EXCEPT ![p] = {}]

\* Fetcher.Snapshots. An error ends the tick before anything is read.
FetchSnapshots(p) ==
    /\ pc[p] = "idle"
    /\ \/ /\ snaps' = [snaps EXCEPT ![p] = agg]
          /\ Goto(p, "reports")
          /\ UNCHANGED faults
       \/ /\ Fault
          /\ UNCHANGED <<snaps, pc>>
    /\ UNCHANGED <<world, reports, crashes, todo, store, feed>>

\* Fetcher.Reports. An error ends the tick.
FetchReports(p) ==
    /\ pc[p] = "reports"
    /\ \/ /\ reports' = [reports EXCEPT ![p] = val]
          /\ Goto(p, "crashes")
          /\ UNCHANGED <<faults, snaps, crashes, todo>>
       \/ /\ Fault
          /\ Return(p)
    /\ UNCHANGED <<world, store, feed>>

\* Fetcher.Crashes. On an error the tick goes on with no crashes at all.
FetchCrashes(p) ==
    /\ pc[p] = "crashes"
    /\ \/ /\ crashes' = [crashes EXCEPT ![p] = crash]
          /\ UNCHANGED faults
       \/ /\ Fault
          /\ UNCHANGED crashes
    /\ Goto(p, "score")
    /\ todo' = [todo EXCEPT ![p] = {r \in Runs : snaps[p][r] # NoRow}]
    /\ UNCHANGED <<world, snaps, reports, store, feed>>

\* One iteration of the loop over snaps: skip the run, store its score, or
\* fail to store it.
Score(p, r) ==
    /\ pc[p] = "score"
    /\ r \in todo[p]
    /\ todo' = [todo EXCEPT ![p] = @ \ {r}]
    /\ \/ /\ Corrs(p, r) = {}
          /\ UNCHANGED <<store, faults>>
       \/ /\ \E corr \in Corrs(p, r) :
                UpsertSubmission(r, Compute(snaps[p][r], corr, CrashesOf(p, r)))
          /\ UNCHANGED faults
       \/ /\ Corrs(p, r) # {}
          /\ Fault
          /\ UNCHANGED store
    /\ UNCHANGED <<world, pc, local, feed>>

\* Store.Top: the TopN best of the ZSET, ties in any order.
IsTop(f) ==
    LET ranked == {c \in Contestants : best[c] # NoScore} IN
    /\ DOMAIN f \subseteq ranked
    /\ Cardinality(DOMAIN f) = IF Cardinality(ranked) < TopN THEN Cardinality(ranked) ELSE TopN
    /\ \A c \in DOMAIN f : f[c] = best[c]
    /\ \A c \in DOMAIN f, d \in ranked \ DOMAIN f : best[c] >= best[d]

\* Mutant: a tick that fetched no snapshot returns before the broadcast.
Broadcast_SkipEmpty(p) ==
    /\ pc[p] = "score"
    /\ todo[p] = {}
    /\ \/ /\ snaps[p] # NoSnapshots
          /\ \E shown \in SUBSET Contestants :
                /\ feed' = [feed EXCEPT ![p] = [c \in shown |-> best[c]]]
                /\ IsTop([c \in shown |-> best[c]])
       \/ /\ snaps[p] = NoSnapshots
          /\ UNCHANGED feed
    /\ Return(p)
    /\ UNCHANGED <<world, store, faults>>

\* After the loop: Top, then Hub.Broadcast to this replica's clients.
Broadcast(p) ==
    /\ pc[p] = "score"
    /\ todo[p] = {}
    /\ \/ /\ \E shown \in SUBSET Contestants :
                /\ feed' = [feed EXCEPT ![p] = [c \in shown |-> best[c]]]
                /\ IsTop([c \in shown |-> best[c]])
          /\ UNCHANGED faults
       \/ /\ Fault
          /\ UNCHANGED feed
    /\ Return(p)
    /\ UNCHANGED <<world, store>>

\* A replica dies in the middle of a tick and is started again.
Restart(p) ==
    /\ Fault
    /\ Return(p)
    /\ feed' = [feed EXCEPT ![p] = [c \in {} |-> NoScore]]
    /\ UNCHANGED <<world, store>>

Tick(p) ==
    \/ FetchSnapshots(p)
    \/ FetchReports(p)
    \/ FetchCrashes(p)
    \/ \E r \in Runs : Score(p, r)
    \/ Broadcast(p)

Next ==
    \/ World
    \/ \E p \in Replicas : Tick(p) \/ Restart(p)

Spec == Init /\ [][Next]_vars

\* Each replica's ticker keeps firing and each request returns (the HTTP
\* client has a timeout). Requests stop failing after MaxFaults.
FairSpec == Spec /\ \A p \in Replicas : WF_vars(Tick(p))

-----------------------------------------------------------------------------
(* Properties.                                                             *)

Row == Snapshots \cup {NoRow}
Rep == Report \cup {NoReport}

\* Types; in particular a stored score is never negative (score.Compute clamps).
TypeOK ==
    /\ agg \in [Runs -> Row]
    /\ val \in [Runs -> Rep]
    /\ crash \in SUBSET (Runs \X Nat) /\ IsFiniteSet(crash)
    /\ changes \in Nat /\ faults \in Nat
    /\ measured \in [Runs -> SUBSET Snapshots]
    /\ judged \in [Runs -> SUBSET (0 .. MaxCorr)]
    /\ pc \in [Replicas -> {"idle", "reports", "crashes", "score"}]
    /\ snaps \in [Replicas -> [Runs -> Row]]
    /\ reports \in [Replicas -> [Runs -> Rep]]
    /\ crashes \in [Replicas -> SUBSET (Runs \X Nat)]
    /\ todo \in [Replicas -> SUBSET Runs]
    /\ hash \in [Runs -> Nat \cup {NoScore}]
    /\ best \in [Contestants -> Nat \cup {NoScore}]

\* However the ticks of the replicas interleave, fail or die half way, the
\* ZSET holds for each contestant the best of the scores in their hash: a
\* later, worse attempt never hides an earlier, better one.
BestIsMax ==
    \A c \in Contestants :
        /\ \A r \in RunsOf(c) : hash[r] <= best[c]
        /\ \E r \in RunsOf(c) : hash[r] = best[c]

\* Attribution is strict and fail-closed: the stored score of a submission
\* is computed from a snapshot the submission had, a correctness it was given
\* for real checks, and no more crashes than its own pods had, although the
\* three were fetched at different moments by replicas that may be stale.
ScoredFromOwnRows ==
    \A r \in Submissions :
        hash[r] # NoScore =>
            \E row \in measured[r], corr \in judged[r], k \in 0 .. CrashCount(crash, {r}) :
                hash[r] = Compute(row, corr, k)

\* Once the upstream services stop changing, the stored score of every
\* submission with a snapshot and a verdict becomes, and stays, the one its
\* current rows give: a stale replica's overwrite is always repaired.
ScoresConverge ==
    <>[](\A r \in Submissions :
            agg[r] # NoRow /\ val[r].total > 0 =>
                hash[r] = Compute(agg[r], val[r].corr, CrashCount(crash, {r})))

\* In the end the clients of every replica are shown the same store, unless
\* legacy rows stay: two reports of a contestant make a legacy run's score
\* follow the random order of the validator's map for ever.
FeedsConverge ==
    <>[](\A c \in Contestants : agg[c] = NoRow)
        => <>[](\A p \in Replicas : IsTop(feed[p]))
=============================================================================
