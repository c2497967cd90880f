------------------------- MODULE LeaderboardProofs --------------------------
(***************************************************************************)
(* The leaderboard, and the two pages of the dashboard: the build log and  *)
(* the live standings.  Scoring, build log and live feed share no state;   *)
(* their theorems stand side by side.                                      *)
(***************************************************************************)
EXTENDS Leaderboard, Dashboard, FiniteSetTheorems, SequenceTheorems, TLAPS

-----------------------------------------------------------------------------
(***************************************************************************)
(* Proofs about the leaderboard for every number of replicas, contestants, *)
(* submissions and faults: the ranking score is the maximum over a         *)
(* contestant's runs, and a submission is scored from its own rows.        *)
(***************************************************************************)

-----------------------------------------------------------------------------
(* Lemmas about runs, scores and crash counts.                             *)

\* Every run has an owner, and every contestant owns a run.
LEMMA OwnerFacts ==
  /\ \A r \in Runs : OwnerOf(r) \in Contestants
  /\ \A c \in Contestants : c \in RunsOf(c)
  /\ \A r \in Runs : r \in RunsOf(OwnerOf(r))
  /\ \A c \in Contestants : RunsOf(c) \subseteq Runs
BY LeaderboardAssumption DEF Runs, OwnerOf, RunsOf

\* The rows that stand for "no row" are not rows, nor verdicts.
LEMMA NoRowFacts ==
  /\ NoRow \notin Snapshots
  /\ \A rep \in Rep : rep.total > 0 => rep.corr \in 0 .. MaxCorr
BY LeaderboardAssumption DEF NoRow, NoReport, Rep, Report

\* A score is a natural number.
LEMMA ComputeType ==
  ASSUME NEW row \in Snapshots, NEW corr \in 0 .. MaxCorr, NEW k \in Nat
  PROVE  Compute(row, corr, k) \in Nat
<1>1. row.base \in Nat /\ row.timeouts \in Nat
  BY LeaderboardAssumption
<1>2. k * CrashPenalty \in Nat /\ row.timeouts * TimeoutPenalty \in Nat
  BY <1>1, LeaderboardAssumption
<1> QED
  BY <1>1, <1>2, LeaderboardAssumption DEF Compute

\* Crash counts are natural numbers and grow with the set of crashes.
LEMMA CrashCountFacts ==
  ASSUME NEW S, NEW T, NEW R, IsFiniteSet(T), S \subseteq T
  PROVE  /\ CrashCount(S, R) \in Nat /\ CrashCount(T, R) \in Nat
         /\ CrashCount(S, R) <= CrashCount(T, R)
<1> DEFINE A == {e \in S : e[1] \in R}
           B == {e \in T : e[1] \in R}
<1>1. A \subseteq B /\ B \subseteq T
  OBVIOUS
<1>2. IsFiniteSet(B)
  BY <1>1, FS_Subset
<1>3. IsFiniteSet(A) /\ Cardinality(A) <= Cardinality(B)
  BY <1>1, <1>2, FS_Subset
<1> QED
  BY <1>2, <1>3, FS_CardinalityType DEF CrashCount

-----------------------------------------------------------------------------
(* The inductive invariant. What a replica fetched may be stale, but it is *)
(* a row its run really had: that is what carries ScoredFromOwnRows across *)
(* the moments between the three requests and the upsert.                  *)

\* The rows the upstream services show now are in the histories.
WorldOK ==
    \A r \in Runs :
        /\ agg[r] # NoRow => agg[r] \in measured[r]
        /\ val[r].total > 0 => val[r].corr \in judged[r]

\* So are the rows a replica fetched, however long ago.
LocalOK ==
    \A p \in Replicas :
        /\ crashes[p] \subseteq crash
        /\ \A r \in Runs :
              /\ snaps[p][r] # NoRow => snaps[p][r] \in measured[r]
              /\ reports[p][r].total > 0 => reports[p][r].corr \in judged[r]
        /\ \A r \in todo[p] : snaps[p][r] # NoRow
        /\ todo[p] # {} => pc[p] = "score"

IInv == TypeOK /\ WorldOK /\ LocalOK /\ BestIsMax /\ ScoredFromOwnRows

\* The initial state satisfies the invariant.
LEMMA InitInv == Init => IInv
<1> SUFFICES ASSUME Init PROVE IInv
  OBVIOUS
<1>1. TypeOK
  <2>1. IsFiniteSet({})
    BY FS_EmptySet
  <2> QED
    BY <2>1 DEF Init, TypeOK, NoSnapshots, NoReports, NoCrashes, Row, Rep
<1>2. WorldOK /\ LocalOK
  BY DEF Init, WorldOK, LocalOK, NoSnapshots, NoReports, NoCrashes, NoReport
<1>3. BestIsMax
  BY OwnerFacts DEF Init, BestIsMax, NoScore
<1>4. ScoredFromOwnRows
  BY DEF Init, ScoredFromOwnRows, Runs
<1> QED
  BY <1>1, <1>2, <1>3, <1>4 DEF IInv

\* A change of an upstream service keeps the invariant.
LEMMA WorldStep ==
  ASSUME IInv, World
  PROVE  IInv'
<1> USE DEF IInv
<1>1. ASSUME NEW r \in Runs, NEW row \in Snapshots, Measure(r, row)
      PROVE  IInv'
  <2>1. TypeOK'
    BY <1>1 DEF Measure, Change, TypeOK, Row, local, store
  <2>2. WorldOK'
    BY <1>1 DEF Measure, TypeOK, WorldOK
  <2>3. LocalOK'
    BY <1>1 DEF Measure, Change, TypeOK, LocalOK, local
  <2>4. BestIsMax'
    BY <1>1 DEF Measure, Change, BestIsMax, store
  <2>5. ScoredFromOwnRows'
    BY <1>1 DEF Measure, Change, TypeOK, ScoredFromOwnRows, store, Runs
  <2> QED
    BY <2>1, <2>2, <2>3, <2>4, <2>5
<1>2. ASSUME NEW r \in Runs, NEW rep \in Report, Judge(r, rep)
      PROVE  IInv'
  <2>1. rep \in Rep /\ (rep.total > 0 => rep.corr \in 0 .. MaxCorr)
    BY NoRowFacts DEF Rep
  <2>2. TypeOK'
    BY <1>2, <2>1 DEF Judge, Change, TypeOK, local, store
  <2>3. WorldOK'
    BY <1>2 DEF Judge, TypeOK, WorldOK
  <2>4. LocalOK'
    BY <1>2 DEF Judge, Change, TypeOK, LocalOK, local
  <2>5. BestIsMax'
    BY <1>2 DEF Judge, Change, BestIsMax, store
  <2>6. ScoredFromOwnRows'
    BY <1>2 DEF Judge, Change, TypeOK, ScoredFromOwnRows, store, Runs
  <2> QED
    BY <2>2, <2>3, <2>4, <2>5, <2>6
<1>3. ASSUME NEW r \in Runs, Crash(r)
      PROVE  IInv'
  <2>1. PICK n \in Nat : crash' = crash \cup {<<r, n>>}
    <3>1. CrashCount(crash, {r}) + 1 \in Nat
      BY CrashCountFacts DEF TypeOK
    <3> QED
      BY <1>3, <3>1 DEF Crash
  <2>2. IsFiniteSet(crash') /\ crash \subseteq crash'
    BY <2>1, FS_AddElement DEF TypeOK
  <2>3. TypeOK'
    <3>1. crash' \in SUBSET (Runs \X Nat)
      BY <1>3, <2>1 DEF TypeOK
    <3>2. changes' \in Nat
      BY <1>3 DEF Crash, Change, TypeOK
    <3> QED
      BY <1>3, <2>2, <3>1, <3>2 DEF Crash, Change, TypeOK, local, store
  <2>4. WorldOK' /\ BestIsMax'
    BY <1>3 DEF Crash, Change, WorldOK, BestIsMax, store
  <2>5. LocalOK'
    BY <1>3, <2>2 DEF Crash, Change, LocalOK, local
  <2>6. ScoredFromOwnRows'
    <3> SUFFICES ASSUME NEW q \in Submissions, hash[q] # NoScore
                 PROVE  \E row \in measured[q], corr \in judged[q],
                           k \in 0 .. CrashCount(crash', {q}) :
                               hash[q] = Compute(row, corr, k)
      BY <1>3 DEF Crash, Change, ScoredFromOwnRows, store
    <3>1. PICK row \in measured[q], corr \in judged[q], k \in 0 .. CrashCount(crash, {q}) :
                   hash[q] = Compute(row, corr, k)
      BY DEF ScoredFromOwnRows
    <3>2. /\ CrashCount(crash, {q}) \in Nat /\ CrashCount(crash', {q}) \in Nat
          /\ CrashCount(crash, {q}) <= CrashCount(crash', {q})
      BY <2>2, CrashCountFacts
    <3>3. k \in 0 .. CrashCount(crash', {q})
      BY <3>2
    <3> QED
      BY <3>1, <3>3
  <2> QED
    BY <2>3, <2>4, <2>5, <2>6
<1>4. CASE AggregatorRestart
  <2>1. TypeOK'
    BY <1>4 DEF AggregatorRestart, Change, TypeOK, NoSnapshots, Row, local, store
  <2>2. WorldOK' /\ BestIsMax'
    BY <1>4 DEF AggregatorRestart, Change, WorldOK, BestIsMax, NoSnapshots, store
  <2>3. LocalOK'
    BY <1>4 DEF AggregatorRestart, Change, LocalOK, local
  <2>4. ScoredFromOwnRows'
    BY <1>4 DEF AggregatorRestart, Change, ScoredFromOwnRows, store
  <2> QED
    BY <2>1, <2>2, <2>3, <2>4
<1>5. CASE ValidatorRestart
  <2>1. TypeOK'
    BY <1>5 DEF ValidatorRestart, Change, TypeOK, NoReports, Rep, local, store
  <2>2. WorldOK' /\ BestIsMax'
    BY <1>5 DEF ValidatorRestart, Change, WorldOK, BestIsMax, NoReports, NoReport, store
  <2>3. LocalOK'
    BY <1>5 DEF ValidatorRestart, Change, LocalOK, local
  <2>4. ScoredFromOwnRows'
    BY <1>5 DEF ValidatorRestart, Change, ScoredFromOwnRows, store
  <2> QED
    BY <2>1, <2>2, <2>3, <2>4
<1> QED
  BY <1>1, <1>2, <1>3, <1>4, <1>5 DEF World

\* Fetching what the aggregator shows now.
LEMMA FetchSnapshotsStep ==
  ASSUME IInv, NEW p \in Replicas, FetchSnapshots(p)
  PROVE  IInv'
<1> USE DEF IInv
<1>1. \/ snaps' = [snaps EXCEPT ![p] = agg] /\ Goto(p, "reports") /\ UNCHANGED faults
      \/ Fault /\ UNCHANGED <<snaps, pc>>
  BY DEF FetchSnapshots
<1>2. pc[p] = "idle" /\ UNCHANGED <<reports, crashes, todo, hash, best, agg, val, crash,
                                    changes, measured, judged>>
  BY DEF FetchSnapshots, world, store
<1>3. TypeOK'
  <2>1. snaps' \in [Replicas -> [Runs -> Row]]
    BY <1>1 DEF TypeOK
  <2>2. pc' \in [Replicas -> {"idle", "reports", "crashes", "score"}]
    BY <1>1 DEF Goto, TypeOK
  <2>3. faults' \in Nat
    BY <1>1 DEF Fault, TypeOK
  <2> QED
    BY <1>2, <2>1, <2>2, <2>3 DEF TypeOK
<1>4. WorldOK' /\ BestIsMax'
  BY <1>2 DEF WorldOK, BestIsMax
<1>5. LocalOK'
  <2>1. todo[p] = {}
    BY <1>2 DEF LocalOK
  <2>2. CASE Fault /\ UNCHANGED <<snaps, pc>>
    BY <1>2, <2>2 DEF LocalOK
  <2>3. CASE snaps' = [snaps EXCEPT ![p] = agg] /\ Goto(p, "reports") /\ UNCHANGED faults
    BY <1>2, <2>1, <2>3 DEF Goto, TypeOK, WorldOK, LocalOK
  <2> QED
    BY <1>1, <2>2, <2>3
<1>6. ScoredFromOwnRows'
  BY <1>2 DEF ScoredFromOwnRows
<1> QED
  BY <1>3, <1>4, <1>5, <1>6

\* A tick that ends, or dies, only forgets what it fetched.
LEMMA ReturnStep ==
  ASSUME IInv, NEW p \in Replicas, Return(p), UNCHANGED <<world, store>>,
         faults' \in Nat
  PROVE  IInv'
<1> USE DEF IInv
<1>1. TypeOK'
  BY DEF Return, Goto, TypeOK, world, store, NoSnapshots, NoReports, NoCrashes, Row, Rep
<1>2. WorldOK' /\ BestIsMax'
  BY DEF WorldOK, BestIsMax, world, store
<1>3. LocalOK'
  BY DEF Return, Goto, TypeOK, LocalOK, world, NoSnapshots, NoReports, NoCrashes, NoReport
<1>4. ScoredFromOwnRows'
  BY DEF ScoredFromOwnRows, world, store
<1> QED
  BY <1>1, <1>2, <1>3, <1>4

\* Fetching what the validator shows now.
LEMMA FetchReportsStep ==
  ASSUME IInv, NEW p \in Replicas, FetchReports(p)
  PROVE  IInv'
<1>1. CASE Fault /\ Return(p)
  <2>1. faults' \in Nat
    BY <1>1 DEF Fault, IInv, TypeOK
  <2> QED
    BY <1>1, <2>1, ReturnStep DEF FetchReports
<1>2. CASE /\ reports' = [reports EXCEPT ![p] = val]
           /\ Goto(p, "crashes")
           /\ UNCHANGED <<faults, snaps, crashes, todo>>
  <2> USE DEF IInv
  <2>1. TypeOK'
    BY <1>2 DEF FetchReports, Goto, TypeOK, world, store
  <2>2. WorldOK' /\ BestIsMax'
    BY DEF FetchReports, WorldOK, BestIsMax, world, store
  <2>3. LocalOK'
    BY <1>2 DEF FetchReports, Goto, TypeOK, WorldOK, LocalOK, world
  <2>4. ScoredFromOwnRows'
    BY DEF FetchReports, ScoredFromOwnRows, world, store
  <2> QED
    BY <2>1, <2>2, <2>3, <2>4
<1> QED
  BY <1>1, <1>2 DEF FetchReports

\* Fetching the crash counts, or going on without them.
LEMMA FetchCrashesStep ==
  ASSUME IInv, NEW p \in Replicas, FetchCrashes(p)
  PROVE  IInv'
<1> USE DEF IInv
<1>1. TypeOK'
  BY DEF FetchCrashes, Fault, Goto, TypeOK, world, store
<1>2. WorldOK' /\ BestIsMax'
  BY DEF FetchCrashes, WorldOK, BestIsMax, world, store
<1>3. LocalOK'
  BY DEF FetchCrashes, Goto, TypeOK, LocalOK, world
<1>4. ScoredFromOwnRows'
  BY DEF FetchCrashes, ScoredFromOwnRows, world, store
<1> QED
  BY <1>1, <1>2, <1>3, <1>4

\* Visiting a run without storing a score.
LEMMA SkipStep ==
  ASSUME IInv, NEW p \in Replicas, NEW r \in Runs, r \in todo[p], pc[p] = "score",
         todo' = [todo EXCEPT ![p] = @ \ {r}],
         UNCHANGED <<world, pc, local, feed, store>>, faults' \in Nat
  PROVE  IInv'
<1> USE DEF IInv
<1>1. TypeOK'
  BY DEF TypeOK, world, local, store
<1>2. WorldOK' /\ BestIsMax'
  BY DEF WorldOK, BestIsMax, world, store
<1>3. LocalOK'
  BY DEF TypeOK, LocalOK, world, local
<1>4. ScoredFromOwnRows'
  BY DEF ScoredFromOwnRows, world, store
<1> QED
  BY <1>1, <1>2, <1>3, <1>4

\* The Lua script stores a score and the maximum over the contestant's runs.
LEMMA UpsertBest ==
  ASSUME TypeOK, BestIsMax, NEW r \in Runs, NEW s \in Nat, UpsertSubmission(r, s)
  PROVE  /\ hash' \in [Runs -> Nat \cup {NoScore}]
         /\ best' \in [Contestants -> Nat \cup {NoScore}]
         /\ BestIsMax'
<1>1. hash' = [hash EXCEPT ![r] = s] /\ hash' \in [Runs -> Nat \cup {NoScore}]
  BY DEF UpsertSubmission, TypeOK
<1>2. PICK t \in RunsOf(OwnerOf(r)) :
         /\ \A q \in RunsOf(OwnerOf(r)) : hash'[q] <= hash'[t]
         /\ best' = [best EXCEPT ![OwnerOf(r)] = hash'[t]]
  BY DEF UpsertSubmission
<1>3. OwnerOf(r) \in Contestants /\ t \in Runs
  BY OwnerFacts
<1>4. best' \in [Contestants -> Nat \cup {NoScore}]
  BY <1>1, <1>2, <1>3 DEF TypeOK
<1>5. BestIsMax'
  <2> SUFFICES ASSUME NEW c \in Contestants
               PROVE  /\ \A q \in RunsOf(c) : hash'[q] <= best'[c]
                      /\ \E q \in RunsOf(c) : hash'[q] = best'[c]
    BY DEF BestIsMax
  <2>1. CASE c = OwnerOf(r)
    BY <2>1, <1>2, <1>3 DEF TypeOK
  <2>2. CASE c # OwnerOf(r)
    <3>1. best'[c] = best[c]
      BY <2>2, <1>2, <1>3 DEF TypeOK
    <3>2. r \notin RunsOf(c) /\ RunsOf(c) \subseteq Runs
      BY <2>2, OwnerFacts DEF RunsOf
    <3>3. \A q \in RunsOf(c) : hash'[q] = hash[q]
      BY <3>2, <1>1 DEF TypeOK
    <3> QED
      BY <3>1, <3>3 DEF BestIsMax
  <2> QED
    BY <2>1, <2>2
<1> QED
  BY <1>1, <1>4, <1>5

\* Storing a score keeps the invariant: the rows it is computed from are
\* rows the submission had, and the crashes it is charged really happened.
LEMMA UpsertStep ==
  ASSUME IInv, NEW p \in Replicas, NEW r \in Runs, Score(p, r), NEW corr \in Corrs(p, r),
         UpsertSubmission(r, Compute(snaps[p][r], corr, CrashesOf(p, r))),
         UNCHANGED faults
  PROVE  IInv'
<1> USE DEF IInv
<1>1. PICK row : row = snaps[p][r]
  OBVIOUS
<1>2. row \in Snapshots /\ row \in measured[r]
  BY <1>1 DEF Score, TypeOK, LocalOK
<1>3. PICK q \in Sources(r) : reports[p][q].total > 0 /\ corr = reports[p][q].corr
  BY DEF Corrs
<1>4. q \in Runs /\ (r \in Submissions => q = r)
  BY OwnerFacts DEF Sources, RunsOf, Runs
<1>5. corr \in judged[q] /\ corr \in 0 .. MaxCorr
  BY <1>3, <1>4 DEF LocalOK, TypeOK
<1>6. PICK k : k = CrashesOf(p, r)
  OBVIOUS
<1>7. k \in Nat /\ (r \in Submissions => k \in 0 .. CrashCount(crash, {r}))
  <2>1. crashes[p] \subseteq crash /\ IsFiniteSet(crash)
    BY DEF LocalOK, TypeOK
  <2>2. k = CrashCount(crashes[p], Sources(r))
    BY <1>6 DEF CrashesOf
  <2>3. k \in Nat
    BY <2>1, <2>2, CrashCountFacts
  <2>4. ASSUME r \in Submissions PROVE k \in 0 .. CrashCount(crash, {r})
    <3>1. k = CrashCount(crashes[p], {r})
      BY <2>2, <2>4 DEF Sources
    <3>2. CrashCount(crash, {r}) \in Nat /\ CrashCount(crashes[p], {r}) <= CrashCount(crash, {r})
      BY <2>1, CrashCountFacts
    <3> QED
      BY <2>3, <3>1, <3>2
  <2> QED
    BY <2>3, <2>4
<1>8. PICK s : s = Compute(row, corr, k)
  OBVIOUS
<1>9. s \in Nat
  BY <1>2, <1>5, <1>7, <1>8, ComputeType
<1>10. UpsertSubmission(r, s)
  BY <1>1, <1>6, <1>8
<1>11. /\ hash' \in [Runs -> Nat \cup {NoScore}]
       /\ best' \in [Contestants -> Nat \cup {NoScore}]
       /\ BestIsMax'
  BY <1>9, <1>10, UpsertBest
<1>12. /\ todo' = [todo EXCEPT ![p] = @ \ {r}]
       /\ UNCHANGED <<agg, val, crash, changes, measured, judged, pc, snaps, reports, crashes>>
  BY DEF Score, world, local
<1>13. TypeOK'
  BY <1>11, <1>12 DEF TypeOK
<1>14. WorldOK'
  BY <1>12 DEF WorldOK
<1>15. LocalOK'
  BY <1>12 DEF TypeOK, LocalOK
<1>16. ScoredFromOwnRows'
  <2> SUFFICES ASSUME NEW t \in Submissions, hash'[t] # NoScore
               PROVE  \E x \in measured[t], y \in judged[t], z \in 0 .. CrashCount(crash, {t}) :
                          hash'[t] = Compute(x, y, z)
    BY <1>12 DEF ScoredFromOwnRows
  <2>1. t \in Runs /\ hash' = [hash EXCEPT ![r] = s]
    BY <1>10 DEF UpsertSubmission, Runs
  <2>2. CASE t = r
    <3>1. hash'[t] = Compute(row, corr, k)
      BY <2>1, <2>2, <1>8 DEF TypeOK
    <3> QED
      BY <2>2, <3>1, <1>2, <1>4, <1>5, <1>7
  <2>3. CASE t # r
    <3>1. hash'[t] = hash[t]
      BY <2>1, <2>3 DEF TypeOK
    <3> QED
      BY <3>1 DEF ScoredFromOwnRows
  <2> QED
    BY <2>2, <2>3
<1> QED
  BY <1>11, <1>13, <1>14, <1>15, <1>16

\* One iteration of the scoring loop.
LEMMA ScoreStep ==
  ASSUME IInv, NEW p \in Replicas, NEW r \in Runs, Score(p, r)
  PROVE  IInv'
<1>1. CASE \E corr \in Corrs(p, r) :
              /\ UpsertSubmission(r, Compute(snaps[p][r], corr, CrashesOf(p, r)))
              /\ UNCHANGED faults
  BY <1>1, UpsertStep
<1>2. CASE UNCHANGED store /\ (UNCHANGED faults \/ Fault)
  <2>1. faults' \in Nat
    BY <1>2 DEF Fault, IInv, TypeOK
  <2>2. /\ r \in todo[p] /\ pc[p] = "score"
        /\ todo' = [todo EXCEPT ![p] = @ \ {r}]
        /\ UNCHANGED <<world, pc, local, feed>>
    BY DEF Score
  <2> QED
    BY <1>2, <2>1, <2>2, SkipStep
<1> QED
  BY <1>1, <1>2 DEF Score

\* Every step keeps the invariant.
LEMMA NextStep ==
  ASSUME IInv, [Next]_vars
  PROVE  IInv'
<1>1. CASE World
  BY <1>1, WorldStep
<1>2. ASSUME NEW p \in Replicas, Tick(p)
      PROVE  IInv'
  <2>1. ASSUME Broadcast(p) PROVE IInv'
    <3>1. faults' \in Nat
      BY <2>1 DEF Broadcast, Fault, IInv, TypeOK
    <3> QED
      BY <2>1, <3>1, ReturnStep DEF Broadcast
  <2> QED
    BY <1>2, <2>1, FetchSnapshotsStep, FetchReportsStep, FetchCrashesStep, ScoreStep DEF Tick
<1>3. ASSUME NEW p \in Replicas, Restart(p)
      PROVE  IInv'
  <2>1. faults' \in Nat
    BY <1>3 DEF Restart, Fault, IInv, TypeOK
  <2> QED
    BY <1>3, <2>1, ReturnStep DEF Restart
<1>4. CASE UNCHANGED vars
  <2> USE <1>4 DEF vars
  <2>1. TypeOK'
    BY DEF IInv, TypeOK
  <2>2. WorldOK' /\ LocalOK'
    BY DEF IInv, WorldOK, LocalOK
  <2>3. BestIsMax' /\ ScoredFromOwnRows'
    BY DEF IInv, BestIsMax, ScoredFromOwnRows
  <2> QED
    BY <2>1, <2>2, <2>3 DEF IInv
<1> QED
  BY <1>1, <1>2, <1>3, <1>4 DEF Next

-----------------------------------------------------------------------------
(* The theorems.                                                           *)

\* The inductive invariant holds in every reachable state.
THEOREM InductiveInvariant == Spec => []IInv
BY InitInv, NextStep, PTL DEF Spec

\* Scores in the hash and the ZSET are natural numbers: Compute's clamp keeps
\* them from going below zero whatever the penalties are.
THEOREM TypeCorrect == Spec => []TypeOK
<1>1. IInv => TypeOK
  BY DEF IInv
<1> QED
  BY <1>1, InductiveInvariant, PTL

\* The ZSET is the maximum over the contestant's hash, for any number of
\* replicas, runs and faults: the Lua script keeps them together.
THEOREM BestScoreIsMax == Spec => []BestIsMax
<1>1. IInv => BestIsMax
  BY DEF IInv
<1> QED
  BY <1>1, InductiveInvariant, PTL

\* A submission is never scored from a sibling's rows, from an unverified
\* report or with crashes that did not happen to it.
THEOREM StrictAttribution == Spec => []ScoredFromOwnRows
<1>1. IInv => ScoredFromOwnRows
  BY DEF IInv
<1> QED
  BY <1>1, InductiveInvariant, PTL

-----------------------------------------------------------------------------
(***************************************************************************)
(* The build log and the page that follows it, for any buffer limit, any   *)
(* output and any number of polls that overlap.                            *)
(*                                                                         *)
(* NoLineSkipped speaks of the cursor; a poll under way carries an older   *)
(* cursor and perhaps an answer, and will write the cursor later.  So the  *)
(* inductive invariant says of every poll what NoLineSkipped says of the   *)
(* page: the lines up to its since are shown, and the lines from there to  *)
(* its latest are in its answer.                                           *)
(***************************************************************************)

Statuses == {"none", "uploaded", "building", "build_failed", "ready"}
PollSteps == {"logs", "logs answered", "status", "status answered", "drain", "drain answered"}
PollRecords == [at : PollSteps, since : Nat, lines : SUBSET Nat, latest : Nat, status : Statuses]

LogTypeOK ==
    /\ status \in Statuses
    /\ log \in Seq(Nat)
    /\ seq \in Nat
    /\ cursor \in Nat
    /\ polls \subseteq PollRecords

\* Nobody has a number the buffer has not given out.
NumbersGiven ==
    /\ cursor <= seq
    /\ \A p \in polls : p.since <= seq /\ p.latest <= seq

\* The lines up to a poll's since are on the page.
SinceIsShown ==
    \A p \in polls : \A n \in Range(log) : n <= p.since => n \in shown

\* What a poll brings closes the gap between its since and its latest.
AnswerIsComplete ==
    \A p \in polls : \A n \in Range(log) : p.since < n /\ n <= p.latest => n \in p.lines

LogInv == LogTypeOK /\ NumbersGiven /\ NoLineSkipped /\ SinceIsShown /\ AnswerIsComplete

-----------------------------------------------------------------------------
(* The buffer.                                                             *)

\* Trimming keeps a suffix, so an append brings one new line and no other.
LEMMA AppendBringsOne ==
    ASSUME LogTypeOK, AppendLine
    PROVE  /\ seq' = seq + 1
           /\ log' \in Seq(Nat)
           /\ Range(log') \subseteq Range(log) \cup {seq + 1}
<1>0. Append(log, seq + 1) \in Seq(Nat)
  BY DEF LogTypeOK
<1>1. PICK cur \in Seq(Nat) : cur = Append(log, seq + 1)
  BY <1>0, Zenon
<1>2. /\ Len(cur) \in Nat /\ seq + 1 \in Nat
      /\ \A i \in 1 .. Len(cur) : cur[i] \in Range(log) \cup {seq + 1} /\ cur[i] \in Nat
  <2>1. /\ log \in Seq(Nat) /\ seq \in Nat /\ Len(log) \in Nat /\ Len(cur) = Len(log) + 1
        /\ \A i \in 1 .. Len(log) : cur[i] = log[i]
        /\ cur[Len(log) + 1] = seq + 1
    BY <1>1 DEF LogTypeOK
  <2>2. ASSUME NEW i \in 1 .. Len(cur) PROVE cur[i] \in Range(log) \cup {seq + 1} /\ cur[i] \in Nat
    <3>1. CASE i \in 1 .. Len(log)
      <4>1. cur[i] = log[i] /\ i \in DOMAIN log
        BY <2>1, <3>1
      <4> QED
        BY <2>1, <3>1, <4>1 DEF Range
    <3>2. CASE i = Len(log) + 1
      BY <2>1, <3>2
    <3> QED
      BY <2>1, <3>1, <3>2
  <2> QED
    BY <2>1, <2>2
<1>3. CASE Len(cur) > MaxLines
  <2>1. /\ log' = SubSeq(cur, Len(cur) - MaxLines + 1, Len(cur)) /\ seq' = seq + 1
        /\ MaxLines \in Nat
    BY <1>1, <1>3, LogAssumption DEF AppendLine
  <2>2. PICK m \in Int : m = Len(cur) - MaxLines + 1 /\ m >= 1
    <3>1. Len(cur) - MaxLines + 1 \in Int /\ Len(cur) - MaxLines + 1 >= 1
      BY <1>2, <1>3, <2>1
    <3> QED
      BY <3>1, Zenon
  <2>3. \A i \in m .. Len(cur) : cur[i] \in Range(log) \cup {seq + 1} /\ cur[i] \in Nat
    BY <1>2, <2>2
  <2>4. PICK S : S = Nat \cap (Range(log) \cup {seq + 1})
    OBVIOUS
  <2>5. \A i \in m .. Len(cur) : cur[i] \in S
    BY <2>3, <2>4
  <2>6. log' \in Seq(S)
    BY <1>2, <2>1, <2>2, <2>5, SubSeqProperties
  <2>7. Range(log') \subseteq S
    BY <2>6 DEF Range
  <2>8. log' \in Seq(Nat)
    BY <2>4, <2>6
  <2> QED
    BY <2>1, <2>4, <2>7, <2>8
<1>4. CASE ~ (Len(cur) > MaxLines)
  <2>1. log' = cur /\ seq' = seq + 1
    BY <1>1, <1>4 DEF AppendLine
  <2>2. Range(cur) \subseteq Range(log) \cup {seq + 1}
    BY <1>2 DEF Range
  <2> QED
    BY <2>1, <2>2
<1> QED
  BY <1>3, <1>4

\* A line the buffer takes is new to the page and to every poll.
LEMMA AppendKeeps ==
    ASSUME LogInv, AppendLine, UNCHANGED <<cursor, shown, polls>>, status' \in Statuses
    PROVE  LogInv'
<1>1. LogTypeOK
  BY DEF LogInv
<1>2. /\ seq' = seq + 1 /\ log' \in Seq(Nat)
      /\ \A n \in Range(log') : n \in Range(log) \/ n = seq + 1
  BY <1>1, AppendBringsOne
<1>3. /\ seq \in Nat /\ cursor \in Nat /\ polls \subseteq PollRecords
      /\ \A p \in polls : p.since \in Nat /\ p.latest \in Nat
  BY <1>1 DEF LogTypeOK, PollRecords
<1>4. LogTypeOK'
  BY <1>1, <1>2, <1>3 DEF LogTypeOK
<1>5. NumbersGiven'
  BY <1>2, <1>3 DEF LogInv, NumbersGiven
<1>6. NoLineSkipped'
  BY <1>2, <1>3 DEF LogInv, NumbersGiven, NoLineSkipped
<1>7. SinceIsShown'
  BY <1>2, <1>3 DEF LogInv, NumbersGiven, SinceIsShown
<1>8. AnswerIsComplete'
  BY <1>2, <1>3 DEF LogInv, NumbersGiven, AnswerIsComplete
<1> QED
  BY <1>4, <1>5, <1>6, <1>7, <1>8 DEF LogInv

-----------------------------------------------------------------------------
(* Every step.                                                             *)

\* The page before its first poll.
LEMMA LogInitHolds == LogInit => LogInv
<1> SUFFICES ASSUME LogInit PROVE LogInv
  OBVIOUS
<1>1. Range(log) = {}
  BY DEF LogInit, Range
<1>2. LogTypeOK
  BY DEF LogInit, LogTypeOK, Statuses
<1> QED
  BY <1>1, <1>2 DEF LogInit, LogInv, NumbersGiven, NoLineSkipped, SinceIsShown, AnswerIsComplete

\* Every step of the build, of a request and of a callback keeps the
\* invariant.
LEMMA LogStep == LogInv /\ [LogNext]_logVars => LogInv'
<1> SUFFICES ASSUME LogInv, [LogNext]_logVars PROVE LogInv'
  OBVIOUS
<1>0. /\ LogTypeOK /\ NumbersGiven /\ NoLineSkipped /\ SinceIsShown /\ AnswerIsComplete
      /\ seq \in Nat /\ cursor \in Nat /\ status \in Statuses /\ polls \subseteq PollRecords
      /\ Range(log) \subseteq Nat /\ log \in Seq(Nat)
  BY DEF LogInv, LogTypeOK, Range
\* The server's steps that leave the buffer alone.
<1>1. ASSUME UNCHANGED <<log, seq, cursor, shown, polls>>, status' \in Statuses
      PROVE  LogInv'
  BY <1>0, <1>1 DEF LogInv, LogTypeOK, NumbersGiven, NoLineSkipped, SinceIsShown, AnswerIsComplete
\* A poll goes on as one that asks for less, or as none; the page stays.
<1>2. ASSUME UNCHANGED <<log, seq, cursor, shown, status>>, polls' \subseteq PollRecords,
             \A p \in polls' :
                \/ p \in polls
                \/ /\ p.since <= seq /\ p.latest <= seq
                   /\ \A n \in Range(log) : n <= p.since => n \in shown
                   /\ \A n \in Range(log) : p.since < n /\ n <= p.latest => n \in p.lines
      PROVE  LogInv'
  BY <1>0, <1>2 DEF LogInv, LogTypeOK, NumbersGiven, NoLineSkipped, SinceIsShown, AnswerIsComplete
\* What a request is when it is made.
<1>3. ASSUME NEW what \in PollSteps, NEW since \in Nat
      PROVE  /\ Request(what, since) \in PollRecords /\ Request(what, since).since = since
             /\ Request(what, since).latest = 0
  BY <1>3 DEF Request, PollRecords, Statuses
<1>4. ASSUME Build PROVE LogInv'
  <2>1. CASE StartBuild
    BY <1>0, <1>1, <2>1, AppendKeeps DEF StartBuild, pageVars, Statuses
  <2>2. CASE Output \/ FailLine \/ ReadyLine
    BY <1>0, <2>2, AppendKeeps DEF Output, FailLine, ReadyLine, pageVars
  <2>3. CASE FailRow \/ ReadyRow
    BY <1>0, <1>1, <2>3 DEF FailRow, ReadyRow, pageVars, Statuses
  <2> QED
    BY <1>4, <2>1, <2>2, <2>3 DEF Build
<1>5. ASSUME StartLivePoll PROVE LogInv'
  BY <1>0, <1>1, <1>5 DEF StartLivePoll, serverVars
<1>6. ASSUME PollTick PROVE LogInv'
  <2>1. PICK q \in PollRecords : q = Request("logs", cursor) /\ q.since = cursor /\ q.latest = 0
    BY <1>0, <1>3 DEF PollSteps
  <2>2. polls' = polls \cup {q} /\ UNCHANGED <<log, seq, cursor, shown, status>>
    BY <1>6, <2>1 DEF PollTick, serverVars, pageVars
  <2>3. /\ q.since <= seq /\ q.latest <= seq
        /\ \A n \in Range(log) : n <= q.since => n \in shown
        /\ \A n \in Range(log) : q.since < n /\ n <= q.latest => n \in q.lines
    BY <1>0, <2>1 DEF NumbersGiven, NoLineSkipped
  <2> QED
    BY <1>0, <1>2, <2>2, <2>3
<1>7. ASSUME NEW p \in polls, ServeLogs(p) PROVE LogInv'
  <2>1. PICK q : q = [p EXCEPT !.at = IF @ = "logs" THEN "logs answered" ELSE "drain answered",
                               !.lines = Since(p.since),
                               !.latest = seq]
    OBVIOUS
  <2>2. polls' = (polls \ {p}) \cup {q} /\ UNCHANGED <<log, seq, cursor, shown, status>>
    BY <1>7, <2>1 DEF ServeLogs, Becomes, serverVars, pageVars
  <2>3. Since(p.since) \in SUBSET Nat
    BY <1>0 DEF Since
  <2>4. q \in PollRecords /\ q.since = p.since /\ q.lines = Since(p.since) /\ q.latest = seq
    BY <1>0, <2>1, <2>3 DEF PollRecords, PollSteps
  <2>5. /\ q.since <= seq /\ q.latest <= seq
        /\ \A n \in Range(log) : n <= q.since => n \in shown
        /\ \A n \in Range(log) : q.since < n /\ n <= q.latest => n \in q.lines
    <3>1. p.since \in Nat
      BY <1>0 DEF PollRecords
    <3>2. p.since <= seq /\ \A n \in Range(log) : n <= p.since => n \in shown
      BY <1>0 DEF NumbersGiven, SinceIsShown
    <3>3. \A n \in Range(log) : p.since < n => n \in Since(p.since)
      BY <1>0, <3>1 DEF Since
    <3> QED
      BY <1>0, <2>4, <3>2, <3>3
  <2> QED
    BY <1>0, <1>2, <2>2, <2>4, <2>5
<1>8. ASSUME NEW p \in polls, ServeStatus(p) PROVE LogInv'
  <2>1. PICK q : q = [p EXCEPT !.at = "status answered", !.status = status]
    OBVIOUS
  <2>2. polls' = (polls \ {p}) \cup {q} /\ UNCHANGED <<log, seq, cursor, shown, status>>
    BY <1>8, <2>1 DEF ServeStatus, Becomes, serverVars, pageVars
  <2>3. q \in PollRecords /\ q.since = p.since /\ q.lines = p.lines /\ q.latest = p.latest
    BY <1>0, <2>1 DEF PollRecords, PollSteps
  <2>4. /\ q.since <= seq /\ q.latest <= seq
        /\ \A n \in Range(log) : n <= q.since => n \in shown
        /\ \A n \in Range(log) : q.since < n /\ n <= q.latest => n \in q.lines
    BY <1>0, <2>3 DEF NumbersGiven, SinceIsShown, AnswerIsComplete
  <2> QED
    BY <1>0, <1>2, <2>2, <2>3, <2>4
\* The lines of an answer are shown and the cursor moves to its latest.
<1>9. ASSUME NEW p \in polls, TakeLines(p), UNCHANGED <<log, seq, status>>,
             \A q \in polls' : q \in polls \/ (q \in PollRecords /\ q.since = 0 /\ q.latest = 0)
      PROVE  LogInv'
  <2>1. /\ shown' = shown \cup p.lines /\ (cursor' = p.latest \/ cursor' = cursor)
        /\ p.latest \in Nat /\ p.since \in Nat
    BY <1>0, <1>9 DEF TakeLines, PollRecords
  <2>2. LogTypeOK'
    BY <1>0, <1>9, <2>1 DEF LogTypeOK
  <2>3. NumbersGiven'
    BY <1>0, <1>9, <2>1 DEF NumbersGiven
  <2>4. NoLineSkipped'
    <3> SUFFICES ASSUME NEW n \in Range(log), n <= cursor' PROVE n \in shown \cup p.lines
      BY <1>9, <2>1 DEF NoLineSkipped
    <3>1. CASE cursor' = cursor
      BY <1>0, <3>1 DEF NoLineSkipped
    <3>2. CASE cursor' = p.latest /\ n <= p.since
      BY <1>0, <3>2 DEF SinceIsShown
    <3>3. CASE cursor' = p.latest /\ p.since < n
      BY <1>0, <3>3 DEF AnswerIsComplete
    <3>4. n \in Nat
      BY <1>0
    <3> QED
      BY <2>1, <3>1, <3>2, <3>3, <3>4
  <2>5. SinceIsShown'
    <3> SUFFICES ASSUME NEW q \in polls', NEW n \in Range(log), n <= q.since
                 PROVE  n \in shown \cup p.lines
      BY <1>9, <2>1 DEF SinceIsShown
    <3>1. CASE q \in polls
      BY <1>0, <3>1 DEF SinceIsShown
    <3>2. CASE q.since = 0
      BY <1>0, <3>2 DEF NoLineSkipped
    <3> QED
      BY <1>9, <3>1, <3>2
  <2>6. AnswerIsComplete'
    BY <1>0, <1>9 DEF AnswerIsComplete
  <2> QED
    BY <2>2, <2>3, <2>4, <2>5, <2>6 DEF LogInv
<1>10. ASSUME NEW p \in polls, GotLogs(p) PROVE LogInv'
  <2>1. PICK q \in PollRecords : q = Request("status", 0) /\ q.since = 0 /\ q.latest = 0
    BY <1>3 DEF PollSteps
  <2>2. polls' = (polls \ {p}) \cup {q} /\ TakeLines(p) /\ UNCHANGED <<log, seq, status>>
    BY <1>10, <2>1 DEF GotLogs, Becomes, serverVars
  <2> QED
    BY <1>9, <2>1, <2>2
<1>11. ASSUME NEW p \in polls, GotDrain(p) PROVE LogInv'
  <2>1. polls' = polls \ {p} /\ TakeLines(p) /\ UNCHANGED <<log, seq, status>>
    BY <1>11 DEF GotDrain, Becomes, serverVars
  <2> QED
    BY <1>9, <2>1
<1>12. ASSUME NEW p \in polls, GotStatus(p) PROVE LogInv'
  <2>1. PICK q \in PollRecords : q = Request("drain", cursor) /\ q.since = cursor /\ q.latest = 0
    BY <1>0, <1>3 DEF PollSteps
  <2>2. /\ polls' = polls \ {p} \/ polls' = (polls \ {p}) \cup {q}
        /\ UNCHANGED <<log, seq, cursor, shown, status>>
    BY <1>12, <2>1 DEF GotStatus, Becomes, serverVars, pageVars
  <2>3. /\ q.since <= seq /\ q.latest <= seq
        /\ \A n \in Range(log) : n <= q.since => n \in shown
        /\ \A n \in Range(log) : q.since < n /\ n <= q.latest => n \in q.lines
    BY <1>0, <2>1 DEF NumbersGiven, NoLineSkipped
  <2> QED
    BY <1>0, <1>2, <2>2, <2>3
<1>13. ASSUME NEW p \in polls, RequestFails(p) PROVE LogInv'
  <2>1. PICK q \in PollRecords : q = Request("status", 0) /\ q.since = 0 /\ q.latest = 0
    BY <1>3 DEF PollSteps
  <2>2. /\ polls' = polls \ {p} \/ polls' = (polls \ {p}) \cup {q}
        /\ UNCHANGED <<log, seq, cursor, shown, status>>
    BY <1>13, <2>1 DEF RequestFails, Becomes, serverVars
  <2>3. /\ q.since <= seq /\ q.latest <= seq
        /\ \A n \in Range(log) : n <= q.since => n \in shown
        /\ \A n \in Range(log) : q.since < n /\ n <= q.latest => n \in q.lines
    BY <1>0, <2>1 DEF NoLineSkipped
  <2> QED
    BY <1>0, <1>2, <2>2, <2>3
<1>14. CASE UNCHANGED logVars
  BY <1>0, <1>1, <1>14 DEF logVars
<1> QED
  BY <1>4, <1>5, <1>6, <1>7, <1>8, <1>10, <1>11, <1>12, <1>13, <1>14 DEF LogNext, Serve, Callback

-----------------------------------------------------------------------------
(* The theorems.                                                           *)

\* Whatever overlaps, is trimmed, fails or arrives late, every poll under way
\* and the page itself hold a cursor behind which nothing retained is missing.
THEOREM LogInductive == DashboardSpec => []LogInv
<1>1. DashboardInit => LogInv
  BY LogInitHolds DEF DashboardInit
<1>2. LogInv /\ [DashboardNext]_dashboardVars => LogInv'
  BY LogStep DEF DashboardNext, dashboardVars
<1> QED
  BY <1>1, <1>2, PTL DEF DashboardSpec

\* pollLogs and Buffer.Since never skip a line the buffer still has.
THEOREM LogNeverSkips == DashboardSpec => []NoLineSkipped
  BY LogInductive, PTL DEF LogInv
-----------------------------------------------------------------------------
(***************************************************************************)
(* The live leaderboard, for any connections, queue and socket capacities  *)
(* and any number of breaks.  LiveViewConverges and GoneIsUnregistered are *)
(* liveness; what they need to be true of every state is proved here: the  *)
(* hub and the handlers know the same clients, the page always has a way   *)
(* to the standings, and a connection delivers them in order.              *)
(***************************************************************************)

Links == {"none", "dialing", "accepted", "open", "broken", "silent", "closed"}
Versions == 0 .. MaxVersion

LiveTypeOK ==
    /\ standings \in Versions
    /\ clients \subseteq Conns
    /\ send \in [Conns -> Seq(Versions)]
    /\ wire \in [Conns -> Seq(Versions)]
    /\ handler \in [Conns -> {"none", "pump", "closing"}]
    /\ link \in [Conns -> Links]
    /\ mounted \in BOOLEAN /\ reconnect \in BOOLEAN /\ polling \in BOOLEAN
    /\ socket \in Conns \cup {NoConn}
    /\ fetches \subseteq Versions \cup {Asked}
    /\ view \in Versions

\* A client is in the hub as long as its handler runs, and the handler runs as
\* long as the page relies on the connection.
HandlersOwnClients ==
    \A c \in Conns :
        /\ c \in clients <=> handler[c] # "none"
        /\ handler[c] = "closing" => Dead(c)
        /\ handler[c] = "pump" => link[c] \notin {"none", "dialing"}
        /\ link[c] \in {"accepted", "open"} => handler[c] = "pump"

\* A page that is open has a socket or the timer for the next one, never both,
\* or it polls; no connection but its socket is left open; a page that is
\* closed has none of them.
PageKeepsAWay ==
    /\ mounted /\ reconnect => socket = NoConn
    /\ mounted /\ socket = NoConn => reconnect \/ polling
    /\ ~ mounted => socket = NoConn /\ ~ polling /\ fetches = {}
    /\ \A c \in Conns : link[c] \notin {"none", "closed"} <=> socket = c

\* What is on its way through a connection, on the wire and behind it in the
\* queue of the client, is in the order of the broadcasts and not newer than n.
InBroadcastOrder(s) == \A i, j \in 1 .. Len(s) : i < j => s[i] <= s[j]
Stream(w, s, n) ==
    /\ w \in Seq(Versions) /\ s \in Seq(Versions)
    /\ InBroadcastOrder(w) /\ InBroadcastOrder(s)
    /\ \A i \in 1 .. Len(w) : w[i] <= n
    /\ \A i \in 1 .. Len(s) : s[i] <= n
    /\ \A i \in 1 .. Len(w), j \in 1 .. Len(s) : w[i] <= s[j]

\* Nobody has a version that never was, and no connection reorders them.
VersionsInOrder ==
    /\ view <= standings
    /\ \A v \in fetches : v # Asked => v <= standings
    /\ \A c \in Conns : Stream(wire[c], send[c], standings)

LiveInv == LiveTypeOK /\ HandlersOwnClients /\ PageKeepsAWay /\ VersionsInOrder

\* The standings change: what is under way is older.
LEMMA StreamAges ==
    ASSUME NEW n \in Versions, NEW k \in Versions, n <= k, NEW w, NEW s, Stream(w, s, n)
    PROVE  Stream(w, s, k)
<1>1. /\ \A i \in 1 .. Len(w) : w[i] \in Versions /\ w[i] <= n
      /\ \A i \in 1 .. Len(s) : s[i] \in Versions /\ s[i] <= n
  BY DEF Stream
<1>2. \A v \in Versions : v <= n => v <= k
  BY LiveAssumption DEF Versions
<1> QED
  BY <1>1, <1>2 DEF Stream

LEMMA StreamEmpty == ASSUME NEW n \in Versions PROVE Stream(<<>>, <<>>, n)
<1>1. <<>> \in Seq(Versions) /\ Len(<<>>) = 0
  OBVIOUS
<1> QED
  BY <1>1 DEF Stream, InBroadcastOrder

\* A broadcast is behind everything that is under way.
LEMMA StreamSend ==
    ASSUME NEW n \in Versions, NEW w, NEW s, Stream(w, s, n)
    PROVE  Stream(w, Append(s, n), n)
<1>1. PICK t : t = Append(s, n)
  OBVIOUS
<1>2. w \in Seq(Versions) /\ s \in Seq(Versions) /\ Len(s) \in Nat /\ Len(w) \in Nat /\ n \in Int
  BY LiveAssumption DEF Stream, Versions
<1>3. /\ t \in Seq(Versions) /\ Len(t) = Len(s) + 1 /\ t[Len(s) + 1] = n
      /\ \A i \in 1 .. Len(s) : t[i] = s[i]
  BY <1>1, <1>2, AppendProperties
<1>4. \A i \in 1 .. Len(t) : i \in 1 .. Len(s) \/ i = Len(s) + 1
  BY <1>2, <1>3
<1>5. n <= n
  BY <1>2
<1>6. \A i \in 1 .. Len(t) : t[i] <= n
  BY <1>3, <1>4, <1>5 DEF Stream
<1>7. \A i \in 1 .. Len(w), j \in 1 .. Len(t) : w[i] <= t[j]
  BY <1>3, <1>4 DEF Stream
<1>8. ASSUME NEW i \in 1 .. Len(t), NEW j \in 1 .. Len(t), i < j PROVE t[i] <= t[j]
  <2>1. CASE j = Len(s) + 1
    BY <1>3, <1>6, <2>1
  <2>2. CASE j # Len(s) + 1
    <3>1. i \in 1 .. Len(s) /\ j \in 1 .. Len(s)
      BY <1>2, <1>3, <1>8, <2>2
    <3> QED
      BY <1>3, <1>8, <3>1 DEF Stream, InBroadcastOrder
  <2> QED
    BY <2>1, <2>2
<1> QED
  BY <1>1, <1>3, <1>6, <1>7, <1>8 DEF Stream, InBroadcastOrder

\* The oldest message leaves the queue for the wire, or is lost.
LEMMA TailStays ==
    ASSUME NEW s \in Seq(Versions), s # <<>>, InBroadcastOrder(s)
    PROVE  /\ Tail(s) \in Seq(Versions) /\ Head(s) = s[1] /\ 1 \in 1 .. Len(s) /\ Head(s) \in Versions
           /\ \A i \in 1 .. Len(Tail(s)) :
                 /\ \E k \in 1 .. Len(s) : Tail(s)[i] = s[k]
                 /\ Head(s) <= Tail(s)[i]
           /\ InBroadcastOrder(Tail(s))
<1>1. PICK t : t = Tail(s)
  OBVIOUS
<1>2. Len(s) \in Nat /\ Len(s) > 0 /\ Head(s) = s[1]
  BY HeadTailProperties
<1>3. /\ t \in Seq(Versions) /\ Len(t) = Len(s) - 1
      /\ \A i \in 1 .. Len(t) : t[i] = s[i + 1]
  BY <1>1, HeadTailProperties
<1>4. \A i \in 1 .. Len(t) : i + 1 \in 1 .. Len(s) /\ 1 < i + 1
  BY <1>2, <1>3
<1>5. 1 \in 1 .. Len(s)
  BY <1>2
<1>6. \A i \in 1 .. Len(t) : s[1] <= t[i]
  BY <1>3, <1>4, <1>5 DEF InBroadcastOrder
<1>7. \A i \in 1 .. Len(t) : \E k \in 1 .. Len(s) : t[i] = s[k]
  BY <1>3, <1>4
<1>8. ASSUME NEW i \in 1 .. Len(t), NEW j \in 1 .. Len(t), i < j PROVE t[i] <= t[j]
  <2>1. i + 1 \in 1 .. Len(s) /\ j + 1 \in 1 .. Len(s) /\ i + 1 < j + 1
    BY <1>4, <1>8
  <2> QED
    BY <1>3, <2>1 DEF InBroadcastOrder
<1>9. s[1] \in Versions
  BY <1>5
<1> QED
  BY <1>1, <1>2, <1>3, <1>5, <1>6, <1>7, <1>8, <1>9 DEF InBroadcastOrder

LEMMA StreamDrop ==
    ASSUME NEW n \in Versions, NEW w, NEW s, Stream(w, s, n), s # <<>>
    PROVE  Stream(w, Tail(s), n)
<1>1. s \in Seq(Versions) /\ InBroadcastOrder(s)
  BY DEF Stream
<1>2. PICK t : t = Tail(s)
  OBVIOUS
<1>3. t \in Seq(Versions) /\ InBroadcastOrder(t) /\ \A i \in 1 .. Len(t) : \E k \in 1 .. Len(s) : t[i] = s[k]
  BY <1>1, <1>2, TailStays
<1> QED
  BY <1>2, <1>3 DEF Stream

LEMMA StreamRead ==
    ASSUME NEW n \in Versions, NEW w, NEW s, Stream(w, s, n), w # <<>>
    PROVE  Stream(Tail(w), s, n) /\ Head(w) \in Versions /\ Head(w) <= n
<1>1. w \in Seq(Versions) /\ InBroadcastOrder(w)
  BY DEF Stream
<1>2. PICK t : t = Tail(w)
  OBVIOUS
<1>3. /\ t \in Seq(Versions) /\ InBroadcastOrder(t)
      /\ \A i \in 1 .. Len(t) : \E k \in 1 .. Len(w) : t[i] = w[k]
      /\ Head(w) = w[1] /\ 1 \in 1 .. Len(w) /\ Head(w) \in Versions
  BY <1>1, <1>2, TailStays
<1>4. Stream(t, s, n)
  BY <1>3 DEF Stream
<1>5. Head(w) <= n
  BY <1>3 DEF Stream
<1> QED
  BY <1>2, <1>3, <1>4, <1>5

LEMMA StreamPump ==
    ASSUME NEW n \in Versions, NEW w, NEW s, Stream(w, s, n), s # <<>>
    PROVE  Stream(Append(w, Head(s)), Tail(s), n)
<1>1. s \in Seq(Versions) /\ w \in Seq(Versions) /\ InBroadcastOrder(s) /\ InBroadcastOrder(w) /\ Len(w) \in Nat
  BY DEF Stream
<1>2. PICK t, h, u : t = Tail(s) /\ h = Head(s) /\ u = Append(w, h)
  OBVIOUS
<1>3. /\ t \in Seq(Versions) /\ InBroadcastOrder(t)
      /\ \A i \in 1 .. Len(t) : \E k \in 1 .. Len(s) : t[i] = s[k]
      /\ \A i \in 1 .. Len(t) : h <= t[i]
      /\ h = s[1] /\ 1 \in 1 .. Len(s) /\ h \in Versions
  BY <1>1, <1>2, TailStays
<1>4. h <= n /\ \A i \in 1 .. Len(w) : w[i] <= h
  BY <1>3 DEF Stream
<1>5. /\ u \in Seq(Versions) /\ Len(u) = Len(w) + 1 /\ u[Len(w) + 1] = h
      /\ \A i \in 1 .. Len(w) : u[i] = w[i]
  BY <1>1, <1>2, <1>3, AppendProperties
<1>6. \A i \in 1 .. Len(u) : i \in 1 .. Len(w) \/ i = Len(w) + 1
  BY <1>1, <1>5
<1>7. \A i \in 1 .. Len(u) : u[i] <= n
  BY <1>4, <1>5, <1>6 DEF Stream
<1>8. \A i \in 1 .. Len(u), j \in 1 .. Len(t) : u[i] <= t[j]
  BY <1>3, <1>5, <1>6 DEF Stream
<1>9. ASSUME NEW i \in 1 .. Len(u), NEW j \in 1 .. Len(u), i < j PROVE u[i] <= u[j]
  <2>1. CASE j = Len(w) + 1
    <3>1. i \in 1 .. Len(w)
      BY <1>1, <1>5, <1>9, <2>1
    <3> QED
      BY <1>4, <1>5, <2>1, <3>1
  <2>2. CASE j # Len(w) + 1
    <3>1. i \in 1 .. Len(w) /\ j \in 1 .. Len(w)
      BY <1>1, <1>5, <1>9, <2>2
    <3> QED
      BY <1>1, <1>5, <1>9, <3>1 DEF InBroadcastOrder
  <2> QED
    BY <2>1, <2>2
<1>10. \A i \in 1 .. Len(t) : t[i] <= n
  BY <1>3 DEF Stream
<1>11. Stream(u, t, n)
  BY <1>3, <1>5, <1>7, <1>8, <1>9, <1>10 DEF Stream, InBroadcastOrder
<1> QED
  BY <1>2, <1>11

\* The server, the network and the page each keep the invariant.
LEMMA LiveServerStep ==
    ASSUME LiveInv, \/ StandingsChange \/ HubBroadcast \/ ServeFetch
                    \/ \E c \in Conns : HandlerStep(c)
    PROVE  LiveInv'
<1>0. /\ standings \in Versions /\ view \in Versions /\ view <= standings
      /\ send \in [Conns -> Seq(Versions)] /\ wire \in [Conns -> Seq(Versions)]
      /\ handler \in [Conns -> {"none", "pump", "closing"}] /\ link \in [Conns -> Links]
      /\ \A c \in Conns : Stream(wire[c], send[c], standings)
  BY DEF LiveInv, LiveTypeOK, VersionsInOrder
<1>2. CASE StandingsChange
  <2>1. /\ standings < MaxVersion /\ standings' = standings + 1
        /\ UNCHANGED <<clients, send, handler, link, wire, mounted, socket, reconnect, polling, fetches, view>>
    BY <1>2 DEF StandingsChange, hubVars, viewVars
  <2>2. standings' \in Versions /\ standings <= standings' /\ \A v \in Versions : v <= standings => v <= standings'
    BY <1>0, <2>1, LiveAssumption DEF Versions
  <2>3. \A c \in Conns : Stream(wire[c], send[c], standings')
    BY <1>0, <2>2, StreamAges
  <2>4. view <= standings' /\ \A v \in fetches : v # Asked => v <= standings'
    <3>1. \A v \in fetches : v # Asked => v \in Versions /\ v <= standings
      BY DEF LiveInv, LiveTypeOK, VersionsInOrder
    <3> QED
      BY <1>0, <2>2, <3>1
  <2>5. LiveTypeOK'
    BY <2>1, <2>2 DEF LiveInv, LiveTypeOK
  <2>6. HandlersOwnClients' /\ PageKeepsAWay'
    BY <2>1 DEF LiveInv, HandlersOwnClients, PageKeepsAWay, Dead
  <2>7. VersionsInOrder'
    BY <2>1, <2>3, <2>4 DEF VersionsInOrder
  <2> QED
    BY <2>5, <2>6, <2>7 DEF LiveInv
<1>3. CASE HubBroadcast
  <2>1. /\ send' = [c \in Conns |-> IF c \in clients /\ Len(send[c]) < ClientBuf
                                    THEN Append(send[c], standings) ELSE send[c]]
        /\ UNCHANGED <<standings, clients, handler, link, wire, mounted, socket, reconnect, polling, fetches, view>>
    BY <1>3 DEF HubBroadcast, viewVars
  <2>2. ASSUME NEW c \in Conns PROVE Stream(wire'[c], send'[c], standings')
    <3>1. Stream(wire[c], send[c], standings) /\ Stream(wire[c], Append(send[c], standings), standings)
      BY <1>0, StreamSend
    <3>2. send'[c] = send[c] \/ send'[c] = Append(send[c], standings)
      BY <2>1
    <3> QED
      BY <2>1, <3>1, <3>2
  <2>3. send' \in [Conns -> Seq(Versions)]
    <3>1. send' = [c \in Conns |-> send'[c]]
      BY <2>1
    <3> QED
      BY <2>2, <3>1 DEF Stream
  <2>4. LiveTypeOK'
    BY <2>1, <2>3 DEF LiveInv, LiveTypeOK
  <2>5. HandlersOwnClients' /\ PageKeepsAWay'
    BY <2>1 DEF LiveInv, HandlersOwnClients, PageKeepsAWay, Dead
  <2>6. VersionsInOrder'
    BY <2>1, <2>2 DEF LiveInv, VersionsInOrder
  <2> QED
    BY <2>4, <2>5, <2>6 DEF LiveInv
<1>4. CASE ServeFetch
  <2>1. /\ fetches' = (fetches \ {Asked}) \cup {standings} /\ Asked \in fetches
        /\ UNCHANGED <<standings, clients, send, handler, link, wire, mounted, socket, reconnect, polling, view>>
    BY <1>4 DEF ServeFetch, hubVars
  <2>2. LiveTypeOK'
    BY <1>0, <2>1 DEF LiveInv, LiveTypeOK
  <2>3. HandlersOwnClients'
    BY <2>1 DEF LiveInv, HandlersOwnClients, Dead
  <2>4. PageKeepsAWay'
    BY <2>1 DEF LiveInv, PageKeepsAWay
  <2>5. standings <= standings
    BY <1>0, LiveAssumption DEF Versions
  <2>6. VersionsInOrder'
    BY <2>1, <2>5 DEF LiveInv, VersionsInOrder
  <2> QED
    BY <2>2, <2>3, <2>4, <2>6 DEF LiveInv
<1>5. ASSUME NEW d \in Conns, Accept(d) PROVE LiveInv'
  <2>1. /\ link[d] = "dialing" /\ handler[d] = "none"
        /\ link' = [link EXCEPT ![d] = "accepted"] /\ handler' = [handler EXCEPT ![d] = "pump"]
        /\ clients' = clients \cup {d}
        /\ send' = [send EXCEPT ![d] = <<>>] /\ wire' = [wire EXCEPT ![d] = <<>>]
        /\ UNCHANGED <<standings, mounted, socket, reconnect, polling, fetches, view>>
    BY <1>5 DEF Accept, viewVars
  <2>2. ASSUME NEW c \in Conns PROVE Stream(wire'[c], send'[c], standings')
    <3>1. Stream(<<>>, <<>>, standings) /\ Stream(wire[c], send[c], standings)
      BY <1>0, StreamEmpty
    <3> QED
      BY <1>0, <2>1, <3>1
  <2>3. /\ send' \in [Conns -> Seq(Versions)] /\ wire' \in [Conns -> Seq(Versions)]
        /\ handler' \in [Conns -> {"none", "pump", "closing"}] /\ link' \in [Conns -> Links]
    BY <1>0, <2>1 DEF Links
  <2>4. LiveTypeOK'
    BY <2>1, <2>3 DEF LiveInv, LiveTypeOK
  <2>5. HandlersOwnClients'
    BY <1>0, <2>1 DEF LiveInv, HandlersOwnClients, Dead
  <2>6. PageKeepsAWay'
    BY <1>0, <2>1 DEF LiveInv, PageKeepsAWay
  <2>7. VersionsInOrder'
    BY <2>1, <2>2 DEF LiveInv, VersionsInOrder
  <2> QED
    BY <2>4, <2>5, <2>6, <2>7 DEF LiveInv
<1>6. ASSUME NEW d \in Conns, Pump(d) PROVE LiveInv'
  <2>1. /\ send[d] # <<>>
        /\ send' = [send EXCEPT ![d] = Tail(send[d])] /\ wire' = [wire EXCEPT ![d] = Append(wire[d], Head(send[d]))]
        /\ UNCHANGED <<standings, clients, handler, link, mounted, socket, reconnect, polling, fetches, view>>
    BY <1>6 DEF Pump, viewVars
  <2>2. Stream(wire[d], send[d], standings)
    BY <1>0
  <2>3. Stream(Append(wire[d], Head(send[d])), Tail(send[d]), standings)
    BY <1>0, <2>1, <2>2, StreamPump
  <2>4. ASSUME NEW c \in Conns PROVE Stream(wire'[c], send'[c], standings')
    <3>1. CASE c = d
      BY <1>0, <2>1, <2>3, <3>1
    <3>2. CASE c # d
      BY <1>0, <2>1, <3>2
    <3> QED
      BY <3>1, <3>2
  <2>5. send' = [c \in Conns |-> send'[c]] /\ wire' = [c \in Conns |-> wire'[c]]
    BY <1>0, <2>1
  <2>6. send' \in [Conns -> Seq(Versions)] /\ wire' \in [Conns -> Seq(Versions)]
    BY <2>4, <2>5 DEF Stream
  <2>7. LiveTypeOK'
    BY <2>1, <2>6 DEF LiveInv, LiveTypeOK
  <2>8. HandlersOwnClients' /\ PageKeepsAWay'
    BY <2>1 DEF LiveInv, HandlersOwnClients, PageKeepsAWay, Dead
  <2>9. VersionsInOrder'
    BY <2>1, <2>4 DEF LiveInv, VersionsInOrder
  <2> QED
    BY <2>7, <2>8, <2>9 DEF LiveInv
<1>7. ASSUME NEW d \in Conns, PumpFails(d) PROVE LiveInv'
  <2>1. /\ send[d] # <<>> /\ handler[d] = "pump"
        /\ \/ Dead(d) /\ link' = link
           \/ ~ Dead(d) /\ link' = [link EXCEPT ![d] = "broken"]
        /\ handler' = [handler EXCEPT ![d] = "closing"]
        /\ send' = [send EXCEPT ![d] = Tail(send[d])]
        /\ UNCHANGED <<standings, clients, wire, mounted, socket, reconnect, polling, fetches, view>>
    BY <1>7 DEF PumpFails, viewVars
  <2>2. Stream(wire[d], Tail(send[d]), standings)
    BY <1>0, <2>1, StreamDrop
  <2>3. ASSUME NEW c \in Conns PROVE Stream(wire'[c], send'[c], standings')
    <3>1. CASE c = d
      BY <1>0, <2>1, <2>2, <3>1
    <3>2. CASE c # d
      BY <1>0, <2>1, <3>2
    <3> QED
      BY <3>1, <3>2
  <2>4. send' = [c \in Conns |-> send'[c]]
    BY <1>0, <2>1
  <2>5. send' \in [Conns -> Seq(Versions)]
    BY <2>3, <2>4 DEF Stream
  <2>6. handler' \in [Conns -> {"none", "pump", "closing"}] /\ link' \in [Conns -> Links]
    BY <1>0, <2>1 DEF Links
  <2>7. LiveTypeOK'
    BY <2>1, <2>5, <2>6 DEF LiveInv, LiveTypeOK
  <2>8. HandlersOwnClients'
    BY <1>0, <2>1 DEF LiveInv, HandlersOwnClients, Dead
  <2>9. PageKeepsAWay'
    <3>1. link[d] \notin {"none", "dialing"}
      BY <2>1 DEF LiveInv, HandlersOwnClients
    <3> QED
      BY <1>0, <2>1, <3>1 DEF LiveInv, PageKeepsAWay, Dead
  <2>10. VersionsInOrder'
    BY <2>1, <2>3 DEF LiveInv, VersionsInOrder
  <2> QED
    BY <2>7, <2>8, <2>9, <2>10 DEF LiveInv
<1>8. ASSUME NEW d \in Conns, Unregister(d) PROVE LiveInv'
  <2>1. /\ handler[d] = "closing" /\ handler' = [handler EXCEPT ![d] = "none"]
        /\ clients' = clients \ {d}
        /\ send' = [send EXCEPT ![d] = <<>>] /\ wire' = [wire EXCEPT ![d] = <<>>]
        /\ UNCHANGED <<standings, link, mounted, socket, reconnect, polling, fetches, view>>
    BY <1>8 DEF Unregister, viewVars
  <2>2. ASSUME NEW c \in Conns PROVE Stream(wire'[c], send'[c], standings')
    <3>1. Stream(<<>>, <<>>, standings) /\ Stream(wire[c], send[c], standings)
      BY <1>0, StreamEmpty
    <3> QED
      BY <1>0, <2>1, <3>1
  <2>3. /\ send' \in [Conns -> Seq(Versions)] /\ wire' \in [Conns -> Seq(Versions)]
        /\ handler' \in [Conns -> {"none", "pump", "closing"}]
    BY <1>0, <2>1
  <2>4. LiveTypeOK'
    BY <2>1, <2>3 DEF LiveInv, LiveTypeOK
  <2>5. HandlersOwnClients'
    BY <1>0, <2>1 DEF LiveInv, HandlersOwnClients, Dead
  <2>6. PageKeepsAWay'
    BY <2>1 DEF LiveInv, PageKeepsAWay
  <2>7. VersionsInOrder'
    BY <2>1, <2>2 DEF LiveInv, VersionsInOrder
  <2> QED
    BY <2>4, <2>5, <2>6, <2>7 DEF LiveInv
<1> QED
  BY <1>2, <1>3, <1>4, <1>5, <1>6, <1>7, <1>8 DEF HandlerStep

LEMMA LivePageStep ==
    ASSUME LiveInv, \/ FetchFails \/ OpenSocketThrows \/ FetchTick \/ Leave
                    \/ \E c \in Conns : PageStep(c) \/ BreakLink(c)
                    \/ \E v \in 0 .. MaxVersion : GotFetch(v)
    PROVE  LiveInv'
<1>0. /\ standings \in Versions /\ view \in Versions /\ view <= standings
      /\ send \in [Conns -> Seq(Versions)] /\ wire \in [Conns -> Seq(Versions)]
      /\ handler \in [Conns -> {"none", "pump", "closing"}] /\ link \in [Conns -> Links]
      /\ socket \in Conns \cup {NoConn} /\ NoConn \notin Conns
      /\ \A c \in Conns : Stream(wire[c], send[c], standings)
  BY LiveAssumption DEF LiveInv, LiveTypeOK, VersionsInOrder
<1>1. CASE FetchFails \/ FetchTick
  <2>1. /\ fetches' \subseteq fetches \cup {Asked}
        /\ mounted \/ fetches' \subseteq fetches
        /\ UNCHANGED <<standings, clients, send, handler, link, wire, mounted, socket, reconnect, polling, view>>
    BY <1>1 DEF FetchFails, FetchTick, hubVars
  <2>2. LiveTypeOK'
    BY <2>1 DEF LiveInv, LiveTypeOK
  <2>3. HandlersOwnClients'
    BY <2>1 DEF LiveInv, HandlersOwnClients, Dead
  <2>4. PageKeepsAWay'
    BY <2>1 DEF LiveInv, PageKeepsAWay
  <2>5. VersionsInOrder'
    BY <2>1 DEF LiveInv, VersionsInOrder
  <2> QED
    BY <2>2, <2>3, <2>4, <2>5 DEF LiveInv
<1>2. ASSUME NEW d \in Conns, BreakLink(d) PROVE LiveInv'
  <2>1. /\ link[d] \in {"dialing", "accepted", "open"}
        /\ \E how \in {"broken", "silent"} : link' = [link EXCEPT ![d] = how]
        /\ UNCHANGED <<standings, clients, send, handler, wire, mounted, socket, reconnect, polling, fetches, view>>
    BY <1>2 DEF BreakLink, hubVars, viewVars
  <2>2. PICK how \in {"broken", "silent"} : link' = [link EXCEPT ![d] = how]
    BY <2>1
  <2>3. link' \in [Conns -> Links]
    BY <1>0, <2>2 DEF Links
  <2>4. LiveTypeOK'
    BY <2>1, <2>3 DEF LiveInv, LiveTypeOK
  <2>5. HandlersOwnClients'
    BY <1>0, <2>1, <2>2 DEF LiveInv, HandlersOwnClients, Dead
  <2>6. PageKeepsAWay'
    BY <1>0, <2>1, <2>2 DEF LiveInv, PageKeepsAWay
  <2>7. VersionsInOrder'
    BY <2>1 DEF LiveInv, VersionsInOrder
  <2> QED
    BY <2>4, <2>5, <2>6, <2>7 DEF LiveInv
<1>3. ASSUME NEW d \in Conns, OpenSocket(d) PROVE LiveInv'
  <2>1. /\ mounted /\ reconnect /\ link[d] \in {"none", "closed"} /\ handler[d] = "none"
        /\ link' = [link EXCEPT ![d] = "dialing"] /\ socket' = d /\ reconnect' = FALSE
        /\ UNCHANGED <<standings, clients, send, handler, wire, mounted, polling, fetches, view>>
    BY <1>3 DEF OpenSocket, hubVars
  <2>2. socket = NoConn /\ \A c \in Conns : link[c] \in {"none", "closed"}
    BY <1>0, <2>1 DEF LiveInv, PageKeepsAWay
  <2>3. link' \in [Conns -> Links]
    BY <1>0, <2>1 DEF Links
  <2>4. LiveTypeOK'
    BY <2>1, <2>3 DEF LiveInv, LiveTypeOK
  <2>5. HandlersOwnClients'
    BY <1>0, <2>1 DEF LiveInv, HandlersOwnClients, Dead
  <2>6. PageKeepsAWay'
    BY <1>0, <2>1, <2>2 DEF LiveInv, PageKeepsAWay
  <2>7. VersionsInOrder'
    BY <2>1 DEF LiveInv, VersionsInOrder
  <2> QED
    BY <2>4, <2>5, <2>6, <2>7 DEF LiveInv
<1>4. ASSUME NEW d \in Conns, OnOpen(d) PROVE LiveInv'
  <2>1. /\ mounted /\ socket = d /\ link[d] = "accepted"
        /\ link' = [link EXCEPT ![d] = "open"] /\ polling' = FALSE
        /\ UNCHANGED <<standings, clients, send, handler, wire, mounted, socket, reconnect, fetches, view>>
    BY <1>4 DEF OnOpen, hubVars
  <2>2. link' \in [Conns -> Links]
    BY <1>0, <2>1 DEF Links
  <2>3. LiveTypeOK'
    BY <2>1, <2>2 DEF LiveInv, LiveTypeOK
  <2>4. HandlersOwnClients'
    BY <1>0, <2>1 DEF LiveInv, HandlersOwnClients, Dead
  <2>5. PageKeepsAWay'
    BY <1>0, <2>1 DEF LiveInv, PageKeepsAWay
  <2>6. VersionsInOrder'
    BY <2>1 DEF LiveInv, VersionsInOrder
  <2> QED
    BY <2>3, <2>4, <2>5, <2>6 DEF LiveInv
<1>5. ASSUME NEW d \in Conns, OnMessage(d) PROVE LiveInv'
  <2>1. /\ wire[d] # <<>> /\ view' = Head(wire[d]) /\ wire' = [wire EXCEPT ![d] = Tail(wire[d])]
        /\ UNCHANGED <<standings, clients, send, handler, link, mounted, socket, reconnect, polling, fetches>>
    BY <1>5 DEF OnMessage, hubVars
  <2>2. Stream(Tail(wire[d]), send[d], standings) /\ view' \in Versions /\ view' <= standings
    BY <1>0, <2>1, StreamRead
  <2>3. ASSUME NEW c \in Conns PROVE Stream(wire'[c], send'[c], standings')
    <3>1. CASE c = d
      BY <1>0, <2>1, <2>2, <3>1
    <3>2. CASE c # d
      BY <1>0, <2>1, <3>2
    <3> QED
      BY <3>1, <3>2
  <2>4. wire' = [c \in Conns |-> wire'[c]]
    BY <1>0, <2>1
  <2>5. wire' \in [Conns -> Seq(Versions)]
    BY <2>3, <2>4 DEF Stream
  <2>6. LiveTypeOK'
    BY <2>1, <2>2, <2>5 DEF LiveInv, LiveTypeOK
  <2>7. HandlersOwnClients' /\ PageKeepsAWay'
    BY <2>1 DEF LiveInv, HandlersOwnClients, PageKeepsAWay, Dead
  <2>8. VersionsInOrder'
    BY <2>1, <2>2, <2>3 DEF LiveInv, VersionsInOrder
  <2> QED
    BY <2>6, <2>7, <2>8 DEF LiveInv
<1>6. ASSUME NEW d \in Conns, OnClose(d) PROVE LiveInv'
  <2>1. /\ mounted /\ socket = d /\ link[d] = "broken"
        /\ link' = [link EXCEPT ![d] = "closed"] /\ socket' = NoConn /\ reconnect' = TRUE /\ polling' = TRUE
        /\ fetches' \subseteq fetches \cup {Asked}
        /\ UNCHANGED <<standings, clients, send, handler, wire, mounted, view>>
    BY <1>6 DEF OnClose, hubVars
  <2>2. link' \in [Conns -> Links]
    BY <1>0, <2>1 DEF Links
  <2>3. LiveTypeOK'
    BY <2>1, <2>2 DEF LiveInv, LiveTypeOK
  <2>4. HandlersOwnClients'
    BY <1>0, <2>1 DEF LiveInv, HandlersOwnClients, Dead
  <2>5. PageKeepsAWay'
    BY <1>0, <2>1 DEF LiveInv, PageKeepsAWay
  <2>6. VersionsInOrder'
    BY <2>1 DEF LiveInv, VersionsInOrder
  <2> QED
    BY <2>3, <2>4, <2>5, <2>6 DEF LiveInv
<1>7. ASSUME NEW v \in 0 .. MaxVersion, GotFetch(v) PROVE LiveInv'
  <2>1. /\ mounted /\ v \in fetches \ {Asked} /\ view' = v /\ fetches' = fetches \ {v}
        /\ UNCHANGED <<standings, clients, send, handler, link, wire, mounted, socket, reconnect, polling>>
    BY <1>7 DEF GotFetch, hubVars
  <2>2. LiveTypeOK'
    BY <2>1 DEF LiveInv, LiveTypeOK, Versions
  <2>3. HandlersOwnClients'
    BY <2>1 DEF LiveInv, HandlersOwnClients, Dead
  <2>4. PageKeepsAWay'
    BY <2>1 DEF LiveInv, PageKeepsAWay
  <2>5. VersionsInOrder'
    BY <2>1 DEF LiveInv, VersionsInOrder
  <2> QED
    BY <2>2, <2>3, <2>4, <2>5 DEF LiveInv
<1>8. CASE Leave
  <2>1. /\ mounted' = FALSE /\ socket' = NoConn /\ reconnect' = FALSE /\ polling' = FALSE /\ fetches' = {}
        /\ link' = IF socket = NoConn THEN link ELSE [link EXCEPT ![socket] = "closed"]
        /\ UNCHANGED <<standings, clients, send, handler, wire, view>>
    BY <1>8 DEF Leave, hubVars
  <2>2. /\ link' \in [Conns -> Links]
        /\ \A c \in Conns : link'[c] = link[c] \/ (socket = c /\ link'[c] = "closed")
        /\ \A c \in Conns : socket = c => link'[c] = "closed"
    BY <1>0, <2>1 DEF Links
  <2>3. LiveTypeOK'
    BY <2>1, <2>2 DEF LiveInv, LiveTypeOK
  <2>4. HandlersOwnClients'
    BY <2>1, <2>2 DEF LiveInv, HandlersOwnClients, PageKeepsAWay, Dead
  <2>5. PageKeepsAWay'
    <3>1. \A c \in Conns : link'[c] \in {"none", "closed"} /\ c # NoConn
      BY <1>0, <2>2 DEF LiveInv, PageKeepsAWay
    <3> QED
      BY <2>1, <3>1 DEF PageKeepsAWay
  <2>6. VersionsInOrder'
    BY <2>1 DEF LiveInv, VersionsInOrder
  <2> QED
    BY <2>3, <2>4, <2>5, <2>6 DEF LiveInv
<1>9. CASE OpenSocketThrows
  <2>1. /\ reconnect' = FALSE /\ polling' = TRUE /\ fetches' \subseteq fetches \cup {Asked} /\ mounted
        /\ UNCHANGED <<standings, clients, send, handler, link, wire, mounted, socket, view>>
    BY <1>9 DEF OpenSocketThrows, hubVars
  <2>2. LiveTypeOK'
    BY <2>1 DEF LiveInv, LiveTypeOK
  <2>3. HandlersOwnClients'
    BY <2>1 DEF LiveInv, HandlersOwnClients, Dead
  <2>4. PageKeepsAWay'
    BY <2>1 DEF LiveInv, PageKeepsAWay
  <2>5. VersionsInOrder'
    BY <2>1 DEF LiveInv, VersionsInOrder
  <2> QED
    BY <2>2, <2>3, <2>4, <2>5 DEF LiveInv
<1> QED
  BY <1>1, <1>2, <1>3, <1>4, <1>5, <1>6, <1>7, <1>8, <1>9 DEF PageStep

LEMMA LiveInitHolds == ASSUME DashboardInit PROVE LiveInv
<1>1. /\ standings = 0 /\ clients = {} /\ view = 0 /\ fetches = {} /\ socket = NoConn
      /\ reconnect = TRUE /\ polling = FALSE /\ mounted \in BOOLEAN
      /\ send = [c \in Conns |-> <<>>] /\ wire = [c \in Conns |-> <<>>]
      /\ handler = [c \in Conns |-> "none"] /\ link = [c \in Conns |-> "none"]
  BY DEF DashboardInit, LiveInit
<1>2. 0 \in Versions /\ 0 <= 0 /\ <<>> \in Seq(Versions) /\ NoConn \notin Conns
  BY LiveAssumption DEF Versions
<1>3. LiveTypeOK
  BY <1>1, <1>2 DEF LiveTypeOK, Links
<1>4. HandlersOwnClients /\ PageKeepsAWay
  BY <1>1, <1>2 DEF HandlersOwnClients, PageKeepsAWay, Dead
<1>5. VersionsInOrder
  BY <1>1, <1>2, StreamEmpty DEF VersionsInOrder
<1> QED
  BY <1>3, <1>4, <1>5 DEF LiveInv

\* The invariant of the live leaderboard: hub, handlers, network and page agree
\* on who is connected and on the order of the versions, through full queues,
\* breaks, reconnects and late REST answers.
THEOREM LiveInductive == DashboardSpec => []LiveInv
<1>1. LiveInv /\ [DashboardNext]_dashboardVars => LiveInv'
  <2> SUFFICES ASSUME LiveInv, [DashboardNext]_dashboardVars PROVE LiveInv'
    OBVIOUS
  <2>1. CASE LiveNext
    BY <2>1, LiveServerStep, LivePageStep DEF LiveNext
  <2>2. ASSUME UNCHANGED liveVars PROVE LiveInv'
    BY <2>2 DEF liveVars, LiveInv, LiveTypeOK, HandlersOwnClients, PageKeepsAWay, VersionsInOrder, Dead
  <2> QED
    BY <2>1, <2>2 DEF DashboardNext, dashboardVars
<1> QED
  BY <1>1, LiveInitHolds, PTL DEF DashboardSpec

\* A page that relies on its socket alone is served: from the moment the hub
\* accepts the connection until it breaks, the client is registered and a
\* handler pumps its queue, and the page has no second connection.
OpenSocketIsServed ==
    \A c \in Conns : link[c] \in {"accepted", "open"} =>
        socket = c /\ c \in clients /\ handler[c] = "pump"

\* The safety half of LiveViewConverges: no page waits on a socket that
\* nobody writes to, unless the connection has broken.
THEOREM LiveSocketIsServed == DashboardSpec => []OpenSocketIsServed
<1>1. LiveInv => OpenSocketIsServed
  BY DEF LiveInv, HandlersOwnClients, PageKeepsAWay, OpenSocketIsServed
<1> QED
  BY <1>1, LiveInductive, PTL
=============================================================================
