-------------------------- MODULE UploadPathProofs --------------------------
(***************************************************************************)
(* The path of an upload: the pipeline that builds the submission and the  *)
(* gateway that admits the request.  The two services share no state;      *)
(* their theorems stand side by side.                                      *)
(***************************************************************************)
EXTENDS Gateway, SubmissionPipeline, TLAPS

-----------------------------------------------------------------------------
(***************************************************************************)
(* What the submission pipeline guarantees for any number of submissions,  *)
(* any queue capacity and any number of store failures and restarts.       *)
(***************************************************************************)

Busy == worker.pc \notin {"idle", "stopped"}

TypeOK ==
    /\ scanner \in BOOLEAN
    /\ req \in [Subs -> {"none", "400", "500", "stored", "created", "202", "503", "broken"}]
    /\ row \in [Subs -> {"none", "uploaded", "building", "ready", "build_failed"}]
    /\ registry \subseteq Subs
    /\ clean \subseteq Subs
    /\ pods \subseteq Subs
    /\ queue \in Seq(Subs)
    /\ worker \in [pc : {"idle", "stopped", "get", "mark", "extract", "build", "push",
                         "scan", "ready", "sandbox", "fail"},
                   job : Subs \cup {NoJob}, attempt : Nat, ctx : {"live", "done"}]
    /\ main \in {"serving", "draining", "cancelled", "exited", "killed"}
    /\ Busy => worker.job \in Subs
    /\ ~ Busy => worker.job = NoJob

\* A job is in the queue once, or in the worker, and its request was accepted.
OneClaim ==
    /\ \A i, j \in 1 .. Len(queue) : queue[i] = queue[j] => i = j
    /\ \A i \in 1 .. Len(queue) : queue[i] # worker.job
    /\ \A i \in 1 .. Len(queue) : req[queue[i]] = "202"
    /\ Busy => req[worker.job] = "202"

\* A row is written first by its request and settled last by the worker.
RowFollowsJob ==
    /\ \A s \in Subs : req[s] \in {"none", "stored"} => row[s] = "none"
    /\ \A s \in Subs : req[s] = "created" => row[s] = "uploaded"
    /\ \A i \in 1 .. Len(queue) : ~ Settled(queue[i])
    /\ Busy /\ worker.pc # "sandbox" => ~ Settled(worker.job)

\* How far the image of the worker's job has come.
ImageFollowsJob ==
    /\ worker.pc = "scan" => worker.job \in registry
    /\ worker.pc \in {"ready", "sandbox"} =>
           worker.job \in registry /\ (scanner => worker.job \in clean)
    /\ worker.pc = "sandbox" => row[worker.job] = "ready"

PipelineInv == TypeOK /\ OneClaim /\ RowFollowsJob /\ ImageFollowsJob /\ OnlyScannedImagesRun

-----------------------------------------------------------------------------
(* The invariant is inductive.                                             *)

\* A fresh process with no rows has the invariant.
LEMMA PipelineInit == Init => PipelineInv
BY PipelineAssumption
   DEF Init, Idle, PipelineInv, TypeOK, OneClaim, RowFollowsJob, ImageFollowsJob,
       OnlyScannedImagesRun, Busy, Settled

\* Every step of a handler, of the worker and of main keeps the invariant: a
\* request is enqueued once and before its row can be settled, and only the
\* worker that holds the job moves the row on.
LEMMA PipelineStep == PipelineInv /\ [Next]_vars => PipelineInv'
<1> SUFFICES ASSUME PipelineInv, [Next]_vars
             PROVE  PipelineInv'
    OBVIOUS
<1> USE PipelineAssumption
    DEF PipelineInv, TypeOK, OneClaim, RowFollowsJob, ImageFollowsJob,
        OnlyScannedImagesRun, Busy, Settled, http, images
<1>1. ASSUME NEW s \in Subs, Upload(s) PROVE PipelineInv'
    BY <1>1 DEF Upload
<1>2. ASSUME NEW s \in Subs, CreateRow(s) PROVE PipelineInv'
  <2>1. TypeOK'
    BY <1>2 DEF CreateRow, Fault
  <2>2. OneClaim'
    BY <1>2 DEF CreateRow, Fault
  <2>3. RowFollowsJob'
    BY <1>2 DEF CreateRow, Fault
  <2>4. ImageFollowsJob' /\ OnlyScannedImagesRun'
    BY <1>2 DEF CreateRow, Fault
  <2> QED
    BY <2>1, <2>2, <2>3, <2>4
<1>3. ASSUME NEW s \in Subs, Enqueue(s) PROVE PipelineInv'
  <2>1. CASE Len(queue) >= QueueCap
    BY <1>3, <2>1 DEF Enqueue
  <2>2. CASE Len(queue) < QueueCap
    <3>1. /\ queue' = Append(queue, s)
          /\ req' = [req EXCEPT ![s] = "202"]
          /\ req[s] = "created"
          /\ UNCHANGED <<row, scanner, registry, clean, pods, worker, main>>
      BY <1>3, <2>2 DEF Enqueue
    <3>2. /\ Len(queue') = Len(queue) + 1
          /\ queue' \in Seq(Subs)
          /\ \A i \in 1 .. Len(queue) : queue'[i] = queue[i]
          /\ queue'[Len(queue) + 1] = s
          /\ Len(queue) \in Nat
      BY <3>1
    <3>3. \A i \in 1 .. Len(queue') : i \in 1 .. Len(queue) \/ i = Len(queue) + 1
      BY <3>2
    <3>4. /\ \A i \in 1 .. Len(queue) : queue[i] \in Subs /\ queue[i] # s
          /\ worker.job # s
          /\ row[s] = "uploaded"
      BY <3>1
    <3>5. TypeOK'
      BY <3>1, <3>2
    <3>6. OneClaim'
      <4>1. ASSUME NEW i \in 1 .. Len(queue'), NEW j \in 1 .. Len(queue'), queue'[i] = queue'[j]
            PROVE  i = j
        <5>1. /\ i \in 1 .. Len(queue) \/ i = Len(queue) + 1
              /\ j \in 1 .. Len(queue) \/ j = Len(queue) + 1
          BY <3>3
        <5>2. CASE i \in 1 .. Len(queue) /\ j \in 1 .. Len(queue)
          <6>1. queue[i] = queue[j]
            BY <3>2, <4>1, <5>2
          <6> QED
            BY <5>2, <6>1
        <5>3. CASE i \in 1 .. Len(queue) /\ j = Len(queue) + 1
          BY <3>2, <3>4, <4>1, <5>3
        <5>4. CASE i = Len(queue) + 1 /\ j \in 1 .. Len(queue)
          BY <3>2, <3>4, <4>1, <5>4
        <5> QED
          BY <5>1, <5>2, <5>3, <5>4
      <4>2. \A i \in 1 .. Len(queue') : queue'[i] # worker.job
        BY <3>2, <3>3, <3>4
      <4>3. \A i \in 1 .. Len(queue') : req'[queue'[i]] = "202"
        BY <3>1, <3>2, <3>3, <3>4
      <4> QED
        BY <3>1, <4>1, <4>2, <4>3
    <3>7. RowFollowsJob'
      <4>1. \A i \in 1 .. Len(queue') : row[queue'[i]] \notin {"ready", "build_failed"}
        BY <3>2, <3>3, <3>4
      <4> QED
        BY <3>1, <3>4, <4>1
    <3>8. ImageFollowsJob' /\ OnlyScannedImagesRun'
      BY <3>1
    <3> QED
      BY <3>5, <3>6, <3>7, <3>8
  <2> QED
    BY <2>1, <2>2
<1>4. ASSUME TakeJob PROVE PipelineInv'
    BY <1>4 DEF TakeJob
<1>5. ASSUME StopWorker PROVE PipelineInv'
    BY <1>5 DEF StopWorker, Goto
<1>6. ASSUME GetRow PROVE PipelineInv'
    BY <1>6 DEF GetRow, Goto, Drop, Return, Idle, Fault
<1>7. ASSUME MarkBuilding PROVE PipelineInv'
    BY <1>7 DEF MarkBuilding, Goto, Drop, Return, Idle, Fault
<1>8. ASSUME Compile PROVE PipelineInv'
    BY <1>8 DEF Compile, Goto
<1>9. ASSUME Push PROVE PipelineInv'
    BY <1>9 DEF Push, Goto
<1>10. ASSUME Scan PROVE PipelineInv'
    BY <1>10 DEF Scan, Goto
<1>11. ASSUME MarkFailed PROVE PipelineInv'
    BY <1>11 DEF MarkFailed, Drop, Return, Idle, Fault
<1>12. ASSUME MarkReady PROVE PipelineInv'
    BY <1>12 DEF MarkReady, Goto, Drop, Return, Idle, Fault
<1>13. ASSUME StartSandbox PROVE PipelineInv'
    BY <1>13 DEF StartSandbox, Return, Idle
<1>14. ASSUME BuildTimeout PROVE PipelineInv'
    BY <1>14 DEF BuildTimeout
<1>15. ASSUME Signal PROVE PipelineInv'
    BY <1>15 DEF Signal, Fault
<1>16. ASSUME CancelRoot PROVE PipelineInv'
    BY <1>16 DEF CancelRoot
<1>17. ASSUME ExitDrained PROVE PipelineInv'
    BY <1>17 DEF ExitDrained, End
<1>18. ASSUME Kill PROVE PipelineInv'
    BY <1>18 DEF Kill, End, Fault
<1>19. ASSUME Restart PROVE PipelineInv'
    BY <1>19 DEF Restart, Idle, InFlight
<1>20. CASE UNCHANGED vars
    BY <1>20 DEF vars
<1> QED
    BY <1>1, <1>2, <1>3, <1>4, <1>5, <1>6, <1>7, <1>8, <1>9, <1>10, <1>11, <1>12, <1>13,
       <1>14, <1>15, <1>16, <1>17, <1>18, <1>19, <1>20 DEF Next, Worker, Request

\* The reachable states satisfy the invariant: the worker's job is in nobody
\* else's hands, its request was accepted and its row is not settled.
THEOREM PipelineInductive == Spec => []PipelineInv
BY PipelineInit, PipelineStep, PTL DEF Spec

\* Whatever fails, times out or is restarted, a row says ready only when its
\* image was pushed and, where a scanner is configured, passed the scan, and
\* only such a submission has a sandbox; without a scanner the push is all.
THEOREM PipelineScansFirst == Spec => []OnlyScannedImagesRun
<1>1. PipelineInv => OnlyScannedImagesRun
    BY DEF PipelineInv
<1> QED
    BY <1>1, PipelineInductive, PTL

\* No step changes a settled row: not a second build, not a late failure of
\* the first one, not a restarted service.
THEOREM PipelineSettlesOnce == Spec => SettledStaysSettled
<1>1. PipelineInv /\ [Next]_vars => [\A s \in Subs : Settled(s) => row'[s] = row[s]]_vars
  <2> SUFFICES ASSUME PipelineInv, Next, NEW s \in Subs, Settled(s)
               PROVE  row'[s] = row[s]
      BY DEF vars
  <2> USE DEF PipelineInv, TypeOK, RowFollowsJob, Busy, Settled, images, http
  <2>1. CASE \E u \in Subs : Request(u)
    <3>1. PICK u \in Subs : Request(u)
      BY <2>1
    <3>2. row' = row \/ (req[u] = "stored" /\ row' = [row EXCEPT ![u] = "uploaded"])
      BY <3>1 DEF Request, Upload, CreateRow, Enqueue
    <3> QED
      BY <3>2
  <2>2. CASE Worker
    <3>1. \/ row' = row
          \/ /\ worker.pc \in {"mark", "fail", "ready"}
             /\ \E v \in {"building", "build_failed", "ready"} :
                    row' = [row EXCEPT ![worker.job] = v]
      BY <2>2 DEF Worker, TakeJob, StopWorker, GetRow, MarkBuilding, Compile, Push, Scan,
                  MarkFailed, MarkReady, StartSandbox
    <3> QED
      BY <3>1
  <2>3. CASE BuildTimeout \/ Signal \/ CancelRoot \/ ExitDrained \/ Kill \/ Restart
    BY <2>3 DEF BuildTimeout, Signal, CancelRoot, ExitDrained, Kill, Restart, End
  <2> QED
    BY <2>1, <2>2, <2>3 DEF Next
<1> QED
    BY <1>1, PipelineInductive, PTL DEF Spec, SettledStaysSettled

-----------------------------------------------------------------------------
(***************************************************************************)
(* The rate limiter and the tokens of the gateway for every set of clients *)
(* and requests, every burst, every cost, every number of proxies and      *)
(* every eviction time that leaves a bucket the time to fill.              *)
(*                                                                         *)
(* RateBounded is not inductive: what matters is how much a bucket may     *)
(* still hand out.  Budget bounds what was granted since any earlier grant *)
(* together with the credit left; for an address without an entry the      *)
(* credit is a full bucket, because the next request creates one.  Evict   *)
(* keeps that only if the bucket it drops is full, which needs the time of *)
(* the last decision (LastIsRecent) and that no request holds the entry    *)
(* (HeldIsKnown).  Tight is the other half: a bucket that is not full is   *)
(* exactly on the line of some earlier grant, so a refusal is deserved.    *)
(***************************************************************************)

(* An entry in use is in the map, was stamped after its lookup, and the    *)
(* request that holds it has not waited for longer than MaxPause.          *)
HeldIsKnown ==
  \A r \in Requests : holder[r] # Free =>
    /\ holder[r] \in clients
    /\ heldAt[r] <= seen[holder[r]]
    /\ now - heldAt[r] <= MaxPause
    /\ heldAt[r] <= now

(* Times are not in the future and a bucket is decided on soon after its   *)
(* entry is stamped.                                                       *)
LastIsRecent ==
  \A k \in Keys : seen[k] <= now /\ last[k] <= now /\ last[k] <= seen[k] + MaxPause

(* A bucket is never in debt. *)
NoDebt == \A k \in Keys : 0 <= tokens[k] /\ tokens[k] <= Cap

(* What an address may still be granted at once. *)
Left(k) == IF k \in clients THEN Credit(k) ELSE Cap

(* Since any earlier grant: what was granted and what is left stay under   *)
(* the line.                                                               *)
Budget ==
  \A k \in Keys : \A g \in grants[k] : used[k] - g.before + Left(k) <= Cap + (now - g.at)

(* A bucket is full, or all that was refilled since some grant was granted *)
(* or is left.                                                             *)
Tight ==
  \A k \in Keys : \/ Left(k) = Cap
                  \/ \E g \in grants[k] : used[k] - g.before + Left(k) = Cap + (now - g.at)

(* Grants are not in the future, nor beyond what was granted. *)
GrantsArePast ==
  \A k \in Keys : \A g \in grants[k] : g.at <= now /\ g.before + Cost <= used[k]

LimiterInv ==
  /\ LimiterTypeOK
  /\ HeldIsKnown
  /\ LastIsRecent
  /\ NoDebt
  /\ Budget
  /\ Tight
  /\ GrantsArePast
  /\ RateBounded

USE CostAssumption, CapAssumption, PauseAssumption, EvictAssumption, FreeAssumption

(* The credit of a bucket lies between nothing and a full bucket. *)
LEMMA CreditBounds ==
  ASSUME LimiterTypeOK, LastIsRecent, NoDebt, NEW k \in Keys
  PROVE  Credit(k) \in Int /\ 0 <= Credit(k) /\ Credit(k) <= Cap /\ tokens[k] <= Credit(k)
<1>1. tokens[k] \in Int /\ now \in Int /\ last[k] \in Int /\ Cap \in Int
  BY DEF LimiterTypeOK
<1>2. last[k] <= now /\ 0 <= tokens[k] /\ tokens[k] <= Cap
  BY DEF LastIsRecent, NoDebt
<1> QED BY <1>1, <1>2 DEF Credit

LEMMA InitEstablishes == LimiterInit => LimiterInv
<1> SUFFICES ASSUME LimiterInit PROVE LimiterInv
  OBVIOUS
<1>1. LimiterTypeOK
  BY DEF LimiterInit, LimiterTypeOK
<1>2. HeldIsKnown /\ LastIsRecent /\ NoDebt /\ Budget /\ GrantsArePast /\ RateBounded
  BY DEF LimiterInit, HeldIsKnown, LastIsRecent, NoDebt, Budget, GrantsArePast, RateBounded
<1>3. Tight
  BY DEF LimiterInit, Tight, Left
<1> QED BY <1>1, <1>2, <1>3 DEF LimiterInv

LEMMA LookupPreserves ==
  ASSUME LimiterInv, NEW r \in Requests, NEW k \in Keys, Lookup(r, k)
  PROVE  LimiterInv'
<1> USE DEF LimiterInv
<1>1. LimiterTypeOK'
  BY DEF LimiterTypeOK, Lookup
<1>2. HeldIsKnown'
  BY DEF LimiterTypeOK, HeldIsKnown, LastIsRecent, Lookup
<1>3. LastIsRecent'
  BY DEF LimiterTypeOK, LastIsRecent, Lookup
<1>4. NoDebt'
  BY DEF LimiterTypeOK, NoDebt, Lookup
<1>5. \A j \in Keys : Left(j)' = Left(j)
  <2> SUFFICES ASSUME NEW j \in Keys PROVE Left(j)' = Left(j)
    OBVIOUS
  <2>1. CASE j \in clients
    BY <2>1 DEF LimiterTypeOK, Left, Credit, Lookup
  <2>2. CASE j \notin clients
    BY <2>2 DEF LimiterTypeOK, Left, Credit, Lookup
  <2> QED BY <2>1, <2>2
<1>6. Budget'
  BY <1>5 DEF LimiterTypeOK, Budget, Lookup
<1>7. Tight'
  BY <1>5 DEF LimiterTypeOK, Tight, Lookup
<1>8. GrantsArePast' /\ RateBounded'
  BY DEF GrantsArePast, RateBounded, Lookup
<1> QED BY <1>1, <1>2, <1>3, <1>4, <1>6, <1>7, <1>8

LEMMA GrantPreserves ==
  ASSUME LimiterInv, NEW r \in Requests, NEW k \in Keys, Grant(r, k)
  PROVE  LimiterInv'
<1> USE DEF LimiterInv
<1>c. Credit(k) \in Int /\ Credit(k) <= Cap /\ Cost <= Credit(k)
  BY CreditBounds DEF Grant
<1>k. k \in clients /\ now - heldAt[r] <= MaxPause /\ heldAt[r] <= seen[k]
  BY DEF HeldIsKnown, Grant
<1>1. LimiterTypeOK'
  BY <1>c DEF LimiterTypeOK, Grant, Release, Grants
<1>2. HeldIsKnown'
  BY DEF LimiterTypeOK, HeldIsKnown, Grant, Release
<1>3. LastIsRecent'
  BY <1>k DEF LimiterTypeOK, LastIsRecent, Grant, Release
<1>4. NoDebt'
  BY <1>c DEF LimiterTypeOK, NoDebt, Grant
<1>5. Left(k)' = Left(k) - Cost
  BY <1>c, <1>k DEF LimiterTypeOK, Left, Credit, Grant
<1>6. \A j \in Keys : j # k => Left(j)' = Left(j)
  BY DEF LimiterTypeOK, Left, Credit, Grant
<1>7. Budget'
  <2> SUFFICES ASSUME NEW j \in Keys, NEW g \in grants'[j]
               PROVE  used'[j] - g.before + Left(j)' <= Cap + (now' - g.at)
    BY DEF Budget
  <2>1. CASE j # k
    BY <2>1, <1>6 DEF LimiterTypeOK, Budget, Grant
  <2>2. CASE j = k /\ g \in grants[k]
    <3>1. used[k] - g.before + Left(k) <= Cap + (now - g.at)
      BY <2>2 DEF Budget
    <3>2. used'[k] = used[k] + Cost /\ now' = now
      BY DEF LimiterTypeOK, Grant
    <3>3. g.before \in Nat /\ g.at \in Nat /\ used[k] \in Nat /\ now \in Nat /\ Left(k) \in Int
      BY <2>2, <1>c, <1>k DEF LimiterTypeOK, Grants, Left
    <3> QED BY <2>2, <3>1, <3>2, <3>3, <1>5
  <2>3. CASE j = k /\ g = [at |-> now, before |-> used[k]]
    <3>1. Left(k) \in Int /\ Left(k) <= Cap
      BY <1>c, <1>k DEF Left
    <3> QED BY <2>3, <3>1, <1>5 DEF LimiterTypeOK, Grant
  <2>4. j = k => g \in grants[k] \/ g = [at |-> now, before |-> used[k]]
    BY DEF LimiterTypeOK, Grant
  <2> QED BY <2>1, <2>2, <2>3, <2>4
<1>8. GrantsArePast'
  BY DEF LimiterTypeOK, Grants, GrantsArePast, Grant
<1>9. RateBounded'
  <2> SUFFICES ASSUME NEW j \in Keys, NEW g \in grants'[j], NEW h \in grants'[j],
                      g.before <= h.before
               PROVE  h.before + Cost - g.before <= Cap + (h.at - g.at)
    BY DEF RateBounded
  <2>1. CASE g \in grants[j] /\ h \in grants[j]
    BY <2>1 DEF RateBounded
  <2>2. \/ /\ j = k
           /\ g \notin grants[j] => g = [at |-> now, before |-> used[k]]
           /\ h \notin grants[j] => h = [at |-> now, before |-> used[k]]
        \/ g \in grants[j] /\ h \in grants[j]
    BY DEF LimiterTypeOK, Grant
  <2>3. CASE j = k /\ g \in grants[k] /\ h = [at |-> now, before |-> used[k]]
    <3>1. used[k] - g.before + Left(k) <= Cap + (now - g.at)
      BY <2>3 DEF Budget
    <3>2. g.before \in Nat /\ g.at \in Nat /\ used[k] \in Nat /\ now \in Nat /\ Left(k) \in Int
          /\ Cost <= Left(k)
      BY <2>3, <1>c, <1>k DEF LimiterTypeOK, Grants, Left
    <3> QED BY <2>3, <3>1, <3>2
  <2>4. CASE j = k /\ g = [at |-> now, before |-> used[k]] /\ h = g
    BY <2>4, <1>c DEF LimiterTypeOK
  <2>5. CASE j = k /\ g = [at |-> now, before |-> used[k]] /\ h \in grants[k]
    \* h was granted earlier, so less had been spent before it
    BY <2>5 DEF LimiterTypeOK, Grants, GrantsArePast
  <2> QED BY <2>1, <2>2, <2>3, <2>4, <2>5
<1>10. Tight'
  <2> SUFFICES ASSUME NEW j \in Keys
               PROVE  \/ Left(j)' = Cap
                      \/ \E g \in grants'[j] : used'[j] - g.before + Left(j)' = Cap + (now' - g.at)
    BY DEF Tight
  <2>1. CASE j # k
    BY <2>1, <1>6 DEF LimiterTypeOK, Tight, Grant
  <2>2. CASE j = k /\ Left(k) = Cap
    <3> DEFINE g == [at |-> now, before |-> used[k]]
    <3>1. g \in grants'[k] /\ used'[k] = used[k] + Cost /\ now' = now
      BY DEF LimiterTypeOK, Grant
    <3>2. g.at = now /\ g.before = used[k] /\ now \in Nat /\ used[k] \in Nat
      BY DEF LimiterTypeOK
    <3>3. used'[k] - g.before + Left(k)' = Cap + (now' - g.at)
      BY <2>2, <1>5, <3>1, <3>2
    <3> QED BY <2>2, <3>1, <3>3
  <2>3. CASE j = k /\ Left(k) # Cap
    <3>1. PICK g \in grants[k] : used[k] - g.before + Left(k) = Cap + (now - g.at)
      BY <2>3 DEF Tight
    <3>2. g \in grants'[k] /\ used'[k] = used[k] + Cost /\ now' = now
      BY DEF LimiterTypeOK, Grant
    <3>3. g.before \in Nat /\ g.at \in Nat /\ used[k] \in Nat /\ now \in Nat /\ Left(k) \in Int
      BY <1>c, <1>k DEF LimiterTypeOK, Grants, Left
    <3>4. used'[k] - g.before + Left(k)' = Cap + (now' - g.at)
      BY <3>1, <3>2, <3>3, <1>5
    <3> QED BY <2>3, <3>2, <3>4
  <2> QED BY <2>1, <2>2, <2>3
<1> QED BY <1>1, <1>2, <1>3, <1>4, <1>7, <1>8, <1>9, <1>10

LEMMA DenyPreserves ==
  ASSUME LimiterInv, NEW r \in Requests, NEW k \in Keys, Deny(r, k)
  PROVE  LimiterInv'
<1> USE DEF LimiterInv
<1>c. Credit(k) \in Int /\ 0 <= Credit(k) /\ Credit(k) <= Cap
  BY CreditBounds
<1>k. k \in clients /\ now - heldAt[r] <= MaxPause /\ heldAt[r] <= seen[k]
  BY DEF HeldIsKnown, Deny
<1>1. LimiterTypeOK'
  BY <1>c DEF LimiterTypeOK, Deny, Release
<1>2. HeldIsKnown'
  BY DEF LimiterTypeOK, HeldIsKnown, Deny, Release
<1>3. LastIsRecent'
  BY <1>k DEF LimiterTypeOK, LastIsRecent, Deny, Release
<1>4. NoDebt'
  BY <1>c DEF LimiterTypeOK, NoDebt, Deny
<1>5. \A j \in Keys : Left(j)' = Left(j)
  BY <1>c, <1>k DEF LimiterTypeOK, Left, Credit, Deny
<1>6. Budget'
  BY <1>5 DEF LimiterTypeOK, Budget, Deny
<1>7. Tight'
  BY <1>5 DEF LimiterTypeOK, Tight, Deny
<1>8. GrantsArePast' /\ RateBounded'
  BY DEF GrantsArePast, RateBounded, Deny
<1> QED BY <1>1, <1>2, <1>3, <1>4, <1>6, <1>7, <1>8

LEMMA EvictPreserves ==
  ASSUME LimiterInv, Evict
  PROVE  LimiterInv'
<1> USE DEF LimiterInv
<1>1. LimiterTypeOK'
  BY DEF LimiterTypeOK, Evict
<1>2. \A r \in Requests : holder[r] # Free => holder[r] \in clients'
  BY DEF LimiterTypeOK, HeldIsKnown, Evict
<1>3. HeldIsKnown'
  BY <1>2 DEF LimiterTypeOK, HeldIsKnown, Evict
<1>4. LastIsRecent' /\ NoDebt'
  BY DEF LimiterTypeOK, LastIsRecent, NoDebt, Evict
<1>5. \A j \in Keys : Left(j)' = Left(j)
  <2> SUFFICES ASSUME NEW j \in Keys PROVE Left(j)' = Left(j)
    OBVIOUS
  <2>1. CASE j \in clients'
    BY <2>1 DEF LimiterTypeOK, Left, Credit, Evict
  <2>2. CASE j \in clients /\ j \notin clients'
    \* the bucket that is dropped had the time to fill
    <3>1. now - seen[j] > EvictAfter /\ last[j] <= seen[j] + MaxPause /\ 0 <= tokens[j]
      BY <2>2 DEF LimiterTypeOK, LastIsRecent, NoDebt, Evict
    <3>2. Credit(j) = Cap
      BY <3>1 DEF LimiterTypeOK, Credit
    <3> QED BY <2>2, <3>2 DEF Left
  <2>3. CASE j \notin clients
    BY <2>3 DEF Left, Evict
  <2> QED BY <2>1, <2>2, <2>3
<1>6. Budget'
  BY <1>5 DEF LimiterTypeOK, Budget, Evict
<1>7. Tight'
  BY <1>5 DEF LimiterTypeOK, Tight, Evict
<1>8. GrantsArePast' /\ RateBounded'
  BY DEF GrantsArePast, RateBounded, Evict
<1> QED BY <1>1, <1>3, <1>4, <1>6, <1>7, <1>8

LEMMA AdvancePreserves ==
  ASSUME LimiterInv, Advance
  PROVE  LimiterInv'
<1> USE DEF LimiterInv
<1>1. LimiterTypeOK'
  BY DEF LimiterTypeOK, Advance
<1>2. HeldIsKnown' /\ LastIsRecent' /\ NoDebt'
  BY DEF LimiterTypeOK, HeldIsKnown, LastIsRecent, NoDebt, Advance
<1>3. \A j \in Keys : Left(j) \in Int /\ Left(j)' \in Int /\ Left(j)' <= Left(j) + 1
  BY CreditBounds DEF LimiterTypeOK, Left, Credit, Advance
<1>4. Budget'
  <2> SUFFICES ASSUME NEW k \in Keys, NEW g \in grants[k]
               PROVE  used'[k] - g.before + Left(k)' <= Cap + (now' - g.at)
    BY DEF Budget, Advance
  <2>1. used[k] - g.before + Left(k) <= Cap + (now - g.at)
    BY DEF Budget
  <2>2. g.before \in Nat /\ g.at \in Nat /\ used[k] \in Nat /\ now \in Nat
    BY DEF LimiterTypeOK, Grants
  <2>3. used' = used /\ now' = now + 1
    BY DEF Advance
  <2> QED BY <2>1, <2>2, <2>3, <1>3
<1>5. GrantsArePast' /\ RateBounded'
  BY DEF LimiterTypeOK, Grants, GrantsArePast, RateBounded, Advance
<1>6. \A j \in Keys : Left(j)' = Cap \/ (Left(j) # Cap /\ Left(j)' = Left(j) + 1)
  BY CreditBounds DEF LimiterTypeOK, Left, Credit, Advance
<1>7. Tight'
  <2> SUFFICES ASSUME NEW k \in Keys, Left(k)' # Cap
               PROVE  \E g \in grants'[k] : used'[k] - g.before + Left(k)' = Cap + (now' - g.at)
    BY DEF Tight
  <2>1. PICK g \in grants[k] : used[k] - g.before + Left(k) = Cap + (now - g.at)
    BY <1>6 DEF Tight
  <2>2. g.before \in Nat /\ g.at \in Nat /\ used[k] \in Nat /\ now \in Nat
    BY DEF LimiterTypeOK, Grants
  <2>3. used' = used /\ now' = now + 1 /\ grants' = grants
    BY DEF Advance
  <2>4. used'[k] - g.before + Left(k)' = Cap + (now' - g.at)
    BY <2>1, <2>2, <2>3, <1>3, <1>6
  <2> QED BY <2>3, <2>4
<1> QED BY <1>1, <1>2, <1>4, <1>5, <1>7

LEMMA StutterPreserves ==
  ASSUME LimiterInv, UNCHANGED limiterVars
  PROVE  LimiterInv'
BY DEF LimiterInv, limiterVars, LimiterTypeOK, HeldIsKnown, LastIsRecent, NoDebt, Budget, Left,
       Credit, Tight, GrantsArePast, RateBounded

(* The strengthening is inductive: every step of Allow, of the eviction    *)
(* goroutine and of the clock keeps it.                                    *)
THEOREM LimiterInductive == LimiterSpec => []LimiterInv
<1>1. LimiterInit => LimiterInv
  BY InitEstablishes
<1>2. LimiterInv /\ [LimiterNext]_limiterVars => LimiterInv'
  BY LookupPreserves, GrantPreserves, DenyPreserves, EvictPreserves, AdvancePreserves,
     StutterPreserves DEF LimiterNext
<1> QED BY <1>1, <1>2, PTL DEF LimiterSpec

(* IPLimiter.Allow never grants an address more than its burst and what    *)
(* was refilled, for any traffic, any number of addresses and any          *)
(* eviction.                                                               *)
THEOREM LimiterRateBounded == LimiterSpec => []RateBounded
<1>1. LimiterInv => RateBounded
  BY DEF LimiterInv
<1> QED BY <1>1, LimiterInductive, PTL

-----------------------------------------------------------------------------
(* The gateway in front of the limiter.                                    *)

Tokens == {Issue(t) : t \in Nat} \cup {NoClaims}

RequestTypeOK ==
  /\ pc \in [Requests -> {"idle", "allow", "route", "upstream"}]
  /\ from \in [Requests -> Clients \cup {Nobody}]
  /\ kind \in [Requests -> Kinds]
  /\ bearer \in [Requests -> Tokens]
  /\ claims \in [Clients -> Tokens]
  /\ throttled \in [Clients -> Nat]

(* A request that is being handled is some client's, and in Allow it holds *)
(* the entry of that client.                                               *)
OwnEntry ==
  \A r \in Requests : /\ pc[r] # "idle" => from[r] \in Clients
                      /\ pc[r] = "allow" => holder[r] = from[r]

GatewayInv == LimiterInv /\ RequestTypeOK /\ OwnEntry

(* clientIP finds the client's own address behind any number of trusted    *)
(* proxies, whatever the client wrote into the header.                     *)
LEMMA KeyIsTheClient ==
  ASSUME NEW c \in Clients, NEW xff \in Seq(Clients)
  PROVE  clientIP(RemoteAddr(c), Forwarded(c, xff)) = c
<1>1. CASE Hops = 0
  BY <1>1 DEF clientIP, RemoteAddr
<1>2. CASE Hops > 0
  <2> DEFINE hops == [i \in 1 .. Hops - 1 |-> Proxy]
             all == xff \o <<c>> \o hops
  <2>1. hops \in Seq({Proxy}) /\ Len(hops) = Hops - 1
    BY <1>2, HopsAssumption
  <2>2. xff \o <<c>> \in Seq(Clients) /\ Len(xff \o <<c>>) = Len(xff) + 1 /\ Len(xff) \in Nat
    OBVIOUS
  <2>3. (xff \o <<c>>)[Len(xff) + 1] = c
    OBVIOUS
  <2> HIDE DEF hops
  <2>4. Len(all) = Len(xff) + Hops /\ DOMAIN all = 1 .. Len(xff) + Hops
    BY <2>1, <2>2, HopsAssumption
  <2>5. all[Len(xff) + 1] = c
    BY <2>1, <2>2, <2>3
  <2>6. Forwarded(c, xff) = all
    BY <1>2, HopsAssumption DEF Forwarded, hops
  <2> HIDE DEF all
  <2>7. Len(all) - Hops + 1 = Len(xff) + 1 /\ Len(xff) + 1 \in DOMAIN all
    BY <1>2, <2>2, <2>4, HopsAssumption
  <2> QED
    BY <1>2, <2>5, <2>6, <2>7 DEF clientIP
<1> QED
  BY <1>1, <1>2, HopsAssumption

(* A gateway that starts has the invariant. *)
LEMMA GatewayInitHolds == GatewayInit => GatewayInv
BY InitEstablishes
   DEF GatewayInit, GatewayInv, RequestTypeOK, OwnEntry, Kinds, Tokens

(* A request that ends leaves the invariant. *)
LEMMA ResetKeeps ==
  ASSUME GatewayInv, NEW r \in Requests, Reset(r), LimiterInv', claims' \in [Clients -> Tokens],
         throttled' \in [Clients -> Nat], \A q \in Requests : q # r => holder'[q] = holder[q]
  PROVE  GatewayInv'
<1>1. RequestTypeOK'
  BY DEF GatewayInv, RequestTypeOK, Reset, Tokens, Kinds
<1>2. OwnEntry'
  BY DEF GatewayInv, RequestTypeOK, OwnEntry, Reset
<1> QED
  BY <1>1, <1>2 DEF GatewayInv

(* Every step of a request, of the clock and of the eviction goroutine     *)
(* keeps the invariant.                                                    *)
LEMMA GatewayStep == GatewayInv /\ [GatewayNext]_gatewayVars => GatewayInv'
<1> SUFFICES ASSUME GatewayInv, [GatewayNext]_gatewayVars
             PROVE  GatewayInv'
  OBVIOUS
<1>0. LimiterInv /\ RequestTypeOK /\ OwnEntry /\ LimiterTypeOK
  BY DEF GatewayInv, LimiterInv
<1>1. ASSUME NEW r \in Requests, Send(r) PROVE GatewayInv'
  <2>1. PICK c \in Clients, what \in Kinds, xff \in Seq(Clients), tok \in Tokens :
            Arrive(r, c, what, xff, tok)
    <3>1. PICK c \in Clients, what \in Kinds :
            \E xff \in {<<>>} \cup {<<d>> : d \in Clients \ {c}} :
              \E tok \in IF what = "submission" THEN {NoClaims, claims[c]} ELSE {NoClaims} :
                Arrive(r, c, what, xff, tok)
      BY <1>1 DEF Send
    <3>2. PICK xff \in {<<>>} \cup {<<d>> : d \in Clients \ {c}} :
              \E tok \in IF what = "submission" THEN {NoClaims, claims[c]} ELSE {NoClaims} :
                Arrive(r, c, what, xff, tok)
      BY <3>1
    <3>3. PICK tok \in IF what = "submission" THEN {NoClaims, claims[c]} ELSE {NoClaims} :
                Arrive(r, c, what, xff, tok)
      BY <3>2
    <3>4. xff \in Seq(Clients)
      <4>1. CASE xff = <<>>
        BY <4>1
      <4>2. CASE \E d \in Clients : xff = <<d>>
        BY <4>2
      <4> QED
        BY <4>1, <4>2
    <3>5. claims[c] \in Tokens /\ NoClaims \in Tokens
      BY <1>0 DEF RequestTypeOK, Tokens
    <3>6. tok \in Tokens
      BY <3>3, <3>5
    <3> QED
      BY <3>3, <3>4, <3>6
  <2>2. Lookup(r, c)
    BY <2>1, KeyIsTheClient DEF Arrive
  <2>3. LimiterInv'
    BY <1>0, <2>2, LookupPreserves, KeysAssumption
  <2>4. RequestTypeOK'
    BY <1>0, <2>1 DEF Arrive, RequestTypeOK
  <2>5. holder' = [holder EXCEPT ![r] = c]
    BY <2>2 DEF Lookup
  <2>6. OwnEntry'
    BY <1>0, <2>1, <2>5 DEF Arrive, RequestTypeOK, OwnEntry, LimiterTypeOK
  <2> QED
    BY <2>3, <2>4, <2>6 DEF GatewayInv
<1>2. ASSUME NEW r \in Requests, Pass(r) PROVE GatewayInv'
  <2>1. holder[r] \in Keys
    BY <1>0, <1>2, KeysAssumption DEF Pass, OwnEntry
  <2>2. LimiterInv'
    BY <1>0, <1>2, <2>1, GrantPreserves DEF Pass
  <2>3. RequestTypeOK'
    BY <1>0, <1>2 DEF Pass, RequestTypeOK
  <2>4. holder' = [holder EXCEPT ![r] = Free]
    BY <1>2 DEF Pass, Grant, Release
  <2>5. OwnEntry'
    BY <1>0, <1>2, <2>4 DEF Pass, RequestTypeOK, OwnEntry, LimiterTypeOK
  <2> QED
    BY <2>2, <2>3, <2>5 DEF GatewayInv
<1>3. ASSUME NEW r \in Requests, Throttle(r) PROVE GatewayInv'
  <2>1. holder[r] \in Keys /\ from[r] \in Clients
    BY <1>0, <1>3, KeysAssumption DEF Throttle, OwnEntry
  <2>2. LimiterInv'
    BY <1>0, <1>3, <2>1, DenyPreserves DEF Throttle
  <2>3. \A q \in Requests : q # r => holder'[q] = holder[q]
    BY <1>0, <1>3 DEF Throttle, Deny, Release, LimiterTypeOK
  <2>4. claims' \in [Clients -> Tokens] /\ throttled' \in [Clients -> Nat]
    BY <1>0, <1>3, <2>1 DEF Throttle, RequestTypeOK
  <2> QED
    BY <1>3, <2>2, <2>3, <2>4, ResetKeeps DEF Throttle
<1>4. ASSUME NEW r \in Requests, handleHealth(r) \/ Unauthorized(r) \/ Answer(r)
      PROVE  GatewayInv'
  <2>1. Reset(r) /\ UNCHANGED limiterVars /\ UNCHANGED <<claims, throttled>>
    BY <1>4 DEF handleHealth, Unauthorized, Answer
  <2>2. LimiterInv' /\ UNCHANGED holder
    BY <1>0, <2>1, StutterPreserves DEF limiterVars
  <2> QED
    BY <1>0, <2>1, <2>2, ResetKeeps DEF RequestTypeOK
<1>5. ASSUME NEW r \in Requests, handleToken(r) PROVE GatewayInv'
  <2>1. Reset(r) /\ UNCHANGED limiterVars /\ UNCHANGED throttled
    BY <1>5 DEF handleToken
  <2>2. LimiterInv' /\ UNCHANGED holder
    BY <1>0, <2>1, StutterPreserves DEF limiterVars
  <2>3. Issue(now) \in Tokens
    BY <1>0 DEF Tokens, LimiterTypeOK
  <2>4. claims' \in [Clients -> Tokens]
    BY <1>0, <1>5, <2>3 DEF handleToken, RequestTypeOK
  <2> QED
    BY <1>0, <2>1, <2>2, <2>4, ResetKeeps DEF RequestTypeOK
<1>6. ASSUME NEW r \in Requests, Forward(r) PROVE GatewayInv'
  <2>1. LimiterInv' /\ UNCHANGED holder
    BY <1>0, <1>6, StutterPreserves DEF Forward, limiterVars
  <2>2. RequestTypeOK' /\ OwnEntry'
    BY <1>0, <1>6, <2>1 DEF Forward, RequestTypeOK, OwnEntry
  <2> QED
    BY <2>1, <2>2 DEF GatewayInv
<1>7. CASE Tick
  <2>1. LimiterInv' /\ UNCHANGED holder
    BY <1>0, <1>7, AdvancePreserves DEF Tick, Advance
  <2>2. RequestTypeOK' /\ OwnEntry'
    BY <1>0, <1>7, <2>1 DEF Tick, requestVars, RequestTypeOK, OwnEntry
  <2> QED
    BY <2>1, <2>2 DEF GatewayInv
<1>8. CASE EvictPass
  <2>1. LimiterInv' /\ UNCHANGED holder
    BY <1>0, <1>8, EvictPreserves DEF EvictPass, Evict
  <2>2. RequestTypeOK' /\ OwnEntry'
    BY <1>0, <1>8, <2>1 DEF EvictPass, requestVars, RequestTypeOK, OwnEntry
  <2> QED
    BY <2>1, <2>2 DEF GatewayInv
<1>9. CASE UNCHANGED gatewayVars
  <2>1. LimiterInv' /\ UNCHANGED holder
    BY <1>0, <1>9, StutterPreserves DEF gatewayVars, limiterVars
  <2>2. RequestTypeOK' /\ OwnEntry'
    BY <1>0, <1>9 DEF gatewayVars, RequestTypeOK, OwnEntry
  <2> QED
    BY <2>1, <2>2 DEF GatewayInv
<1> QED
  BY <1>1, <1>2, <1>3, <1>4, <1>5, <1>6, <1>7, <1>8, <1>9 DEF GatewayNext, Handle

(* The gateway uses the limiter as its proof assumes: every request holds  *)
(* its own client's entry, and every token was issued.                     *)
THEOREM GatewayInductive == GatewaySpec => []GatewayInv
BY GatewayInitHolds, GatewayStep, PTL DEF GatewaySpec

(* No address is granted more than its burst and what was refilled, when   *)
(* the limiter is driven by the gateway's requests.                        *)
THEOREM GatewayRateBounded == GatewaySpec => []RateBounded
<1>1. GatewayInv => RateBounded
  BY DEF GatewayInv, LimiterInv
<1> QED
  BY <1>1, GatewayInductive, PTL

(* The gateway implements the quota: a client's requests are granted and   *)
(* refused by its own traffic alone.  A grant is under the line by Budget, *)
(* a refusal is over it by Tight; all other steps change nothing one sees. *)
THEOREM GatewayKeepsQuota == GatewaySpec => KeepsQuota
<1>1. GatewayInit => Limit!Init
  BY KeysAssumption DEF GatewayInit, LimiterInit, Limit!Init
<1>2. GatewayInv /\ [GatewayNext]_gatewayVars => [Limit!Next]_(Limit!vars)
  <2> SUFFICES ASSUME GatewayInv, [GatewayNext]_gatewayVars
               PROVE  [Limit!Next]_(Limit!vars)
    OBVIOUS
  <2>0. LimiterInv /\ RequestTypeOK /\ OwnEntry /\ LimiterTypeOK
    BY DEF GatewayInv, LimiterInv
  <2>1. ASSUME NEW r \in Requests, Pass(r) PROVE Limit!Next
    <3>1. PICK c \in Clients : c = holder[r] /\ c \in Keys /\ c \in clients
      BY <2>0, <2>1, KeysAssumption, FreeAssumption DEF Pass, OwnEntry, LimiterInv, HeldIsKnown
    <3>2. Grant(r, c)
      BY <2>1, <3>1 DEF Pass
    <3>3. Credit(c) \in Int /\ Cost <= Credit(c) /\ Credit(c) <= Cap /\ Left(c) = Credit(c)
      BY <2>0, <3>1, <3>2, CreditBounds DEF LimiterInv, Grant, Left
    <3>4. \A g \in grants[c] : used[c] + Cost - g.before <= Cap + now - g.at
      <4> SUFFICES ASSUME NEW g \in grants[c]
                   PROVE  used[c] + Cost - g.before <= Cap + now - g.at
        OBVIOUS
      <4>1. used[c] - g.before + Left(c) <= Cap + (now - g.at)
        BY <2>0, <3>1 DEF LimiterInv, Budget
      <4>2. g.before \in Nat /\ g.at \in Nat /\ used[c] \in Nat /\ now \in Nat
        BY <2>0, <3>1 DEF LimiterTypeOK, Grants
      <4> QED
        BY <3>3, <4>1, <4>2
    <3>5. Cost <= Cap
      BY <3>3
    <3>6. Limit!Conforms(c)
      BY <3>4, <3>5 DEF Limit!Conforms
    <3>7. /\ grants' = [grants EXCEPT ![c] = @ \cup {[at |-> now, before |-> used[c]]}]
          /\ used' = [used EXCEPT ![c] = @ + Cost]
          /\ UNCHANGED <<now, throttled>>
      BY <2>1, <3>2 DEF Pass, Grant
    <3>8. [d \in Clients |-> grants'[d]] = [[d \in Clients |-> grants[d]] EXCEPT
              ![c] = @ \cup {[at |-> now, before |-> [d \in Clients |-> used[d]][c]]}]
      BY <2>0, <3>1, <3>7, KeysAssumption DEF LimiterTypeOK
    <3>9. [d \in Clients |-> used'[d]] = [[d \in Clients |-> used[d]] EXCEPT ![c] = @ + Cost]
      BY <2>0, <3>1, <3>7, KeysAssumption DEF LimiterTypeOK
    <3>10. Limit!Grant(c)
      BY <3>6, <3>7, <3>8, <3>9 DEF Limit!Grant
    <3> QED
      BY <3>10 DEF Limit!Next
  <2>2. ASSUME NEW r \in Requests, Throttle(r) PROVE Limit!Next
    <3>1. PICK c \in Clients : c = holder[r] /\ c = from[r] /\ c \in Keys /\ c \in clients
      BY <2>0, <2>2, KeysAssumption, FreeAssumption DEF Throttle, OwnEntry, LimiterInv, HeldIsKnown
    <3>2. Deny(r, c)
      BY <2>2, <3>1 DEF Throttle
    <3>3. Left(c) \in Int /\ Left(c) < Cost
      BY <2>0, <3>1, <3>2, CreditBounds DEF LimiterInv, Deny, Left
    <3>4. ASSUME Cost <= Cap
          PROVE  \E g \in grants[c] : ~ (used[c] + Cost - g.before <= Cap + now - g.at)
      <4>1. PICK g \in grants[c] : used[c] - g.before + Left(c) = Cap + (now - g.at)
        BY <2>0, <3>1, <3>3, <3>4 DEF LimiterInv, Tight
      <4>2. g.before \in Nat /\ g.at \in Nat /\ used[c] \in Nat /\ now \in Nat
        BY <2>0, <3>1 DEF LimiterTypeOK, Grants
      <4> QED
        BY <3>3, <4>1, <4>2
    <3>5. ~ Limit!Conforms(c)
      BY <3>4 DEF Limit!Conforms
    <3>6. throttled' = [throttled EXCEPT ![c] = @ + 1] /\ UNCHANGED <<now, grants, used>>
      BY <2>2, <3>1, <3>2 DEF Throttle, Deny
    <3>7. Limit!Refuse(c)
      BY <3>5, <3>6 DEF Limit!Refuse
    <3> QED
      BY <3>7 DEF Limit!Next
  <2>3. CASE Tick
    BY <2>0, <2>3 DEF Tick, Advance, LimiterTypeOK, Limit!Next, Limit!Tick
  <2>4. CASE UNCHANGED <<now, grants, used, throttled>>
    BY <2>4 DEF Limit!vars
  <2>5. ASSUME NEW r \in Requests, Send(r) PROVE UNCHANGED <<now, grants, used, throttled>>
    BY <2>5 DEF Send, Arrive, Lookup
  <2>6. ASSUME NEW r \in Requests,
               handleHealth(r) \/ handleToken(r) \/ Forward(r) \/ Unauthorized(r) \/ Answer(r)
        PROVE  UNCHANGED <<now, grants, used, throttled>>
    BY <2>6 DEF handleHealth, handleToken, Forward, Unauthorized, Answer, limiterVars
  <2>7. ASSUME EvictPass PROVE UNCHANGED <<now, grants, used, throttled>>
    BY <2>7 DEF EvictPass, Evict
  <2>8. ASSUME UNCHANGED gatewayVars PROVE UNCHANGED <<now, grants, used, throttled>>
    BY <2>8 DEF gatewayVars
  <2> QED
    BY <2>1, <2>2, <2>3, <2>4, <2>5, <2>6, <2>7, <2>8 DEF GatewayNext, Handle
<1> QED
  BY <1>1, <1>2, GatewayInductive, PTL DEF GatewaySpec, KeepsQuota, Limit!Spec

-----------------------------------------------------------------------------
(* Tokens.                                                                 *)

(* Whole seconds keep the order of moments, and a second later is a whole  *)
(* second later.                                                           *)
LEMMA WholeSeconds ==
  ASSUME NEW a \in Nat, NEW b \in Nat
  PROVE  /\ a \div Second \in Int /\ b \div Second \in Int
         /\ a <= b => a \div Second <= b \div Second
         /\ a >= b + Second => a \div Second > b \div Second
<1> DEFINE p == a \div Second
           q == b \div Second
<1>1. p \in Int /\ q \in Int /\ Second \in Int /\ Second > 0
  BY TokenAssumption
<1>2. /\ Second * p <= a /\ a < Second * p + Second
      /\ Second * q <= b /\ b < Second * q + Second
  BY TokenAssumption
<1> HIDE DEF p, q
<1>3. ASSUME p > q PROVE Second * p >= Second * q + Second
  BY <1>1, <1>3
<1>4. ASSUME p <= q PROVE Second * p <= Second * q
  BY <1>1, <1>4
<1> QED
  BY <1>1, <1>2, <1>3, <1>4 DEF p, q

(* A token is accepted until its TTL is over and refused a second later,   *)
(* for every TTL and every moment of issue.                                *)
THEOREM GatewayTokenLifetime == GatewaySpec => TokenLifetime
<1> DEFINE Good(r) ==
      (pc[r] = "route" /\ kind[r] = "submission" /\ pc'[r] # "route" /\ bearer[r] # NoClaims) =>
         /\ now < bearer[r].at + TTL => pc'[r] = "upstream"
         /\ now >= bearer[r].at + TTL + Second => pc'[r] = "idle"
<1>1. GatewayInv /\ [GatewayNext]_gatewayVars => [\A r \in Requests : Good(r)]_gatewayVars
  <2> SUFFICES ASSUME GatewayInv, GatewayNext, NEW r \in Requests,
                      pc[r] = "route", kind[r] = "submission", pc'[r] # "route",
                      bearer[r] # NoClaims
               PROVE  /\ now < bearer[r].at + TTL => pc'[r] = "upstream"
                      /\ now >= bearer[r].at + TTL + Second => pc'[r] = "idle"
    OBVIOUS
  <2>1. RequestTypeOK /\ now \in Nat
    BY DEF GatewayInv, LimiterInv, LimiterTypeOK
  <2>2. Forward(r) \/ Unauthorized(r)
    <3>1. ASSUME NEW q \in Requests, Send(q) \/ Handle(q), ~ (Forward(r) \/ Unauthorized(r))
          PROVE  pc'[r] = pc[r]
      BY <2>1, <3>1 DEF Send, Arrive, Handle, Pass, Throttle, handleHealth, handleToken, Forward,
                        Unauthorized, Answer, Reset, RequestTypeOK
    <3>2. ASSUME Tick \/ EvictPass PROVE pc'[r] = pc[r]
      BY <3>2 DEF Tick, EvictPass, requestVars
    <3> QED
      BY <3>1, <3>2 DEF GatewayNext
  <2>3. PICK t \in Nat : bearer[r] = Issue(t)
    BY <2>1 DEF RequestTypeOK, Tokens
  <2>4. bearer[r].at = t /\ bearer[r].exp = (t + TTL) \div Second
    BY <2>3 DEF Issue
  <2>5. /\ now < t + TTL => now \div Second <= (t + TTL) \div Second
        /\ now >= t + TTL + Second => now \div Second > (t + TTL) \div Second
        /\ now \div Second \in Int /\ (t + TTL) \div Second \in Int
    <3>1. t + TTL \in Nat
      BY TokenAssumption
    <3> QED
      BY <2>1, <3>1, WholeSeconds, TokenAssumption
  <2>6. CASE Forward(r)
    <3>1. pc'[r] = "upstream" /\ now \div Second <= (t + TTL) \div Second
      BY <2>1, <2>4, <2>6 DEF Forward, Validate, RequestTypeOK
    <3> QED
      BY <2>4, <2>5, <3>1
  <2>7. CASE Unauthorized(r)
    <3>1. pc'[r] = "idle" /\ ~ (now \div Second <= (t + TTL) \div Second)
      BY <2>1, <2>4, <2>7 DEF Unauthorized, Validate, Reset, RequestTypeOK
    <3> QED
      BY <2>4, <2>5, <3>1
  <2> QED
    BY <2>2, <2>6, <2>7
<1> QED
  BY <1>1, GatewayInductive, PTL DEF GatewaySpec, TokenLifetime
=============================================================================
