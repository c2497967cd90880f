---------------------------- MODULE ClusterProofs ----------------------------
(***************************************************************************)
(* What sandbox-runner and bot-coordinator guarantee for any number of     *)
(* submissions, requests, benchmarks, workers, lost watches and API faults.*)
(***************************************************************************)
EXTENDS Cluster, FiniteSetTheorems, TLAPS

-----------------------------------------------------------------------------
(* The crash counts of sandbox-runner.                                     *)

CallRecords == [step : {"new", "waiting", "ok", "error"}, sub : Subs]
Phases == {None, "pending", "ready", "failed", "succeeded"}
Told == Subs \X {0, 1}      \* what the watch tells

SandboxTypeOK ==
    /\ call \in [Calls -> CallRecords]
    /\ pod \in [Subs -> Phases]
    /\ events \in Seq(Told)
    /\ tracker \in [Subs -> {NoCount, 0, 1}]
    /\ crashed \in [Subs -> Nat]

\* Nothing that is on its way to the count, or in it, tells of more crashes
\* than there were.
CrashesAreReal ==
    /\ \A s \in Subs : pod[s] = "failed" => crashed[s] >= 1
    /\ \A k \in 1 .. Len(events) : events[k][2] <= crashed[events[k][1]]
    /\ \A s \in Subs : tracker[s] <= crashed[s]

SandboxInv == SandboxTypeOK /\ CrashesAreReal

-----------------------------------------------------------------------------
(* The Jobs of bot-coordinator.                                            *)

JobRecords == [run : Nat \ {0}, workers : Nat, timed : BOOLEAN, made : Nat, succeeded : Nat,
               failed : Nat, done : {"no", "complete", "failed"}, deleting : BOOLEAN]

CoordinatorTypeOK ==
    /\ job \in [Benchmarks -> JobRecords \cup {NoJob}]
    /\ runs \in [Benchmarks -> Nat]
    /\ bots \subseteq [of : Benchmarks, run : Nat, n : Nat, stopping : BOOLEAN]

\* A pod belongs to the run its benchmark's Job is at, so the Job is there as
\* long as one of its pods is.
PodsHaveTheirJob == \A p \in bots : job[p.of] # NoJob /\ job[p.of].run = p.run

CoordinatorInv == CoordinatorTypeOK /\ PodsHaveTheirJob

\* A runner that starts, with no pods, has the invariant.
LEMMA SandboxInit == Init => SandboxInv
BY DEF Init, SandboxInv, SandboxTypeOK, CallRecords, Phases, CrashesAreReal, None, NoCount

\* A change of a pod that is told to the watch tells no more crashes than there
\* were, if the history counts the pod's own failure.
LEMMA SetPodKeeps ==
    ASSUME SandboxInv, NEW s \in Subs, NEW phase \in Phases,
           SetPod(s, phase), UNCHANGED <<tracker, watch>>,
           crashed' \in [Subs -> Nat], \A u \in Subs : crashed[u] <= crashed'[u],
           phase = "failed" => crashed'[s] >= 1,
           call' \in [Calls -> CallRecords]
    PROVE  SandboxInv'
<1> USE DEF SandboxInv
<1> DEFINE n == podCrashes(IF phase = None THEN pod[s] ELSE phase)
<1>1. n \in {0, 1} /\ n <= crashed'[s]
  BY DEF podCrashes, SandboxTypeOK, CrashesAreReal, None, Phases
<1>2. events' = events \/ events' = Append(events, <<s, n>>)
  BY DEF SetPod
<1>3. pod' = [pod EXCEPT ![s] = phase]
  BY DEF SetPod
<1> HIDE DEF n
<1>4. events' \in Seq(Told)
  <2>1. <<s, n>> \in Told
    BY <1>1 DEF Told
  <2>2. PICK e \in Told : events' = events \/ events' = Append(events, e)
    BY <1>2, <2>1
  <2>3. events \in Seq(Told)
    BY DEF SandboxTypeOK
  <2> HIDE DEF SandboxInv
  <2> QED
    BY <2>2, <2>3
<1>5. \A k \in 1 .. Len(events') : events'[k][2] <= crashed'[events'[k][1]]
  <2>1. \A k \in 1 .. Len(events) :
            /\ events[k][1] \in Subs /\ events[k][2] \in {0, 1}
            /\ events[k][2] <= crashed'[events[k][1]]
    <3>1. \A k \in 1 .. Len(events) : events[k][1] \in Subs /\ events[k][2] \in {0, 1}
      BY DEF SandboxTypeOK, Told
    <3>2. \A u \in Subs : crashed[u] \in Nat /\ crashed'[u] \in Nat
      BY DEF SandboxTypeOK
    <3> QED
      BY <3>1, <3>2 DEF CrashesAreReal
  <2>2. CASE events' = events
    BY <2>1, <2>2
  <2>3. CASE events' = Append(events, <<s, n>>)
    <3>1. \A k \in 1 .. Len(events') : k \in 1 .. Len(events) \/ events'[k] = <<s, n>>
      BY <2>3 DEF SandboxTypeOK
    <3>2. \A k \in 1 .. Len(events) : events'[k] = events[k]
      BY <2>3 DEF SandboxTypeOK
    <3> QED
      BY <1>1, <2>1, <3>1, <3>2
  <2> QED
    BY <1>2, <2>2, <2>3
<1>6. SandboxTypeOK'
  BY <1>3, <1>4 DEF SandboxTypeOK
<1>7. \A u \in Subs : tracker'[u] <= crashed'[u]
  <2>1. \A u \in Subs : tracker[u] \in Int /\ crashed[u] \in Int /\ crashed'[u] \in Int
    BY DEF SandboxTypeOK, NoCount
  <2> QED
    BY <2>1 DEF CrashesAreReal
<1>8. \A u \in Subs : pod'[u] = "failed" => crashed'[u] >= 1
  BY <1>3 DEF SandboxTypeOK, CrashesAreReal
<1> QED
  BY <1>5, <1>6, <1>7, <1>8 DEF CrashesAreReal

\* The same for a change that is no failure.
LEMMA QuietChange ==
    ASSUME SandboxInv, NEW s \in Subs, NEW phase \in {None, "pending", "ready", "succeeded"},
           SetPod(s, phase), UNCHANGED <<tracker, watch, crashed>>,
           \/ UNCHANGED call
           \/ call' \in [Calls -> CallRecords]
    PROVE  SandboxInv'
<1>1. call' \in [Calls -> CallRecords] /\ crashed' \in [Subs -> Nat]
  BY DEF SandboxInv, SandboxTypeOK
<1>2. \A u \in Subs : crashed[u] <= crashed'[u]
  BY DEF SandboxInv, SandboxTypeOK
<1>3. phase \in Phases /\ phase # "failed"
  BY DEF Phases, None
<1> QED
  BY <1>1, <1>2, <1>3, SetPodKeeps

\* Every step of the kubelet, of a handler and of the watch keeps the invariant:
\* a watch that is opened again repeats what it told before.
LEMMA SandboxStep == SandboxInv /\ [Next]_vars => SandboxInv'
<1> SUFFICES ASSUME SandboxInv, [Next]_vars
             PROVE  SandboxInv'
    OBVIOUS
<1> USE DEF SandboxInv
<1>1. ASSUME NEW s \in Subs, PodReady(s) PROVE SandboxInv'
  <2>1. SetPod(s, "ready") /\ UNCHANGED <<call, watch, tracker, crashed>>
    BY <1>1 DEF PodReady
  <2> QED
    BY <2>1, QuietChange
<1>2. ASSUME NEW s \in Subs, PodFailed(s) PROVE SandboxInv'
  <2>1. /\ crashed' \in [Subs -> Nat] /\ crashed'[s] >= 1
        /\ \A u \in Subs : crashed[u] <= crashed'[u]
    BY <1>2 DEF PodFailed, SandboxTypeOK
  <2>2. SetPod(s, "failed") /\ UNCHANGED <<tracker, watch>> /\ call' \in [Calls -> CallRecords]
    BY <1>2 DEF PodFailed, SandboxTypeOK
  <2>3. "failed" \in Phases
    BY DEF Phases
  <2> QED
    BY <2>1, <2>2, <2>3, SetPodKeeps
<1>3. ASSUME NEW s \in Subs, PodSucceeded(s) PROVE SandboxInv'
  <2>1. SetPod(s, "succeeded") /\ UNCHANGED <<call, watch, tracker, crashed>>
    BY <1>3 DEF PodSucceeded
  <2> QED
    BY <2>1, QuietChange
<1>4. ASSUME NEW s \in Subs, StopSandbox(s) PROVE SandboxInv'
  <2>1. SetPod(s, None) /\ UNCHANGED <<call, watch, tracker, crashed>>
    BY <1>4 DEF StopSandbox, Teardown
  <2> QED
    BY <2>1, QuietChange
<1>5. ASSUME NEW c \in Calls, Spawn(c) PROVE SandboxInv'
  <2>1. call' \in [Calls -> CallRecords]
    <3>1. PICK l \in {"waiting", "error"} : call' = [call EXCEPT ![c].step = l]
      BY <1>5 DEF Spawn
    <3> QED
      BY <3>1 DEF SandboxTypeOK, CallRecords
  <2>2. CASE SetPod(call[c].sub, "pending")
    <3>1. call[c].sub \in Subs /\ UNCHANGED <<tracker, watch, crashed>>
      BY <1>5 DEF Spawn, SandboxTypeOK, CallRecords
    <3> QED
      BY <2>1, <2>2, <3>1, QuietChange
  <2>3. CASE UNCHANGED <<pod, events>>
    BY <1>5, <2>1, <2>3 DEF Spawn, SandboxTypeOK, CrashesAreReal
  <2> QED
    BY <1>5, <2>2, <2>3 DEF Spawn
<1>6. ASSUME NEW c \in Calls, waitReady(c) PROVE SandboxInv'
  BY <1>6 DEF waitReady, SandboxTypeOK, CallRecords, CrashesAreReal
<1>7. CASE WatchOpen
  <2> DEFINE pods == {s \in Subs : pod[s] # None}
             n == Cardinality(pods)
  <2>1. n \in Nat
    BY SandboxAssumption, FS_Subset, FS_CardinalityType
  <2>2. PICK order \in [1 .. n -> pods] :
            events' = [i \in 1 .. n |-> <<order[i], podCrashes(pod[order[i]])>>]
    BY <1>7 DEF WatchOpen
  <2> HIDE DEF n
  <2>3. \A i \in 1 .. n : /\ order[i] \in Subs
                          /\ podCrashes(pod[order[i]]) \in {0, 1}
                          /\ podCrashes(pod[order[i]]) <= crashed[order[i]]
    <3>1. ASSUME NEW s \in Subs
          PROVE  podCrashes(pod[s]) \in {0, 1} /\ podCrashes(pod[s]) <= crashed[s]
      <4>1. crashed[s] \in Nat /\ (pod[s] = "failed" => crashed[s] >= 1)
        BY DEF SandboxTypeOK, CrashesAreReal
      <4> QED
        BY <4>1 DEF podCrashes
    <3>2. \A i \in 1 .. n : order[i] \in Subs
      BY <2>2
    <3> QED
      BY <3>1, <3>2, Zenon
  <2>4. UNCHANGED <<call, pod, tracker, crashed>>
    BY <1>7 DEF WatchOpen
  <2>5. events' \in Seq(Told) /\ Len(events') = n
    BY <2>1, <2>2, <2>3 DEF Told
  <2>6. \A k \in 1 .. Len(events') : events'[k][2] <= crashed'[events'[k][1]]
    BY <2>2, <2>3, <2>4, <2>5
  <2> QED
    BY <2>4, <2>5, <2>6 DEF SandboxTypeOK, CrashesAreReal
<1>8. CASE Observe
  <2>1. PICK e \in Told : e = Head(events) /\ e[2] <= crashed[e[1]]
    BY <1>8 DEF Observe, SandboxTypeOK, CrashesAreReal
  <2>2. /\ tracker' = [tracker EXCEPT ![e[1]] = IF e[1] \in Unlabelled THEN @ ELSE e[2]]
        /\ e[1] \in Subs /\ e[2] \in {0, 1}
    BY <1>8, <2>1 DEF Observe, Told
  <2>3. /\ events' = Tail(events) /\ events # <<>>
        /\ UNCHANGED <<call, pod, crashed>>
    BY <1>8 DEF Observe
  <2>4. events' \in Seq(Told)
    BY <2>3 DEF SandboxTypeOK
  <2>5. \A k \in 1 .. Len(events') : events'[k][2] <= crashed'[events'[k][1]]
    BY <2>3 DEF SandboxTypeOK, CrashesAreReal
  <2>6. tracker' \in [Subs -> {NoCount, 0, 1}] /\ \A s \in Subs : tracker'[s] <= crashed'[s]
    BY <2>1, <2>3, <2>2 DEF SandboxTypeOK, CrashesAreReal
  <2> QED
    BY <2>3, <2>4, <2>5, <2>6 DEF SandboxTypeOK, CrashesAreReal
<1>9. CASE WatchDrop
  BY <1>9 DEF WatchDrop, SandboxTypeOK, CrashesAreReal
<1>10. CASE Restart
  <2>1. call' \in [Calls -> CallRecords]
    BY <1>10 DEF Restart, SandboxTypeOK, CallRecords
  <2> QED
    BY <1>10, <2>1 DEF Restart, SandboxTypeOK, CrashesAreReal, NoCount
<1>11. CASE UNCHANGED vars
  BY <1>11 DEF vars, SandboxTypeOK, CrashesAreReal
<1> QED
  BY <1>1, <1>2, <1>3, <1>4, <1>5, <1>6, <1>7, <1>8, <1>9, <1>10, <1>11 DEF Next, RunSandbox

-----------------------------------------------------------------------------
(* The Jobs.                                                               *)

\* Without Jobs the invariant holds.
LEMMA CoordinatorInitHolds == CoordinatorInit => CoordinatorInv
BY DEF CoordinatorInit, CoordinatorInv, CoordinatorTypeOK, PodsHaveTheirJob

\* A Job is its own record, not the absence of one.
LEMMA JobIsThere == ASSUME CoordinatorTypeOK, NEW i \in Benchmarks, job[i] # NoJob
                    PROVE  job[i] \in JobRecords
BY DEF CoordinatorTypeOK

\* A Job whose record changes but stays at its run keeps its pods.
LEMMA JobGoesOn ==
    ASSUME CoordinatorInv, NEW i \in Benchmarks, NEW j \in JobRecords,
           job[i] # NoJob, j.run = job[i].run, job' = [job EXCEPT ![i] = j],
           bots' \subseteq bots, UNCHANGED runs
    PROVE  CoordinatorInv'
<1>1. j # NoJob
  BY DEF JobRecords, NoJob
<1> QED
  BY <1>1 DEF CoordinatorInv, CoordinatorTypeOK, PodsHaveTheirJob

\* Every step of a handler, of the controllers and of the kubelet keeps the
\* invariant: a Job is created where there is none and removed without pods.
LEMMA CoordinatorStep == CoordinatorInv /\ [CoordinatorNext]_coordinatorVars => CoordinatorInv'
<1> SUFFICES ASSUME CoordinatorInv, [CoordinatorNext]_coordinatorVars
             PROVE  CoordinatorInv'
    OBVIOUS
<1> USE DEF CoordinatorInv
<1>1. ASSUME NEW i \in Benchmarks, NEW n \in NumWorkers, NEW timed \in BOOLEAN, Start(i, n, timed)
      PROVE  CoordinatorInv'
  <2>1. CASE UNCHANGED <<job, runs>>
    BY <1>1, <2>1 DEF Start, CoordinatorTypeOK, PodsHaveTheirJob
  <2>2. CASE /\ job[i] = NoJob
             /\ job' = [job EXCEPT ![i] = buildJob(runs[i] + 1, n, timed)]
             /\ runs' = [runs EXCEPT ![i] = @ + 1]
    <3>1. buildJob(runs[i] + 1, n, timed) \in JobRecords
      BY CoordinatorAssumption DEF buildJob, JobRecords, CoordinatorTypeOK
    <3>2. bots' = bots /\ \A p \in bots : p.of # i
      BY <1>1, <2>2 DEF Start, PodsHaveTheirJob
    <3> QED
      BY <2>2, <3>1, <3>2 DEF CoordinatorTypeOK, PodsHaveTheirJob
  <2> QED
    BY <1>1, <2>1, <2>2 DEF Start
<1>2. ASSUME NEW i \in Benchmarks, Stop(i) PROVE CoordinatorInv'
  <2>1. job[i] \in JobRecords
    BY <1>2, JobIsThere DEF Stop
  <2>2. [job[i] EXCEPT !.deleting = TRUE] \in JobRecords
    BY <2>1 DEF JobRecords
  <2>3. [job[i] EXCEPT !.deleting = TRUE].run = job[i].run
    BY <2>1 DEF JobRecords
  <2>4. job' = [job EXCEPT ![i] = [job[i] EXCEPT !.deleting = TRUE]]
    BY <1>2 DEF Stop, CoordinatorTypeOK
  <2> QED
    BY <1>2, <2>2, <2>3, <2>4, JobGoesOn DEF Stop
<1>3. ASSUME NEW i \in Benchmarks, CreatePod(i) PROVE CoordinatorInv'
  <2> DEFINE j == [job[i] EXCEPT !.made = @ + 1]
             p == [of |-> i, run |-> job[i].run, n |-> job[i].made + 1, stopping |-> FALSE]
  <2>1. job[i] \in JobRecords
    BY <1>3, JobIsThere DEF CreatePod
  <2>2. j \in JobRecords /\ j.run = job[i].run
    BY <2>1 DEF JobRecords
  <2>3. job' = [job EXCEPT ![i] = j] /\ UNCHANGED runs
    BY <1>3 DEF CreatePod, CoordinatorTypeOK
  <2>4. bots' = bots \cup {p}
    BY <1>3 DEF CreatePod
  <2>5. p \in [of : Benchmarks, run : Nat, n : Nat, stopping : BOOLEAN]
    BY <2>1 DEF JobRecords
  <2>6. p.of = i /\ p.run = job[i].run
    OBVIOUS
  <2>7. j # NoJob
    BY <2>2 DEF JobRecords, NoJob
  <2> HIDE DEF j, p
  <2> QED
    BY <1>3, <2>2, <2>3, <2>4, <2>5, <2>6, <2>7 DEF CoordinatorTypeOK, PodsHaveTheirJob
<1>4. ASSUME NEW i \in Benchmarks, DeadlinePasses(i) PROVE CoordinatorInv'
  <2>1. job[i] \in JobRecords
    BY <1>4, JobIsThere DEF DeadlinePasses
  <2>2. [job[i] EXCEPT !.done = "failed"] \in JobRecords
    BY <2>1 DEF JobRecords
  <2>3. [job[i] EXCEPT !.done = "failed"].run = job[i].run
    BY <2>1 DEF JobRecords
  <2>4. job' = [job EXCEPT ![i] = [job[i] EXCEPT !.done = "failed"]]
    BY <1>4 DEF DeadlinePasses, CoordinatorTypeOK
  <2> QED
    BY <1>4, <2>2, <2>3, <2>4, JobGoesOn DEF DeadlinePasses
<1>5. ASSUME NEW i \in Benchmarks, TTLPasses(i) PROVE CoordinatorInv'
  <2>1. job[i] \in JobRecords
    BY <1>5, JobIsThere DEF TTLPasses
  <2>2. [job[i] EXCEPT !.deleting = TRUE] \in JobRecords
    BY <2>1 DEF JobRecords
  <2>3. [job[i] EXCEPT !.deleting = TRUE].run = job[i].run
    BY <2>1 DEF JobRecords
  <2>4. job' = [job EXCEPT ![i] = [job[i] EXCEPT !.deleting = TRUE]]
    BY <1>5 DEF TTLPasses, CoordinatorTypeOK
  <2> QED
    BY <1>5, <2>2, <2>3, <2>4, JobGoesOn DEF TTLPasses
<1>6. ASSUME NEW i \in Benchmarks, StopJobPods(i) PROVE CoordinatorInv'
  <2>1. \A q \in bots' : /\ q \in [of : Benchmarks, run : Nat, n : Nat, stopping : BOOLEAN]
                         /\ \E p \in bots : q.of = p.of /\ q.run = p.run
    <3> SUFFICES ASSUME NEW p \in bots
                 PROVE  /\ [p EXCEPT !.stopping = TRUE]
                               \in [of : Benchmarks, run : Nat, n : Nat, stopping : BOOLEAN]
                        /\ [p EXCEPT !.stopping = TRUE].of = p.of
                        /\ [p EXCEPT !.stopping = TRUE].run = p.run
      BY <1>6 DEF StopJobPods, StopPods, CoordinatorTypeOK
    <3>1. p \in [of : Benchmarks, run : Nat, n : Nat, stopping : BOOLEAN]
      BY DEF CoordinatorTypeOK
    <3> QED
      BY <3>1
  <2> QED
    BY <1>6, <2>1 DEF StopJobPods, CoordinatorTypeOK, PodsHaveTheirJob
<1>7. ASSUME NEW i \in Benchmarks, RemoveJob(i) PROVE CoordinatorInv'
  <2>1. \A p \in bots : p.of # i
    BY <1>7 DEF RemoveJob, PodsOf, PodsHaveTheirJob
  <2> QED
    BY <1>7, <2>1 DEF RemoveJob, CoordinatorTypeOK, PodsHaveTheirJob
<1>8. ASSUME NEW p \in bots, PodEnds(p) PROVE CoordinatorInv'
  <2>1. PICK ok \in BOOLEAN : job' = [job EXCEPT ![p.of] = Counted(job[p.of], ok)]
    BY <1>8 DEF PodEnds, CoordinatorTypeOK
  <2>2. p.of \in Benchmarks /\ job[p.of] \in JobRecords
    BY <1>8, JobIsThere DEF PodEnds, CoordinatorTypeOK
  <2>3. Counted(job[p.of], ok) \in JobRecords /\ Counted(job[p.of], ok).run = job[p.of].run
    <3> DEFINE j == job[p.of]
               s == j.succeeded + (IF ok THEN 1 ELSE 0)
               f == j.failed + (IF ok THEN 0 ELSE 1)
               d == IF s = j.workers THEN "complete"
                    ELSE IF f > BackoffLimit THEN "failed" ELSE j.done
    <3>1. s \in Nat /\ f \in Nat /\ d \in {"no", "complete", "failed"}
      BY <2>2 DEF JobRecords
    <3>2. Counted(j, ok) = [j EXCEPT !.succeeded = s, !.failed = f, !.done = d]
      BY <2>2 DEF Counted, JobRecords
    <3> HIDE DEF s, f, d
    <3>3. PICK r : r = [j EXCEPT !.succeeded = s, !.failed = f, !.done = d]
      OBVIOUS
    <3>4. r \in JobRecords
      BY <2>2, <3>1, <3>3 DEF JobRecords
    <3>5. r.run = j.run
      BY <2>2, <3>3 DEF JobRecords
    <3> QED
      BY <3>2, <3>3, <3>4, <3>5
  <2> QED
    BY <1>8, <2>1, <2>2, <2>3, JobGoesOn DEF PodEnds
<1>9. CASE Kubelet
  BY <1>9 DEF Kubelet, PodGone, CoordinatorTypeOK, PodsHaveTheirJob
<1>10. CASE UNCHANGED coordinatorVars
  BY <1>10 DEF coordinatorVars, CoordinatorTypeOK, PodsHaveTheirJob
<1> QED
  BY <1>1, <1>2, <1>3, <1>4, <1>5, <1>6, <1>7, <1>8, <1>9, <1>10 DEF CoordinatorNext, Controller

-----------------------------------------------------------------------------
(* The cluster.                                                            *)

\* Both invariants hold in every reachable state of the cluster.
THEOREM ClusterInductive == ClusterSpec => [](SandboxInv /\ CoordinatorInv)
<1>1. ClusterInit => SandboxInv /\ CoordinatorInv
  BY SandboxInit, CoordinatorInitHolds DEF ClusterInit
<1>2. [ClusterNext]_clusterVars => [Next]_vars /\ [CoordinatorNext]_coordinatorVars
  BY DEF ClusterNext, InSandboxes, InBots, clusterVars
<1> QED
  BY <1>1, <1>2, SandboxStep, CoordinatorStep, PTL DEF ClusterSpec

\* However often watches are lost and the runner is restarted, no submission is
\* charged with more crashes than its pods had.
THEOREM ClusterNeverOvercounts == ClusterSpec => []NeverOvercounted
<1>1. SandboxInv => NeverOvercounted
  BY DEF SandboxInv, SandboxTypeOK, CrashesAreReal, NeverOvercounted, Reported, NoCount
<1> QED
  BY <1>1, ClusterInductive, PTL

\* Two runs of a benchmark never have pods at the same time, in whatever order
\* requests, controllers and pods come.
THEOREM ClusterRunsDontOverlap == ClusterSpec => []RunsDontOverlap
<1>1. CoordinatorInv => RunsDontOverlap
  BY DEF CoordinatorInv, PodsHaveTheirJob, RunsDontOverlap
<1> QED
  BY <1>1, ClusterInductive, PTL
=============================================================================
