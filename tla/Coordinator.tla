---------------------------- MODULE Coordinator ----------------------------
(***************************************************************************)
(* services/bot-coordinator: POST and DELETE /benchmarks start and stop a  *)
(* benchmark, which is a Kubernetes Job whose name is a function of the    *)
(* benchmark's id.  The coordinator keeps no state of its own; the Job     *)
(* controller, the garbage collector and the kubelets (external) do the    *)
(* rest.  The bot-workers run until they are told to stop.                 *)
(***************************************************************************)
EXTENDS Integers, FiniteSets

CONSTANTS
    Benchmarks,    \* ids the clients use
    NumWorkers,    \* values of num_workers in a request
    BackoffLimit,  \* failed pods after which the Job controller gives up
    MaxRuns,       \* bound: Jobs created per id
    MaxApiFaults   \* bound: calls of the API that fail

\* num_workers is an int of the request body and may be anything.
ASSUME CoordinatorAssumption ==
    /\ NumWorkers \subseteq Int
    /\ BackoffLimit \in Nat /\ MaxRuns \in Nat /\ MaxApiFaults \in Nat

VARIABLES
    job,           \* the Job of each id, or NoJob
    runs,          \* how many Jobs each id has had
    bots,          \* the pods: [of, run, n, stopping]
    stopped,       \* history: the runs <<id, run>> a DELETE was answered 204 for
    apiFaults

coordinatorVars == <<job, runs, bots, stopped, apiFaults>>

NoJob == [run |-> 0]

CoordinatorInit ==
    /\ job = [i \in Benchmarks |-> NoJob]
    /\ runs = [i \in Benchmarks |-> 0]
    /\ bots = {}
    /\ stopped = {}
    /\ apiFaults = 0

PodsOf(i, run) == {p \in bots : p.of = i /\ p.run = run}
ApiFault == apiFaults < MaxApiFaults /\ apiFaults' = apiFaults + 1

-----------------------------------------------------------------------------
(* The coordinator.                                                        *)

\* handleStart and buildJob: at least one worker; a duration becomes a
\* deadline.
buildJob(run, n, timed) ==
    [run |-> run, workers |-> IF n < 1 THEN 1 ELSE n, timed |-> timed,
     made |-> 0, succeeded |-> 0, failed |-> 0, done |-> "no", deleting |-> FALSE]

\* Create succeeds (201), or the name is taken (409), or the call fails (409
\* too), with or without a Job that was created all the same.
Start(i, n, timed) ==
    /\ runs[i] < MaxRuns
    /\ \/ /\ job[i] = NoJob
          /\ job' = [job EXCEPT ![i] = buildJob(runs[i] + 1, n, timed)]
          /\ runs' = [runs EXCEPT ![i] = @ + 1]
          /\ \/ UNCHANGED apiFaults
             \/ ApiFault
       \/ /\ ApiFault
          /\ UNCHANGED <<job, runs>>
    /\ UNCHANGED <<bots, stopped>>

\* Mutant: the Job is deleted at once, its pods after it.
Stop_Background(i) ==
    /\ job[i] # NoJob
    /\ job' = [job EXCEPT ![i] = NoJob]
    /\ bots' = {IF p.of = i THEN [p EXCEPT !.stopping = TRUE] ELSE p : p \in bots}
    /\ stopped' = stopped \cup {<<i, job[i].run>>}
    /\ UNCHANGED <<runs, apiFaults>>

\* Mutant: the Job is deleted and its pods are left.
Stop_Orphan(i) ==
    /\ job[i] # NoJob
    /\ job' = [job EXCEPT ![i] = NoJob]
    /\ stopped' = stopped \cup {<<i, job[i].run>>}
    /\ UNCHANGED <<runs, bots, apiFaults>>

\* Stop: a delete with foreground propagation leaves the Job until its pods
\* are gone.  No such Job, or a call that fails, is a 404.
Stop(i) ==
    /\ job[i] # NoJob
    /\ job' = [job EXCEPT ![i].deleting = TRUE]
    /\ \/ /\ stopped' = stopped \cup {<<i, job[i].run>>}
          /\ UNCHANGED apiFaults
       \/ /\ ApiFault
          /\ UNCHANGED stopped
    /\ UNCHANGED <<runs, bots>>

-----------------------------------------------------------------------------
(* Kubernetes.                                                             *)

\* The Job controller creates a pod while the Job wants more of them.
CreatePod(i) ==
    /\ job[i] # NoJob /\ ~ job[i].deleting /\ job[i].done = "no"
    /\ Cardinality(PodsOf(i, job[i].run)) + job[i].succeeded < job[i].workers
    /\ bots' = bots \cup {[of |-> i, run |-> job[i].run, n |-> job[i].made + 1, stopping |-> FALSE]}
    /\ job' = [job EXCEPT ![i].made = @ + 1]
    /\ UNCHANGED <<runs, stopped, apiFaults>>

\* The Job with one more pod that ended; enough of either kind finish it.
Counted(j, ok) ==
    LET s == j.succeeded + (IF ok THEN 1 ELSE 0)
        f == j.failed + (IF ok THEN 0 ELSE 1)
    IN  [j EXCEPT !.succeeded = s, !.failed = f,
                  !.done = IF s = j.workers THEN "complete" ELSE IF f > BackoffLimit THEN "failed" ELSE @]

StopPods(S) == {IF p \in S THEN [p EXCEPT !.stopping = TRUE] ELSE p : p \in bots}

\* A pod ends by itself: RestartPolicy is Never, so the controller counts it.
PodEnds(p) ==
    /\ ~ p.stopping
    /\ job[p.of] # NoJob /\ job[p.of].run = p.run
    /\ \E ok \in BOOLEAN : job' = [job EXCEPT ![p.of] = Counted(@, ok)]
    /\ bots' = bots \ {p}
    /\ UNCHANGED <<runs, stopped, apiFaults>>

\* ActiveDeadlineSeconds have passed.
DeadlinePasses(i) ==
    /\ job[i] # NoJob /\ job[i].timed /\ job[i].done = "no" /\ ~ job[i].deleting
    /\ job' = [job EXCEPT ![i].done = "failed"]
    /\ UNCHANGED <<runs, bots, stopped, apiFaults>>

\* TTLSecondsAfterFinished have passed: the Job is deleted like by Stop.
TTLPasses(i) ==
    /\ job[i] # NoJob /\ job[i].done # "no" /\ ~ job[i].deleting
    /\ job' = [job EXCEPT ![i].deleting = TRUE]
    /\ UNCHANGED <<runs, bots, stopped, apiFaults>>

\* The pods of a Job that failed or is deleted are told to stop.
StopJobPods(i) ==
    /\ job[i] # NoJob /\ (job[i].deleting \/ job[i].done = "failed")
    /\ \E p \in PodsOf(i, job[i].run) : ~ p.stopping
    /\ bots' = StopPods(PodsOf(i, job[i].run))
    /\ UNCHANGED <<job, runs, stopped, apiFaults>>

\* The worker exits at SIGTERM, or is killed after the grace period.
PodGone(p) ==
    /\ p.stopping
    /\ bots' = bots \ {p}
    /\ UNCHANGED <<job, runs, stopped, apiFaults>>

\* The garbage collector removes a Job that has no pod left.
RemoveJob(i) ==
    /\ job[i] # NoJob /\ job[i].deleting
    /\ PodsOf(i, job[i].run) = {}
    /\ job' = [job EXCEPT ![i] = NoJob]
    /\ UNCHANGED <<runs, bots, stopped, apiFaults>>

Controller(i) == StopJobPods(i) \/ RemoveJob(i)
Kubelet == \E p \in bots : PodGone(p)

CoordinatorNext ==
    \/ \E i \in Benchmarks :
          \/ \E n \in NumWorkers, timed \in BOOLEAN : Start(i, n, timed)
          \/ Stop(i)
          \/ CreatePod(i) \/ DeadlinePasses(i) \/ TTLPasses(i)
          \/ Controller(i)
    \/ \E p \in bots : PodEnds(p)
    \/ Kubelet

-----------------------------------------------------------------------------
(* Properties.                                                             *)

\* A benchmark that is stopped and started again under its id never drives
\* the engine from two runs at once: whatever order requests, pods and the
\* garbage collector come in, the name stays taken until the last pod of the
\* earlier run has gone (Stop's foreground propagation, Start's name).
RunsDontOverlap ==
    \A p, q \in bots : p.of = q.of => p.run = q.run

\* A DELETE that was answered 204 ends the run: its pods go and the id can be
\* used again.
StopEndsTheRun ==
    \A i \in Benchmarks : \A r \in 1 .. MaxRuns :
        (<<i, r>> \in stopped) ~> (PodsOf(i, r) = {} /\ job[i].run # r)
=============================================================================
