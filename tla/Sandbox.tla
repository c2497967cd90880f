------------------------------ MODULE Sandbox ------------------------------
(***************************************************************************)
(* services/sandbox-runner: RunSandbox creates a submission's pod and      *)
(* waits for it to be ready, StopSandbox deletes it, and one goroutine     *)
(* watches the pods of the namespace and keeps their crash counts for the  *)
(* leaderboard. The pods are in the Kubernetes API, the counts in memory.  *)
(***************************************************************************)
EXTENDS Integers, Sequences, FiniteSets

CONSTANTS
    Calls,         \* RunSandbox requests
    Subs,          \* submissions; podName is a function of the submission
    Unlabelled,    \* submissions run without a contestant id
    MaxFaults      \* bound: API errors, dropped watches, restarts of the runner

ASSUME SandboxAssumption == IsFiniteSet(Subs) /\ Unlabelled \subseteq Subs /\ MaxFaults \in Nat

VARIABLES
    call,       \* each RunSandbox request: [step, sub]
    pod,        \* the pod of each submission
    watch,      \* watchCrashesOnce: "down" or "up"
    events,     \* ResultChan of the watch, as pairs <<submission, crashes>>
    tracker,    \* CrashTracker.pods, NoCount where no pod was observed
    crashed,    \* history: pods of each submission that failed
    faults

vars == <<call, pod, watch, events, tracker, crashed, faults>>

None == "none"
NoCount == -1

Init ==
    /\ call \in [Calls -> [step : {"new"}, sub : Subs]]
    /\ pod = [s \in Subs |-> None]
    /\ watch = "down"
    /\ events = <<>>
    /\ tracker = [s \in Subs |-> NoCount]
    /\ crashed = [s \in Subs |-> 0]
    /\ faults = 0

Fault ==
    /\ faults < MaxFaults
    /\ faults' = faults + 1

\* podCrashes: RestartPolicy is Never, so restart counts are 0 and a crash
\* shows as the Failed phase.
podCrashes(phase) == IF phase = "failed" THEN 1 ELSE 0

\* The API changes a pod's phase and tells an open watch. A deletion carries
\* the pod's last state.
SetPod(s, phase) ==
    /\ pod' = [pod EXCEPT ![s] = phase]
    /\ events' = IF watch = "up"
                 THEN Append(events, <<s, podCrashes(IF phase = None THEN pod[s] ELSE phase)>>)
                 ELSE events

-----------------------------------------------------------------------------
(* The pods, as the kubelet runs them.                                     *)

PodReady(s) ==
    /\ pod[s] = "pending"
    /\ SetPod(s, "ready")
    /\ UNCHANGED <<call, watch, tracker, crashed, faults>>

PodFailed(s) ==
    /\ pod[s] \in {"pending", "ready"}
    /\ SetPod(s, "failed")
    /\ crashed' = [crashed EXCEPT ![s] = @ + 1]
    /\ UNCHANGED <<call, watch, tracker, faults>>

\* The contestant's process exits with status 0.
PodSucceeded(s) ==
    /\ pod[s] \in {"pending", "ready"}
    /\ SetPod(s, "succeeded")
    /\ UNCHANGED <<call, watch, tracker, crashed, faults>>

-----------------------------------------------------------------------------
(* The service.                                                            *)

\* Spawn: the name is taken, the API fails, or the pod is created.
Spawn(c) ==
    /\ call[c].step = "new"
    /\ \/ /\ pod[call[c].sub] = None
          /\ SetPod(call[c].sub, "pending")
          /\ call' = [call EXCEPT ![c].step = "waiting"]
          /\ UNCHANGED faults
       \/ /\ pod[call[c].sub] # None
          /\ call' = [call EXCEPT ![c].step = "error"]
          /\ UNCHANGED <<pod, events, faults>>
       \/ /\ Fault
          /\ call' = [call EXCEPT ![c].step = "error"]
          /\ UNCHANGED <<pod, events>>
    /\ UNCHANGED <<watch, tracker, crashed>>

\* waitReady: ready, terminated early, or not ready within ReadinessTimeout
\* (and a failed or closed watch); the pod is left where it is.
waitReady(c) ==
    /\ call[c].step = "waiting"
    /\ \/ /\ pod[call[c].sub] = "ready"
          /\ call' = [call EXCEPT ![c].step = "ok"]
       \/ call' = [call EXCEPT ![c].step = "error"]
    /\ UNCHANGED <<pod, watch, events, tracker, crashed, faults>>

\* Teardown: deleting a pod that is gone is a success too.
Teardown(s) ==
    /\ pod[s] # None
    /\ SetPod(s, None)
    /\ UNCHANGED <<call, watch, tracker, crashed, faults>>

\* watchCrashesOnce: a watch without a resource version begins with an event
\* for every pod there is, in any order.
WatchOpen ==
    /\ watch = "down"
    /\ watch' = "up"
    /\ LET pods == {s \in Subs : pod[s] # None}
           n == Cardinality(pods)
       IN  \E order \in [1 .. n -> pods] :
              /\ \A i, j \in 1 .. n : order[i] = order[j] => i = j
              /\ events' = [i \in 1 .. n |-> <<order[i], podCrashes(pod[order[i]])>>]
    /\ UNCHANGED <<call, pod, tracker, crashed, faults>>

\* Mutant: an observation is added to the count.
Observe_Add ==
    /\ watch = "up"
    /\ events # <<>>
    /\ LET s == Head(events)[1]
           n == Head(events)[2]
       IN  tracker' = [tracker EXCEPT ![s] = IF s \in Unlabelled THEN @
                                             ELSE IF @ = NoCount THEN n ELSE @ + n]
    /\ events' = Tail(events)
    /\ UNCHANGED <<call, pod, watch, crashed, faults>>

\* The loop takes an event; Observe overwrites the pod's count. A pod without
\* a contestant is not counted.
Observe ==
    /\ watch = "up"
    /\ events # <<>>
    /\ LET s == Head(events)[1]
           n == Head(events)[2]
       IN  tracker' = [tracker EXCEPT ![s] = IF s \in Unlabelled THEN @ ELSE n]
    /\ events' = Tail(events)
    /\ UNCHANGED <<call, pod, watch, crashed, faults>>

\* Mutant: an error of the watch ends WatchCrashes.
WatchDrop_ForGood ==
    /\ watch = "up"
    /\ Fault
    /\ watch' = "ended"
    /\ events' = <<>>
    /\ UNCHANGED <<call, pod, tracker, crashed>>

\* The server closes the watch or reports an error: what was not read is
\* lost, and WatchCrashes opens another.
WatchDrop ==
    /\ watch = "up"
    /\ Fault
    /\ watch' = "down"
    /\ events' = <<>>
    /\ UNCHANGED <<call, pod, tracker, crashed>>

\* The runner is started again: the counts are gone, callers that waited get
\* an error, the pods stay.
Restart ==
    /\ Fault
    /\ watch' = "down"
    /\ events' = <<>>
    /\ tracker' = [s \in Subs |-> NoCount]
    /\ call' = [c \in Calls |-> IF call[c].step = "waiting"
                                THEN [call[c] EXCEPT !.step = "error"] ELSE call[c]]
    /\ UNCHANGED <<pod, crashed>>

\* The handlers of the gRPC service.
RunSandbox(c) == Spawn(c) \/ waitReady(c)
StopSandbox(s) == Teardown(s)

Next ==
    \/ \E s \in Subs : PodReady(s) \/ PodFailed(s) \/ PodSucceeded(s) \/ StopSandbox(s)
    \/ \E c \in Calls : RunSandbox(c)
    \/ WatchOpen \/ Observe \/ WatchDrop \/ Restart

Spec == Init /\ [][Next]_vars

\* The watch goroutine runs, and each waitReady ends at its timeout.
FairSpec ==
    /\ Spec
    /\ WF_vars(WatchOpen) /\ WF_vars(Observe)
    /\ \A c \in Calls : WF_vars(waitReady(c))

-----------------------------------------------------------------------------
(* Properties.                                                             *)

\* Report, for a submission that was observed.
Reported(s) == IF tracker[s] = NoCount THEN 0 ELSE tracker[s]

\* A submission is never charged with more crashes than its pods had, although
\* a watch that is opened again, or a runner that is started again, is told of
\* the same failed pod once more.
NeverOvercounted == \A s \in Subs : Reported(s) <= crashed[s]

\* A crash is reported in the end if its pod is not removed first, whatever
\* watches were lost in between.
CrashIsReported ==
    \A s \in Subs \ Unlabelled : (pod[s] = "failed") ~> (Reported(s) > 0 \/ pod[s] # "failed")

\* The comment on CrashTracker: observations are keyed per pod "so that a
\* replaced pod doesn't erase the history of an earlier one".
ReplacedPodKeepsHistory ==
    [][\A s \in Subs : tracker'[s] < tracker[s] => tracker' = [t \in Subs |-> NoCount]]_vars
=============================================================================
