------------------------- MODULE SubmissionPipeline -------------------------
(***************************************************************************)
(* services/submission-svc: HTTP handlers store an upload, persist a row   *)
(* and enqueue a build; one worker builds, pushes and scans the image and  *)
(* starts the sandbox; main stops both on SIGTERM. Rows live in Postgres,  *)
(* the queue in memory.                                                    *)
(***************************************************************************)
EXTENDS Naturals, Sequences, FiniteSets

CONSTANTS
    Subs,           \* ids of submissions, one per POST
    NoJob,          \* the worker has no job
    QueueCap,       \* capacity of BuildKit.queue
    PushAttempts,
    MaxFaults       \* bound: failed store calls and process ends

ASSUME PipelineAssumption ==
    /\ NoJob \notin Subs
    /\ QueueCap \in Nat \ {0}
    /\ PushAttempts \in Nat \ {0}
    /\ MaxFaults \in Nat

VARIABLES
    scanner,    \* Config.Scanner # nil: TRIVY_ENABLED=true and trivy on PATH
    req,        \* createSubmission of each id: its step, then its answer
    row,        \* status of the row of each id
    registry,   \* images pushed
    clean,      \* images that passed the scan
    pods,       \* submissions whose sandbox was started
    queue,
    worker,     \* Run's goroutine: [pc, job, attempt, ctx]
    main,       \* program counter of main
    faults,
    lost        \* history: why a submission's job was dropped, "no" if it was not

http == <<req>>
images == <<scanner, registry, clean>>
vars == <<scanner, req, row, registry, clean, pods, queue, worker, main, faults, lost>>

Idle == [pc |-> "idle", job |-> NoJob, attempt |-> 0, ctx |-> "live"]

\* Steps of process that run under its context.
Building == {"extract", "build", "push", "scan", "sandbox"}
Settled(s) == row[s] \in {"ready", "build_failed"}
InFlight == {s \in Subs : req[s] \in {"stored", "created"}}

Init ==
    /\ scanner \in BOOLEAN
    /\ req = [s \in Subs |-> "none"]
    /\ row = [s \in Subs |-> "none"]
    /\ registry = {}
    /\ clean = {}
    /\ pods = {}
    /\ queue = <<>>
    /\ worker = Idle
    /\ main = "serving"
    /\ faults = 0
    /\ lost = [s \in Subs |-> "no"]

Fault ==
    /\ faults < MaxFaults
    /\ faults' = faults + 1

Up == main \in {"serving", "draining", "cancelled"}

-----------------------------------------------------------------------------
(* createSubmission.                                                       *)

\* The upload is refused (400, 413), fails (500) or is in object storage.
Upload(s) ==
    /\ main = "serving"
    /\ req[s] = "none"
    /\ \E a \in {"400", "500", "stored"} : req' = [req EXCEPT ![s] = a]
    /\ UNCHANGED <<row, images, pods, queue, worker, main, faults, lost>>

\* Submissions.Create.
CreateRow(s) ==
    /\ Up
    /\ req[s] = "stored"
    /\ \/ /\ req' = [req EXCEPT ![s] = "created"]
          /\ row' = [row EXCEPT ![s] = "uploaded"]
          /\ UNCHANGED faults
       \/ /\ Fault
          /\ req' = [req EXCEPT ![s] = "500"]
          /\ UNCHANGED row
    /\ UNCHANGED <<images, pods, queue, worker, main, lost>>

\* Builder.Enqueue never blocks: a full queue is answered 503 and the row
\* stays behind as uploaded.
Enqueue(s) ==
    /\ Up
    /\ req[s] = "created"
    /\ \/ /\ Len(queue) < QueueCap
          /\ queue' = Append(queue, s)
          /\ req' = [req EXCEPT ![s] = "202"]
       \/ /\ Len(queue) >= QueueCap
          /\ req' = [req EXCEPT ![s] = "503"]
          /\ UNCHANGED queue
    /\ UNCHANGED <<row, images, pods, worker, main, faults, lost>>

-----------------------------------------------------------------------------
(* Run and process.                                                        *)

Goto(l) == worker' = [worker EXCEPT !.pc = l]

\* process returns.
Return == worker' = Idle

\* The store failed: process gives up on the job.
Drop ==
    /\ Fault
    /\ lost' = [lost EXCEPT ![worker.job] = "store"]
    /\ Return

\* Mutant: the job stays at the head of the queue.
TakeJob_Peek ==
    /\ Up
    /\ worker.pc = "idle"
    /\ queue # <<>>
    /\ worker' = [pc |-> "get", job |-> Head(queue), attempt |-> 1,
                  ctx |-> IF main = "cancelled" THEN "done" ELSE "live"]
    /\ UNCHANGED <<http, row, images, pods, queue, main, faults, lost>>

\* The select of Run takes a job, even when the root context is done: a
\* select with two ready cases picks either.
TakeJob ==
    /\ Up
    /\ worker.pc = "idle"
    /\ queue # <<>>
    /\ queue' = Tail(queue)
    /\ worker' = [pc |-> "get", job |-> Head(queue), attempt |-> 1,
                  ctx |-> IF main = "cancelled" THEN "done" ELSE "live"]
    /\ UNCHANGED <<http, row, images, pods, main, faults, lost>>

StopWorker ==
    /\ main = "cancelled"
    /\ worker.pc = "idle"
    /\ Goto("stopped")
    /\ UNCHANGED <<http, row, images, pods, queue, main, faults, lost>>

\* repo.Get answers "not found" for any error.
GetRow ==
    /\ Up
    /\ worker.pc = "get"
    /\ \/ /\ Goto("mark")
          /\ UNCHANGED <<faults, lost>>
       \/ Drop
    /\ UNCHANGED <<http, row, images, pods, queue, main>>

MarkBuilding ==
    /\ Up
    /\ worker.pc = "mark"
    /\ \/ /\ row' = [row EXCEPT ![worker.job] = "building"]
          /\ Goto("extract")
          /\ UNCHANGED <<faults, lost>>
       \/ /\ Drop
          /\ UNCHANGED row
    /\ UNCHANGED <<http, images, pods, queue, main>>

\* dockerfileFor, downloadAndExtract and docker build: any may fail, and
\* does once the context is done.
Compile ==
    /\ Up
    /\ \/ /\ worker.pc = "extract" /\ worker.ctx = "live"
          /\ Goto("build")
       \/ /\ worker.pc = "build" /\ worker.ctx = "live"
          /\ Goto("push")
       \/ /\ worker.pc \in {"extract", "build"}
          /\ Goto("fail")
    /\ UNCHANGED <<http, row, images, pods, queue, main, faults, lost>>

\* pushWithRetry.
Push ==
    /\ Up
    /\ worker.pc = "push"
    /\ \/ /\ worker.ctx = "live"
          /\ registry' = registry \cup {worker.job}
          /\ Goto("scan")
       \/ /\ worker.ctx = "live" /\ worker.attempt < PushAttempts
          /\ worker' = [worker EXCEPT !.attempt = @ + 1]
          /\ UNCHANGED registry
       \/ /\ worker.ctx = "done" \/ worker.attempt = PushAttempts
          /\ Goto("fail")
          /\ UNCHANGED registry
    /\ UNCHANGED <<http, row, scanner, clean, pods, queue, main, faults, lost>>

\* Mutant: a finding of the scanner is logged and the image used.
Scan_Ignored ==
    /\ Up
    /\ worker.pc = "scan"
    /\ \/ /\ scanner /\ worker.ctx = "live"
          /\ clean' = clean \cup {worker.job}
       \/ UNCHANGED clean
    /\ Goto("ready")
    /\ UNCHANGED <<http, row, scanner, registry, pods, queue, main, faults, lost>>

\* After the push: without a scanner the image goes on, even under a context
\* that is done; a scanner passes it or finds, or fails on, something.
Scan ==
    /\ Up
    /\ worker.pc = "scan"
    /\ \/ /\ ~ scanner
          /\ Goto("ready")
          /\ UNCHANGED clean
       \/ /\ scanner /\ worker.ctx = "live"
          /\ clean' = clean \cup {worker.job}
          /\ Goto("ready")
       \/ /\ scanner
          /\ Goto("fail")
          /\ UNCHANGED clean
    /\ UNCHANGED <<http, row, scanner, registry, pods, queue, main, faults, lost>>

\* Mutant: a cancelled build returns without marking its row.
MarkFailed_NotWhenCancelled ==
    /\ Up
    /\ worker.pc = "fail"
    /\ \/ /\ row' = [row EXCEPT ![worker.job] = IF worker.ctx = "live" THEN "build_failed" ELSE @]
          /\ Return
          /\ UNCHANGED <<faults, lost>>
       \/ /\ Drop
          /\ UNCHANGED row
    /\ UNCHANGED <<http, images, pods, queue, main>>

\* UpdateStatus has a context of its own, so a cancelled build is marked too;
\* its error is ignored.
MarkFailed ==
    /\ Up
    /\ worker.pc = "fail"
    /\ \/ /\ row' = [row EXCEPT ![worker.job] = "build_failed"]
          /\ Return
          /\ UNCHANGED <<faults, lost>>
       \/ /\ Drop
          /\ UNCHANGED row
    /\ UNCHANGED <<http, images, pods, queue, main>>

MarkReady ==
    /\ Up
    /\ worker.pc = "ready"
    /\ \/ /\ row' = [row EXCEPT ![worker.job] = "ready"]
          /\ Goto("sandbox")
          /\ UNCHANGED <<faults, lost>>
       \/ /\ Drop
          /\ UNCHANGED row
    /\ UNCHANGED <<http, images, pods, queue, main>>

\* sandbox.Start: an error is only logged, and a request whose answer is lost
\* may have created the pod all the same.
StartSandbox ==
    /\ Up
    /\ worker.pc = "sandbox"
    /\ \/ pods' = pods \cup {worker.job}
       \/ UNCHANGED pods
    /\ Return
    /\ UNCHANGED <<http, row, images, queue, main, faults, lost>>

\* buildTimeout expires.
BuildTimeout ==
    /\ Up
    /\ worker.pc \in Building
    /\ worker.ctx = "live"
    /\ worker' = [worker EXCEPT !.ctx = "done"]
    /\ UNCHANGED <<http, row, images, pods, queue, main, faults, lost>>

-----------------------------------------------------------------------------
(* main.                                                                   *)

Signal ==
    /\ main = "serving"
    /\ Fault
    /\ main' = "draining"
    /\ UNCHANGED <<http, row, images, pods, queue, worker, lost>>

\* httpServer.Shutdown returned, with the handlers done or after 30 s; the
\* root context is cancelled and with it the context of the build.
CancelRoot ==
    /\ main = "draining"
    /\ main' = "cancelled"
    /\ worker' = [worker EXCEPT !.ctx = "done"]
    /\ UNCHANGED <<http, row, images, pods, queue, faults, lost>>

\* The process ends: jobs that are not settled are gone.
End(m) ==
    /\ main' = m
    /\ lost' = [s \in Subs |->
                   IF lost[s] = "no" /\ row[s] # "none" /\ ~ Settled(s) THEN m ELSE lost[s]]
    /\ UNCHANGED <<row, images, pods, queue, worker>>

\* main returns after the worker has.
ExitDrained ==
    /\ main = "cancelled"
    /\ worker.pc = "stopped"
    /\ End("exited")
    /\ UNCHANGED <<http, faults>>

\* The drain timed out after 30 s, or the process was killed.
Kill ==
    /\ Up
    /\ Fault
    /\ End("killed")
    /\ UNCHANGED http

\* A new process, with an empty queue and the rows of the old one. Clients
\* of unanswered requests see a broken connection.
Restart ==
    /\ main \in {"exited", "killed"}
    /\ main' = "serving"
    /\ queue' = <<>>
    /\ worker' = Idle
    /\ req' = [s \in Subs |-> IF s \in InFlight THEN "broken" ELSE req[s]]
    /\ UNCHANGED <<row, images, pods, faults, lost>>

Worker ==
    \/ TakeJob \/ StopWorker \/ GetRow \/ MarkBuilding \/ Compile \/ Push \/ Scan
    \/ MarkFailed \/ MarkReady \/ StartSandbox

Request(s) == Upload(s) \/ CreateRow(s) \/ Enqueue(s)

Next ==
    \/ \E s \in Subs : Request(s)
    \/ Worker
    \/ BuildTimeout
    \/ Signal \/ CancelRoot \/ ExitDrained \/ Kill \/ Restart

Spec == Init /\ [][Next]_vars

\* The worker runs: every step of a build ends, at the latest when the build
\* timeout cancels its context. An orderly shutdown goes on.
FairSpec ==
    /\ Spec
    /\ WF_vars(Worker)
    /\ WF_vars(CancelRoot \/ ExitDrained)

-----------------------------------------------------------------------------
(* Properties.                                                             *)

\* A row says ready only when its image was pushed and, in a deployment that
\* configures a scanner (the default does not), passed the scan; and only a
\* submission whose row says ready has a sandbox. So it is whatever failed or
\* was cancelled on the way and however often the process was restarted.
OnlyScannedImagesRun ==
    /\ \A s \in Subs : row[s] = "ready" => s \in registry /\ (scanner => s \in clean)
    /\ \A s \in pods : row[s] = "ready"

\* No build is run twice: a job is in the queue or in the worker at most once
\* and never after its row is settled, so a settled row stays settled.
SettledStaysSettled ==
    [][\A s \in Subs : Settled(s) => row'[s] = row[s]]_vars

\* Every accepted submission is built or marked failed, unless the store
\* failed or the process ended while its job was in memory.
AcceptedSettles ==
    \A s \in Subs : (req[s] = "202") ~> (Settled(s) \/ lost[s] # "no")
=============================================================================
