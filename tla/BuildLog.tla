------------------------------ MODULE BuildLog ------------------------------
(***************************************************************************)
(* The build log of one submission and the page that follows it.           *)
(*                                                                         *)
(* Server: the build worker appends lines to a bounded buffer              *)
(* (submission-svc internal/buildlog/buffer.go, internal/build/buildkit.go)*)
(* and GET /submissions/{id}/logs?since= returns the newer ones.           *)
(*                                                                         *)
(* Page (web/app/hooks/useSubmission.ts): an interval timer starts a poll  *)
(* whether or not the one before has ended.  A poll makes up to three      *)
(* requests: log lines, status and, when the status is final, log lines    *)
(* once more.  Between a request and its answer other callbacks run.       *)
(*                                                                         *)
(* A line is its sequence number.                                          *)
(***************************************************************************)
EXTENDS Naturals, SequencesExt

CONSTANTS
    MaxLines,    \* maxLines: lines the buffer keeps
    MaxOutput,   \* bound: lines of docker output
    MaxPolls,    \* bound: poll callbacks under way at a time
    MaxFailures  \* bound: requests of the page that fail

\* NewBuffer replaces a limit that is not positive.
ASSUME LogAssumption ==
    /\ MaxLines \in Nat \ {0}
    /\ MaxOutput \in Nat /\ MaxPolls \in Nat /\ MaxFailures \in Nat

VARIABLES
    status,      \* the status of the submission's row
    worker,      \* program counter of the worker's process
    log,         \* Buffer.lines of the submission
    seq,         \* Buffer.seq of the submission
    timer,       \* the interval timer: "none", "set" or "cleared"
    cursor,      \* lastSeqRef
    shown,       \* the lines on the page, as a set
    polls,       \* the polls under way: program counter, arguments and answer
    failures

serverVars == <<status, worker, log, seq>>
pageVars == <<timer, cursor, shown>>
logVars == <<status, worker, log, seq, timer, cursor, shown, polls, failures>>

\* The row is stored and the job queued; the page has not had its 202 yet.
LogInit ==
    /\ status = "uploaded"
    /\ worker = "queued"
    /\ log = <<>>
    /\ seq = 0
    /\ timer = "none"
    /\ cursor = 0
    /\ shown = {}
    /\ polls = {}
    /\ failures = 0

-----------------------------------------------------------------------------
(* The build worker.                                                       *)

\* Buffer.Append: number the line, keep the last MaxLines.
AppendLine ==
    LET cur == Append(log, seq + 1)
    IN  /\ seq' = seq + 1
        /\ log' = IF Len(cur) > MaxLines THEN SubSeq(cur, Len(cur) - MaxLines + 1, Len(cur)) ELSE cur

\* process: the row becomes building and "Build started" is appended, or the
\* store refuses the write and the job is dropped.
StartBuild ==
    /\ worker = "queued"
    /\ \/ status' = "building" /\ worker' = "running" /\ AppendLine
       \/ worker' = "done" /\ UNCHANGED <<status, log, seq>>
    /\ UNCHANGED <<pageVars, polls, failures>>

\* logWriter.Write of either stream of docker.
Output ==
    /\ worker = "running"
    /\ seq <= MaxOutput
    /\ AppendLine
    /\ UNCHANGED <<status, worker, pageVars, polls, failures>>

\* runBuild failed: the line first, then the row, whose write may be lost.
FailLine ==
    /\ worker = "running"
    /\ AppendLine
    /\ worker' = "failing"
    /\ UNCHANGED <<status, pageVars, polls, failures>>

FailRow ==
    /\ worker = "failing"
    /\ status' \in {"build_failed", status}
    /\ worker' = "done"
    /\ UNCHANGED <<log, seq, pageVars, polls, failures>>

\* runBuild succeeded: the row first, and when that was written, the line.
ReadyRow ==
    /\ worker = "running"
    /\ \/ status' = "ready" /\ worker' = "ready"
       \/ worker' = "done" /\ UNCHANGED status
    /\ UNCHANGED <<log, seq, pageVars, polls, failures>>

ReadyLine ==
    /\ worker = "ready"
    /\ AppendLine
    /\ worker' = "done"
    /\ UNCHANGED <<status, pageVars, polls, failures>>

Build == StartBuild \/ Output \/ FailLine \/ FailRow \/ ReadyRow \/ ReadyLine

-----------------------------------------------------------------------------
(* Requests of the page.                                                   *)

\* A poll callback that asks for something.
Request(what, since) ==
    [at |-> what, since |-> since, lines |-> {}, latest |-> 0, status |-> "none"]

\* A poll goes on as the polls in ps, or ends when there are none.
Becomes(p, ps) == polls' = (polls \ {p}) \cup ps

\* Buffer.Since: the retained lines whose number is after since, as a set.
\* Mutant: since is taken for a position in the slice.
Since_ByIndex(since) ==
    Range(SubSeq(log, since + 1, Len(log)))
Since(since) ==
    {n \in Range(log) : n > since}

\* getSubmissionLogs answers a poll that waits for log lines.
ServeLogs(p) ==
    /\ p.at \in {"logs", "drain"}
    /\ Becomes(p, {[p EXCEPT !.at = IF @ = "logs" THEN "logs answered" ELSE "drain answered",
                             !.lines = Since(p.since),
                             !.latest = seq]})
    /\ UNCHANGED <<serverVars, pageVars, failures>>

\* getSubmission answers a poll that waits for the status.
ServeStatus(p) ==
    /\ p.at = "status"
    /\ Becomes(p, {[p EXCEPT !.at = "status answered", !.status = status]})
    /\ UNCHANGED <<serverVars, pageVars, failures>>

-----------------------------------------------------------------------------
(* Callbacks of the page.                                                  *)

\* The upload is answered: startLivePoll sets the timer.
StartLivePoll ==
    /\ timer = "none"
    /\ timer' = "set"
    /\ UNCHANGED <<serverVars, cursor, shown, polls, failures>>

\* The timer fires: a poll starts with the cursor as it is.
PollTick ==
    /\ timer = "set"
    /\ Cardinality(polls) < MaxPolls
    /\ polls' = polls \cup {Request("logs", cursor)}
    /\ UNCHANGED <<serverVars, pageVars, failures>>

\* The second half of pollLogs: show the lines, move the cursor to latest.
TakeLines(p) ==
    /\ shown' = shown \cup p.lines
    /\ cursor' = IF p.lines # {} THEN p.latest ELSE cursor

\* The status is asked for after the lines.
\* Mutant: two polls that overlap cancel each other's lines.
GotLogs_OnlyNewest(p) ==
    /\ p.at = "logs answered"
    /\ IF \E q \in polls \ {p} : q.at = "logs" THEN UNCHANGED <<shown, cursor>> ELSE TakeLines(p)
    /\ Becomes(p, {Request("status", 0)})
    /\ UNCHANGED <<serverVars, timer, failures>>
GotLogs(p) ==
    /\ p.at = "logs answered"
    /\ TakeLines(p)
    /\ Becomes(p, {Request("status", 0)})
    /\ UNCHANGED <<serverVars, timer, failures>>

\* A final status asks for the rest of the lines.  The page waits for
\* "failed", which the server never says: it writes "build_failed".
GotStatus(p) ==
    /\ p.at = "status answered"
    /\ Becomes(p, IF p.status \in {"ready", "failed"} THEN {Request("drain", cursor)} ELSE {})
    /\ UNCHANGED <<serverVars, pageVars, failures>>

\* The rest is shown and the timer stopped.
GotDrain(p) ==
    /\ p.at = "drain answered"
    /\ TakeLines(p)
    /\ timer' = "cleared"
    /\ Becomes(p, {})
    /\ UNCHANGED <<serverVars, failures>>

\* A request fails.  pollLogs gives up quietly and the poll goes on: to the
\* status, or to stopTimers after a drain.  A lost status ends the poll.
RequestFails(p) ==
    /\ p.at \in {"logs", "status", "drain"}
    /\ failures < MaxFailures
    /\ failures' = failures + 1
    /\ Becomes(p, IF p.at = "logs" THEN {Request("status", 0)} ELSE {})
    /\ timer' = IF p.at = "drain" THEN "cleared" ELSE timer
    /\ UNCHANGED <<serverVars, cursor, shown>>

Serve == \E p \in polls : ServeLogs(p) \/ ServeStatus(p)
Callback == \E p \in polls : GotLogs(p) \/ GotStatus(p) \/ GotDrain(p)

LogNext ==
    \/ Build
    \/ StartLivePoll
    \/ PollTick
    \/ Serve
    \/ Callback
    \/ \E p \in polls : RequestFails(p)

\* The timer fires, the server answers and the browser runs its callbacks.
LogFairness == WF_logVars(PollTick) /\ WF_logVars(Serve) /\ WF_logVars(Callback)

LogSpec == LogInit /\ [][LogNext]_logVars /\ LogFairness

-----------------------------------------------------------------------------
(* Properties.                                                             *)

\* The cursor never passes a line that the buffer still has and the page does
\* not show, although polls overlap, the buffer is trimmed between two of
\* them, requests fail and answers arrive out of order (pollLogs, Since).
NoLineSkipped ==
    \A n \in Range(log) : n <= cursor => n \in shown

\* While the page polls, a line in the buffer is shown in the end, unless it
\* is trimmed first.  (A page that stops polling at "ready" may miss the line
\* "Image ready", which the worker writes after the row.)
LogCatchesUp ==
    \A n \in 1 .. MaxOutput + 2 :
        n \in Range(log) ~> (n \in shown \/ n \notin Range(log) \/ timer # "set")
=============================================================================
