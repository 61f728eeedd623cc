------------------------------ MODULE ProcessingQueue -----------------------------
(***************************************************************************)
(* The BullMQ job of one workflow execution: the requests that enqueue it, *)
(* the workers that take it, its retries and stalls, the administrators    *)
(* who retry or delete it and the readers of its state.                    *)
(*                                                                         *)
(* The job id is derived from the execution id, so an execution has one    *)
(* job at most, and jobs of other executions only take the workers' time.  *)
(* An attempt at processing is reduced to what WorkflowProcessing shows of *)
(* it: it moves the execution along its lifecycle and ends with an outcome *)
(* that agrees with the database (OutcomeIsTrue), or with an error.        *)
(*                                                                         *)
(* BullMQ itself (locks, stalled checks, delays) is external; it is        *)
(* modelled as the queue options and the calls in src/ rely on it.         *)
(***************************************************************************)
EXTENDS Naturals, FiniteSets

CONSTANTS
    Clients,    \* requests to POST /workflow-executions/:id/process
    Workers,    \* worker processes, each with concurrency 1
    Admins,     \* administrators at the queue dashboard
    Readers,    \* requests to GET /workflow-executions/:id/job or GET /admin/queue/jobs
    Nobody,     \* no holder of the job's lock
    Attempts,   \* defaultJobOptions.attempts
    MaxStalled, \* stalls BullMQ forgives
    MaxAdds,    \* bound: jobs created in a behaviour
    MaxRetries, \* bound: retries by administrators
    MaxExpiries \* bound: locks that expire

ASSUME QueueAssumption ==
    /\ Nobody \notin Workers
    /\ Attempts \in Nat \ {0} /\ MaxStalled \in Nat
    /\ MaxAdds \in Nat /\ MaxRetries \in Nat /\ MaxExpiries \in Nat

VARIABLES
    status,   \* workflow_executions.status
    job,      \* the list of the queue the job is in, "none" when there is no job
    made,     \* job.attemptsMade
    stalls,   \* how often the job stalled
    why,      \* why a failed job failed
    holder,   \* the worker whose lock on the job is valid
    wpc,      \* where each worker stands
    found,    \* the status its attempt read first
    cpc,      \* where each enqueue request stands
    apc,      \* where each administrator stands, after getState
    dpc,      \* where each reader stands, after getJob or after the ids of a list
    report,   \* the state the last answer to a reader gave
    starts,   \* attempts begun
    adds, removals, retries, expiries  \* counters for the bounds and the budget

jobVars    == <<job, made, stalls, why, holder>>
workerVars == <<wpc, found>>
tallies    == <<starts, adds, removals, retries, expiries>>
callers    == <<cpc, apc, dpc, report>>
vars       == <<status, jobVars, workerVars, callers, tallies>>

Statuses  == {"PENDING", "RUNNING", "COMPLETED", "FAILED"}
Terminal  == {"COMPLETED", "FAILED"}
Live      == {"waiting", "active", "delayed"}
Finished  == {"completed", "failed"}
JobStates == {"none"} \cup Live \cup Finished
Outcomes  == {"completed", "failed", "error"}

\* Each variable has its type; a job is never attempted beyond its options and the
\* retries an administrator gave it.
TypeOK ==
    /\ status \in Statuses
    /\ job \in JobStates
    /\ made \in 0 .. Attempts + retries /\ stalls \in Nat
    /\ why \in {"none", "business", "exhausted", "stalled"}
    /\ holder \in Workers \cup {Nobody}
    /\ wpc \in [Workers -> {"idle", "processing"} \cup Outcomes]
    /\ found \in [Workers -> Statuses \cup {"none"}]
    /\ cpc \in [Clients -> {"idle", "checked"}]
    /\ apc \in [Admins -> {"idle", "retry", "delete"}]
    /\ dpc \in [Readers -> {"idle", "got", "listed"}]
    /\ report \in [Readers -> {"none", "not_found", "unknown", "error"} \cup Live \cup Finished]
    /\ starts \in Nat /\ adds \in Nat /\ removals \in Nat /\ retries \in Nat /\ expiries \in Nat

Init ==
    /\ status = "PENDING"
    /\ job = "none" /\ made = 0 /\ stalls = 0 /\ why = "none" /\ holder = Nobody
    /\ wpc = [w \in Workers |-> "idle"]
    /\ found = [w \in Workers |-> "none"]
    /\ cpc = [c \in Clients |-> "idle"]
    /\ apc = [a \in Admins |-> "idle"]
    /\ dpc = [d \in Readers |-> "idle"]
    /\ report = [d \in Readers |-> "none"]
    /\ starts = 0 /\ adds = 0 /\ removals = 0 /\ retries = 0 /\ expiries = 0

-----------------------------------------------------------------------------------
(* Enqueueing: enqueueWorkflowExecutionProcessing. *)

\* findById and the check of the status; anything but PENDING is refused with a 409.
CheckPending(c) ==
    /\ cpc[c] = "idle"
    /\ status = "PENDING"
    /\ cpc' = [cpc EXCEPT ![c] = "checked"]
    /\ UNCHANGED <<status, jobVars, workerVars, apc, dpc, report, tallies>>

\* The job is added without its id: every request starts a job of its own, shown
\* here as the one job started anew (StartsBounded, OverlapNeedsExpiry).
AddJobSlip(c) ==
    /\ cpc[c] = "checked"
    /\ adds < MaxAdds
    /\ cpc' = [cpc EXCEPT ![c] = "idle"]
    /\ job' = "waiting" /\ made' = 0 /\ stalls' = 0 /\ why' = "none" /\ holder' = Nobody
    /\ adds' = adds + 1
    /\ UNCHANGED <<status, workerVars, apc, dpc, report, starts, removals, retries, expiries>>

\* queue.add with the deterministic job id: BullMQ keeps a job that already has
\* it, in whatever list that is.  The request is answered 202 QUEUED either way.
AddJob(c) ==
    /\ cpc[c] = "checked"
    /\ job = "none" => adds < MaxAdds
    /\ cpc' = [cpc EXCEPT ![c] = "idle"]
    /\ IF job = "none"
       THEN /\ job' = "waiting" /\ made' = 0 /\ stalls' = 0 /\ why' = "none" /\ holder' = Nobody
            /\ adds' = adds + 1
       ELSE UNCHANGED <<jobVars, adds>>
    /\ UNCHANGED <<status, workerVars, apc, dpc, report, starts, removals, retries, expiries>>

-----------------------------------------------------------------------------------
(* Working: createWorkflowProcessingWorker. *)

\* An idle worker takes the waiting job and locks it.
TakeJob(w) ==
    /\ wpc[w] = "idle"
    /\ job = "waiting"
    /\ job' = "active"
    /\ holder' = w
    /\ starts' = starts + 1
    /\ wpc' = [wpc EXCEPT ![w] = "processing"]
    /\ UNCHANGED <<status, made, stalls, why, found, callers, adds, removals, retries, expiries>>

\* processWorkflowExecution reads the execution first (findById).
ReadExecution(w) ==
    /\ wpc[w] = "processing"
    /\ found[w] = "none"
    /\ found' = [found EXCEPT ![w] = status]
    /\ UNCHANGED <<status, jobVars, wpc, callers, tallies>>

\* The attempt claims the execution it found PENDING.
ClaimExecution(w) ==
    /\ wpc[w] = "processing"
    /\ found[w] = "PENDING"
    /\ status = "PENDING"
    /\ status' = "RUNNING"
    /\ found' = [found EXCEPT ![w] = "RUNNING"]
    /\ UNCHANGED <<jobVars, wpc, callers, tallies>>

\* The attempt, or one that was faster, or the stale-running recovery brings the
\* RUNNING execution to its end.
EndExecution ==
    /\ status = "RUNNING"
    /\ \/ status' = "FAILED"
       \/ \E w \in Workers :
             wpc[w] = "processing" /\ found[w] = "RUNNING" /\ status' = "COMPLETED"
    /\ UNCHANGED <<jobVars, workerVars, callers, tallies>>

\* processWorkflowExecution returns the end the database has, or throws: for an
\* execution it found ended (409) it always throws, and any statement before, the
\* first read included, may.
AttemptReturns(w) ==
    /\ wpc[w] = "processing"
    /\ \/ wpc' = [wpc EXCEPT ![w] = "error"]
       \/ found[w] = "RUNNING" /\ status = "COMPLETED" /\ wpc' = [wpc EXCEPT ![w] = "completed"]
       \/ found[w] = "RUNNING" /\ status = "FAILED" /\ wpc' = [wpc EXCEPT ![w] = "failed"]
    /\ found' = [found EXCEPT ![w] = "none"]
    /\ UNCHANGED <<status, jobVars, callers, tallies>>

\* The worker's report to BullMQ: the list a failed execution's job goes to
\* and how many attempts it allows.  Without a valid lock the report is refused.
Report(w, failedTo, limit) ==
    /\ wpc[w] \in Outcomes
    /\ wpc' = [wpc EXCEPT ![w] = "idle"]
    /\ IF holder # w THEN UNCHANGED jobVars
       ELSE /\ holder' = Nobody
            /\ made' = made + 1
            /\ \/ wpc[w] = "completed" /\ job' = "completed" /\ why' = "none"
               \/ wpc[w] = "failed" /\ job' = failedTo /\ why' = "business"
               \/ wpc[w] = "error" /\ made' < limit /\ job' = "delayed" /\ why' = why
               \/ wpc[w] = "error" /\ made' >= limit /\ job' = "failed" /\ why' = "exhausted"
            /\ UNCHANGED stalls
    /\ UNCHANGED <<status, found, callers, tallies>>

\* The limit counts the retries and not the first attempt (TypeOK).
SettleOffByOne(w) == Report(w, "failed", Attempts + 1)

\* The result of a FAILED execution is not looked at: the job completes
\* (JobEndIsTrue).
SettleSlip(w) == Report(w, "completed", Attempts)

\* An attempt that throws is never reported: the handler does not await it, and its
\* job stays active under a lock that is renewed (QueuedSettles).
SettleSilent(w) == wpc[w] # "error" /\ Report(w, "failed", Attempts)

\* A FAILED execution is reported as an UnrecoverableError, any other error as one
\* to retry until the attempts are used up.
Settle(w) == Report(w, "failed", Attempts)

-----------------------------------------------------------------------------------
(* What BullMQ does by itself. *)

\* The backoff is over.
DelayElapses ==
    /\ job = "delayed"
    /\ job' = "waiting"
    /\ UNCHANGED <<status, made, stalls, why, holder, workerVars, callers, tallies>>

\* The lock is not renewed in time: the worker is blocked, cut off from Redis, or
\* gone.  Its attempt may still be running.
LockExpires ==
    /\ job = "active" /\ holder # Nobody
    /\ expiries < MaxExpiries
    /\ expiries' = expiries + 1
    /\ holder' = Nobody
    /\ UNCHANGED <<status, job, made, stalls, why, workerVars, callers, starts, adds, removals,
                   retries>>

\* The worker process dies with its attempt; the lock it may hold then expires.
WorkerDies(w) ==
    /\ wpc[w] # "idle"
    /\ expiries < MaxExpiries
    /\ expiries' = expiries + 1
    /\ wpc' = [wpc EXCEPT ![w] = "idle"]
    /\ found' = [found EXCEPT ![w] = "none"]
    /\ holder' = IF holder = w THEN Nobody ELSE holder
    /\ UNCHANGED <<status, job, made, stalls, why, callers, starts, adds, removals, retries>>

\* The stalled check: an active job without a lock waits again, or fails when it
\* has stalled too often.
StalledCheck ==
    /\ job = "active" /\ holder = Nobody
    /\ stalls' = stalls + 1
    /\ IF stalls + 1 > MaxStalled THEN job' = "failed" /\ why' = "stalled"
                                  ELSE job' = "waiting" /\ why' = why
    /\ UNCHANGED <<status, made, holder, workerVars, callers, tallies>>

-----------------------------------------------------------------------------------
(* The dashboard: retryJob and deleteJob each read the state, then act. *)

CheckFailed(a) ==
    /\ apc[a] = "idle"
    /\ job = "failed"
    /\ apc' = [apc EXCEPT ![a] = "retry"]
    /\ UNCHANGED <<status, jobVars, workerVars, cpc, dpc, report, tallies>>

\* job.retry moves a job that is still failed back to waiting, its attempts kept,
\* and throws for any other.
RetryJob(a) ==
    /\ apc[a] = "retry"
    /\ retries < MaxRetries
    /\ apc' = [apc EXCEPT ![a] = "idle"]
    /\ IF job = "failed"
       THEN job' = "waiting" /\ why' = "none" /\ retries' = retries + 1
       ELSE UNCHANGED <<job, why, retries>>
    /\ UNCHANGED <<status, made, stalls, holder, workerVars, cpc, dpc, report, starts, adds,
                   removals, expiries>>

CheckDeletable(a) ==
    /\ apc[a] = "idle"
    /\ job \in Finished
    /\ apc' = [apc EXCEPT ![a] = "delete"]
    /\ UNCHANGED <<status, jobVars, workerVars, cpc, dpc, report, tallies>>

\* job.remove takes the job of that id out of whatever list it is in by now; it
\* refuses only a job that is locked.
DeleteJob(a) ==
    /\ apc[a] = "delete"
    /\ apc' = [apc EXCEPT ![a] = "idle"]
    /\ IF job # "none" /\ holder = Nobody
       THEN /\ job' = "none" /\ made' = 0 /\ stalls' = 0 /\ why' = "none"
            /\ removals' = removals + 1
       ELSE UNCHANGED <<job, made, stalls, why, removals>>
    /\ UNCHANGED <<status, holder, workerVars, cpc, dpc, report, starts, adds, retries, expiries>>

-----------------------------------------------------------------------------------
(* getWorkflowExecutionProcessingJobStatus reads the job, then asks its state. *)

GetJob(d) ==
    /\ dpc[d] = "idle"
    /\ IF job = "none" THEN report' = [report EXCEPT ![d] = "not_found"] /\ UNCHANGED dpc
                       ELSE dpc' = [dpc EXCEPT ![d] = "got"] /\ UNCHANGED report
    /\ UNCHANGED <<status, jobVars, workerVars, cpc, apc, tallies>>

\* getState answers "unknown" for a job that is in no list.
GetState(d) ==
    /\ dpc[d] = "got"
    /\ dpc' = [dpc EXCEPT ![d] = "idle"]
    /\ report' = [report EXCEPT ![d] = IF job = "none" THEN "unknown" ELSE job]
    /\ UNCHANGED <<status, jobVars, workerVars, cpc, apc, tallies>>

-----------------------------------------------------------------------------------
(* listJobs: getJobs reads the ids of one list, then each job by its id. *)

ListIds(d) ==
    /\ dpc[d] = "idle"
    /\ job # "none"
    /\ dpc' = [dpc EXCEPT ![d] = "listed"]
    /\ UNCHANGED <<status, jobVars, workerVars, cpc, apc, report, tallies>>

\* A job that is gone by now is undefined, and formatJob cannot read it: a 500.  The
\* state shown is that of the list, whatever the job is by now.
FetchJobs(d) ==
    /\ dpc[d] = "listed"
    /\ dpc' = [dpc EXCEPT ![d] = "idle"]
    /\ report' = [report EXCEPT ![d] = IF job = "none" THEN "error" ELSE "none"]
    /\ UNCHANGED <<status, jobVars, workerVars, cpc, apc, tallies>>

-----------------------------------------------------------------------------------
WorkerStep(w) == ReadExecution(w) \/ AttemptReturns(w) \/ Settle(w)

Next ==
    \/ \E c \in Clients : CheckPending(c) \/ AddJob(c)
    \/ \E w \in Workers : TakeJob(w) \/ ClaimExecution(w) \/ WorkerStep(w) \/ WorkerDies(w)
    \/ EndExecution \/ DelayElapses \/ LockExpires \/ StalledCheck
    \/ \E a \in Admins : CheckFailed(a) \/ RetryJob(a) \/ CheckDeletable(a) \/ DeleteJob(a)
    \/ \E d \in Readers : GetJob(d) \/ GetState(d) \/ ListIds(d) \/ FetchJobs(d)

Spec == Init /\ [][Next]_vars

\* Workers go on (an attempt ends, see AttemptsEnd of WorkflowProcessing), an idle
\* one takes a waiting job, and BullMQ's timers run.  Nobody is obliged to
\* enqueue, retry, delete or look, and no worker to succeed.
FairSpec ==
    /\ Spec
    /\ \A w \in Workers : WF_vars(WorkerStep(w))
    /\ WF_vars(\E w \in Workers : TakeJob(w))
    /\ WF_vars(DelayElapses) /\ WF_vars(StalledCheck)

-----------------------------------------------------------------------------------
(* What holds in every state. *)

\* A job ends as completed only over a COMPLETED execution and for a business
\* failure only over a FAILED one, and so does every answer of the status endpoint,
\* whatever attempts outlived their lock; "unknown" there, and an error of the
\* dashboard's list, are about a job that an administrator has deleted
\* (createWorkflowProcessingWorker, getWorkflowExecutionProcessingJobStatus, listJobs).
JobEndIsTrue ==
    /\ job = "completed" => status = "COMPLETED"
    /\ job = "failed" /\ why = "business" => status = "FAILED"
    /\ \A d \in Readers :
          /\ report[d] = "completed" => status = "COMPLETED"
          /\ report[d] \in {"unknown", "error"} => removals > 0

\* However often the execution is enqueued, it is attempted at most as often as
\* the options allow for each job, one stall and each retry by an administrator
\* on top: requests alone never buy attempts (buildWorkflowProcessingJobId).
StartsBounded == starts <= (Attempts + MaxStalled) * (1 + removals) + retries

\* Two attempts run at once only after a lock expired: neither duplicate
\* requests, nor retries, nor a deletion and a new job are enough
\* (buildWorkflowProcessingJobId, concurrency 1).
OverlapNeedsExpiry == Cardinality({w \in Workers : wpc[w] # "idle"}) <= 1 + expiries

(* What must happen. *)

\* A job that was queued does not hang: it completes, fails or is deleted,
\* though attempts fail, locks expire and workers die.
QueuedSettles == job \in Live ~> job \notin Live

(* What the documentation says and the code does not do. *)

\* docs/api.md: an accepted request for an execution that is still PENDING creates
\* a job, and a worker consumes it later.
QueuedIsLive ==
    [][ \A c \in Clients :
          cpc[c] = "checked" /\ cpc'[c] = "idle" /\ status = "PENDING" => job' \in Live ]_vars

===================================================================================
