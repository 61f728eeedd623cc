---------------------------- MODULE WorkflowProcessing ----------------------------
(***************************************************************************)
(* One workflow execution of N steps, the attempts of the BullMQ job that  *)
(* processes it, the Jira requests they send, and the stale-running        *)
(* recovery that competes with them.                                       *)
(*                                                                         *)
(* Every action is one statement against PostgreSQL, or one event of an    *)
(* HTTP call to Jira, with the JavaScript that runs up to the next await.  *)
(* An attempt (a call of processWorkflowExecution) keeps the rows it read  *)
(* first, and decides on those copies while the rows move on.              *)
(*                                                                         *)
(* Attempts may overlap: BullMQ hands a job whose lock expired to another  *)
(* worker while the first still runs, so the model lets any idle worker    *)
(* begin an attempt at any time.  The job's own life is not modelled here. *)
(***************************************************************************)
EXTENDS WorkflowState

-----------------------------------------------------------------------------------
(* An attempt: processWorkflowExecution on one worker. *)

\* findById; anything but PENDING and RUNNING is refused with a 409, which
\* BullMQ may retry.
BeginAttempt(w) ==
    /\ pc[w] = "idle"
    /\ attempts < MaxAttempts
    /\ attempts' = attempts + 1
    /\ \/ /\ execStatus = "PENDING"
          /\ Goto(w, "loadPending")
       \/ /\ execStatus = "RUNNING"
          /\ Goto(w, "loadRunning")
       \/ /\ execStatus \in Terminal
          /\ UNCHANGED pc
    /\ outcome' = [outcome EXCEPT ![w] = "none"]
    /\ UNCHANGED <<rows, jira, at, snapStatus, snapOutput, outs, reply, recovery, aborts, audits>>

\* findByExecutionId: the statuses and outputs the whole loop decides on.
LoadSteps(w) ==
    /\ pc[w] \in {"loadPending", "loadRunning"}
    /\ snapStatus' = [snapStatus EXCEPT ![w] = stepStatus]
    /\ snapOutput' = [snapOutput EXCEPT ![w] = stepOutput]
    /\ Goto(w, IF pc[w] = "loadPending" THEN "claimExec" ELSE "claimStep")
    /\ UNCHANGED <<rows, jira, at, outs, reply, outcome, recovery, counters, audits>>

\* claimPendingExecution, only for an attempt that read PENDING; when another
\* attempt was faster it ends with a 409.
ClaimExecution(w) ==
    /\ pc[w] = "claimExec"
    /\ IF execStatus = "PENDING"
       THEN /\ execStatus' = "RUNNING"
            /\ Goto(w, "claimStep")
            /\ UNCHANGED <<at, snapStatus, snapOutput, outs, reply, outcome>>
       ELSE /\ Leave(w, "none")
            /\ UNCHANGED execStatus
    /\ UNCHANGED <<execResult, stepStatus, stepOutput, jira, recovery, counters, audits>>

\* claimPendingStep without "AND status = 'PENDING'" (SingleOwner).
ClaimStepSlip(w) ==
    /\ pc[w] = "claimStep"
    /\ stepStatus' = [stepStatus EXCEPT ![at[w]] = "RUNNING"]
    /\ Goto(w, IF DedupReason(at[w], snapOutput[w][at[w]]) THEN "dedup" ELSE "handle")
    /\ UNCHANGED <<execStatus, execResult, stepOutput, jira, at, snapStatus, snapOutput,
                   outs, reply, outcome, recovery, counters, audits>>

\* claimPendingStep matches the row: this attempt alone runs the step.
ClaimStep(w) ==
    /\ pc[w] = "claimStep"
    /\ stepStatus[at[w]] = "PENDING"
    /\ stepStatus' = [stepStatus EXCEPT ![at[w]] = "RUNNING"]
    /\ Goto(w, IF DedupReason(at[w], snapOutput[w][at[w]]) THEN "dedup" ELSE "handle")
    /\ UNCHANGED <<execStatus, execResult, stepOutput, jira, at, snapStatus, snapOutput,
                   outs, reply, outcome, recovery, counters, audits>>

\* A step that cannot be claimed is skipped as if it were done (CompletedIsWhole).
ClaimNothingSlip(w) ==
    /\ pc[w] = "claimStep"
    /\ stepStatus[at[w]] # "PENDING"
    /\ PushAndAdvance(w, snapOutput[w][at[w]])
    /\ UNCHANGED <<rows, jira, recovery, counters, audits>>

\* claimPendingStep matches no row; what follows depends on the copy read at
\* the start: skip a COMPLETED step, finish on a FAILED one, else throw.
ClaimNothing(w) ==
    /\ pc[w] = "claimStep"
    /\ stepStatus[at[w]] # "PENDING"
    /\ \/ /\ snapStatus[w][at[w]] = "COMPLETED"
          /\ PushAndAdvance(w, snapOutput[w][at[w]])
       \/ /\ snapStatus[w][at[w]] = "FAILED"
          /\ Goto(w, "finishFailed")
          /\ UNCHANGED <<at, snapStatus, snapOutput, outs, reply, outcome>>
       \/ /\ snapStatus[w][at[w]] \in {"PENDING", "RUNNING"}
          /\ Leave(w, "none")
    /\ UNCHANGED <<rows, jira, recovery, counters, audits>>

\* The claimed step already carries the proof of its external operation.
DedupPersist(w) ==
    /\ pc[w] = "dedup"
    /\ UpdateStatus(at[w], "COMPLETED", snapOutput[w][at[w]])
    /\ PushAndAdvance(w, snapOutput[w][at[w]])
    /\ UNCHANGED <<jira, recovery, counters, audits>>

\* The handler of a MANUAL or NOTIFICATION step.
HandleLocal(w) ==
    /\ pc[w] = "handle"
    /\ at[w] \notin External
    /\ Goto(w, "persist")
    /\ UNCHANGED <<rows, jira, at, snapStatus, snapOutput, outs, reply, outcome, recovery,
                   counters, audits>>

\* shouldFail, an unknown action type, an invalid configuration or a disabled
\* integration: a terminal failure before anything is sent.
HandleBusinessFailure(w) ==
    /\ pc[w] = "handle"
    /\ Goto(w, "fail")
    /\ UNCHANGED <<rows, jira, at, snapStatus, snapOutput, outs, reply, outcome, recovery,
                   counters, audits>>

\* The Jira client is missing or not configured: retryable, nothing was sent.
HandleNotReady(w) ==
    /\ pc[w] = "handle"
    /\ at[w] \in External
    /\ Goto(w, "revert")
    /\ UNCHANGED <<rows, jira, at, snapStatus, snapOutput, outs, reply, outcome, recovery,
                   counters, audits>>

\* addCommentToIssue or transitionIssue posts the request.
SendRequest(w) ==
    /\ pc[w] = "handle"
    /\ at[w] \in External
    /\ Goto(w, "sent")
    /\ UNCHANGED <<rows, jira, at, snapStatus, snapOutput, outs, reply, outcome, recovery,
                   counters, audits>>

\* The Jira client's response is not unwrapped, so its id is undefined (TypeOK).
JiraAppliesSlip(w) ==
    /\ pc[w] = "sent"
    /\ effects' = [effects EXCEPT ![at[w]] = @ + 1]
    /\ reply' = [reply EXCEPT ![w] = NoOutput]
    /\ Goto(w, "applied")
    /\ UNCHANGED <<rows, orphans, ambiguous, at, snapStatus, snapOutput, outs, outcome,
                   recovery, counters, audits>>

\* Jira applies the request; the answer is under way.
JiraApplies(w) ==
    /\ pc[w] = "sent"
    /\ effects' = [effects EXCEPT ![at[w]] = @ + 1]
    /\ reply' = [reply EXCEPT ![w] = IF Kind[at[w]] = "JIRA_COMMENT"
                                     THEN effects[at[w]] + 1 ELSE 1]
    /\ Goto(w, "applied")
    /\ UNCHANGED <<rows, orphans, ambiguous, at, snapStatus, snapOutput, outs, outcome,
                   recovery, counters, audits>>

\* Jira rejects the request: JiraBusinessError.
JiraRejects(w) ==
    /\ pc[w] = "sent"
    /\ Goto(w, "fail")
    /\ UNCHANGED <<rows, jira, at, snapStatus, snapOutput, outs, reply, outcome, recovery,
                   counters, audits>>

\* The answer reaches the handler.
JiraReplies(w) ==
    /\ pc[w] = "applied"
    /\ Goto(w, "persist")
    /\ UNCHANGED <<rows, jira, at, snapStatus, snapOutput, outs, reply, outcome, recovery,
                   counters, audits>>

\* A timeout, a lost connection, a 408, a 429 or a 5xx (or a 4xx that is not
\* mapped, see JiraIntegration): JiraTechnicalError.  The request may have been
\* applied, may still be, or never will.
TechnicalFailure(w) ==
    /\ pc[w] \in {"sent", "applied"}
    /\ ambiguous[at[w]] < MaxAmbiguous
    /\ ambiguous' = [ambiguous EXCEPT ![at[w]] = @ + 1]
    /\ orphans' = [orphans EXCEPT ![at[w]] = IF pc[w] = "sent" THEN @ + 1 ELSE @]
    /\ reply' = [reply EXCEPT ![w] = 0]
    /\ Goto(w, "revert")
    /\ UNCHANGED <<rows, effects, at, snapStatus, snapOutput, outs, outcome, recovery,
                   counters, audits>>

\* Jira applies a request that its sender gave up on.
ApplyOrphan(k) ==
    /\ orphans[k] > 0
    /\ orphans' = [orphans EXCEPT ![k] = @ - 1]
    /\ effects' = [effects EXCEPT ![k] = @ + 1]
    /\ UNCHANGED <<rows, ambiguous, attempt, recovery, counters, audits>>

\* The handler's output is persisted with the status COMPLETED.
PersistOutput(w) ==
    /\ pc[w] = "persist"
    /\ UpdateStatus(at[w], "COMPLETED", reply[w])
    /\ PushAndAdvance(w, reply[w])
    /\ UNCHANGED <<jira, recovery, counters, audits>>

\* A database error after the Jira call is treated as retryable (RepeatsAccounted).
PersistErrorSlip(w) ==
    /\ pc[w] = "persist"
    /\ aborts < MaxAborts
    /\ aborts' = aborts + 1
    /\ reply' = [reply EXCEPT ![w] = 0]
    /\ Goto(w, "revert")
    /\ UNCHANGED <<rows, jira, at, snapStatus, snapOutput, outs, outcome, recovery, attempts,
                   audits>>

\* The same statement fails inside the try block: its error is not retryable,
\* so an operation that succeeded is treated as a terminal failure.
PersistError(w) ==
    /\ pc[w] = "persist"
    /\ aborts < MaxAborts
    /\ aborts' = aborts + 1
    /\ reply' = [reply EXCEPT ![w] = 0]
    /\ Goto(w, "fail")
    /\ UNCHANGED <<rows, jira, at, snapStatus, snapOutput, outs, outcome, recovery, attempts,
                   audits>>

\* A retryable failure is swallowed and the loop goes on (StepsInOrder).
RevertStepSlip(w) ==
    /\ pc[w] = "revert"
    /\ UpdateStatus(at[w], "PENDING", NoOutput)
    /\ PushAndAdvance(w, NoOutput)
    /\ UNCHANGED <<jira, recovery, counters, audits>>

\* A retryable failure: the step goes back to PENDING and the error is thrown.
RevertStep(w) ==
    /\ pc[w] = "revert"
    /\ UpdateStatus(at[w], "PENDING", NoOutput)
    /\ Leave(w, "none")
    /\ UNCHANGED <<jira, recovery, counters, audits>>

\* A terminal failure of the step.
FailStep(w) ==
    /\ pc[w] = "fail"
    /\ UpdateStatus(at[w], "FAILED", NoOutput)
    /\ Goto(w, "finishFailed")
    /\ UNCHANGED <<jira, at, snapStatus, snapOutput, outs, reply, outcome, recovery,
                   counters, audits>>

\* finalizeRunningExecution: only an execution that is still RUNNING.  Its result
\* tells the steps done before the one that failed.
FinishFailed(w) ==
    /\ pc[w] = "finishFailed"
    /\ IF execStatus = "RUNNING"
       THEN /\ execStatus' = "FAILED"
            /\ execResult' = outs[w]
            /\ Goto(w, "auditFailed")
       ELSE UNCHANGED <<execStatus, execResult>> /\ Goto(w, "readFinal")
    /\ UNCHANGED <<stepStatus, stepOutput, jira, at, snapStatus, snapOutput, outs, reply,
                   outcome, recovery, counters, audits>>

\* finalizeRunningExecution without "AND status = 'RUNNING'" (FinishedStaysFinished,
\* ImplementsLifecycle).
FinishCompletedUnguarded(w) ==
    /\ pc[w] = "finishCompleted"
    /\ execStatus' = "COMPLETED"
    /\ execResult' = outs[w]
    /\ Goto(w, "auditCompleted")
    /\ UNCHANGED <<stepStatus, stepOutput, jira, at, snapStatus, snapOutput, outs, reply,
                   outcome, recovery, counters, audits>>

\* The attempt audits an end it did not bring about (AuditTellsOneEnd).
FinishCompletedSlip(w) ==
    /\ pc[w] = "finishCompleted"
    /\ IF execStatus = "RUNNING"
       THEN execStatus' = "COMPLETED" /\ execResult' = outs[w]
       ELSE UNCHANGED <<execStatus, execResult>>
    /\ Goto(w, "auditCompleted")
    /\ UNCHANGED <<stepStatus, stepOutput, jira, at, snapStatus, snapOutput, outs, reply,
                   outcome, recovery, counters, audits>>

FinishCompleted(w) ==
    /\ pc[w] = "finishCompleted"
    /\ IF execStatus = "RUNNING"
       THEN /\ execStatus' = "COMPLETED"
            /\ execResult' = outs[w]
            /\ Goto(w, "auditCompleted")
       ELSE UNCHANGED <<execStatus, execResult>> /\ Goto(w, "readFinal")
    /\ UNCHANGED <<stepStatus, stepOutput, jira, at, snapStatus, snapOutput, outs, reply,
                   outcome, recovery, counters, audits>>

\* The terminal audit event, best effort, and the outcome BullMQ is given.
AuditAndReturn(w) ==
    /\ \/ /\ pc[w] = "auditFailed"
          /\ audits' \in {audits, Append(audits, "FAILED")}
          /\ Leave(w, "failed")
       \/ /\ pc[w] = "auditCompleted"
          /\ audits' \in {audits, Append(audits, "COMPLETED")}
          /\ Leave(w, "completed")
    /\ UNCHANGED <<rows, jira, recovery, counters>>

\* The current state is not read back: every late attempt completes the job
\* (OutcomeIsTrue).
ReadFinalSlip(w) ==
    /\ pc[w] = "readFinal"
    /\ Leave(w, "completed")
    /\ UNCHANGED <<rows, jira, recovery, counters, audits>>

\* finalizeConcurrentlyClaimedExecution: the state somebody else left behind.
\* The worker fails the job for a FAILED execution and completes it otherwise.
ReadFinal(w) ==
    /\ pc[w] = "readFinal"
    /\ Leave(w, IF execStatus = "FAILED" THEN "failed" ELSE "completed")
    /\ UNCHANGED <<rows, jira, recovery, counters, audits>>

\* The worker process dies, or a statement outside the try block throws: the
\* rows stay as they are and a request under way is left to itself.
AbortAttempt(w) ==
    /\ pc[w] # "idle"
    /\ aborts < MaxAborts
    /\ aborts' = aborts + 1
    /\ orphans' = IF pc[w] = "sent" THEN [orphans EXCEPT ![at[w]] = @ + 1] ELSE orphans
    /\ Leave(w, "none")
    /\ UNCHANGED <<rows, effects, ambiguous, recovery, attempts, audits>>

-----------------------------------------------------------------------------------
(* A recovery: recoverStaleRunningExecutions for this execution. *)

\* findStaleRunning.  How long ago the execution started is left open: the
\* attempt may be dead or merely slow.
FindStale(r) ==
    /\ rpc[r] = "idle"
    /\ execStatus = "RUNNING"
    /\ GotoR(r, "scan")
    /\ UNCHANGED <<rows, jira, attempt, rtodo, rfound, rlocked, counters, audits>>

\* The RUNNING comment steps whose marker will be searched.
ScanSteps(r) ==
    /\ rpc[r] = "scan"
    /\ rtodo' = [rtodo EXCEPT ![r] =
                    {k \in Steps : stepStatus[k] = "RUNNING" /\ Kind[k] = "JIRA_COMMENT"}]
    /\ GotoR(r, "lookup")
    /\ UNCHANGED <<rows, jira, attempt, rfound, rlocked, counters, audits>>

\* findCommentByExecutionStepMarker: it may miss a comment that exists, and find
\* one that is not the newest, but never invents one (see CommentLookup).
LookupComment(r) ==
    /\ rpc[r] = "lookup"
    /\ \E k \in rtodo[r] :
          /\ \A j \in rtodo[r] : k <= j
          /\ rtodo' = [rtodo EXCEPT ![r] = @ \ {k}]
          /\ \E found \in {NoOutput} \cup 1 .. effects[k] :
                rfound' = [rfound EXCEPT ![r][k] = found]
    /\ UNCHANGED <<rows, jira, attempt, rpc, rlocked, counters, audits>>

\* An execution without RUNNING steps is taken for healthy (RunningEnds).
FailRunningStepsSlip(r) ==
    /\ rpc[r] = "lookup"
    /\ rtodo[r] = {}
    /\ LET running == {k \in Steps : stepStatus[k] = "RUNNING"}
       IN  /\ running # {}
           /\ \A q \in Recoverers : rlocked[q] \cap running = {}
           /\ rlocked' = [rlocked EXCEPT ![r] = running]
    /\ GotoR(r, "commit")
    /\ UNCHANGED <<rows, jira, attempt, rtodo, rfound, counters, audits>>

\* The transaction begins with failRunningByExecutionId: the RUNNING rows are
\* written and locked, unseen by the others until the commit.
FailRunningSteps(r) ==
    /\ rpc[r] = "lookup"
    /\ rtodo[r] = {}
    /\ LET running == {k \in Steps : stepStatus[k] = "RUNNING"}
       IN  /\ \A q \in Recoverers : rlocked[q] \cap running = {}
           /\ rlocked' = [rlocked EXCEPT ![r] = running]
    /\ GotoR(r, "commit")
    /\ UNCHANGED <<rows, jira, attempt, rtodo, rfound, counters, audits>>

\* The recovery takes every RUNNING step for confirmed (OutputIsEvidence).
CommitRecoverySlip(r) ==
    /\ rpc[r] = "commit"
    /\ execStatus = "RUNNING"
    /\ execStatus' = "FAILED"
    /\ stepStatus' = [k \in Steps |-> IF k \in rlocked[r] THEN "COMPLETED" ELSE stepStatus[k]]
    /\ stepOutput' = [k \in Steps |-> IF k \in rlocked[r] THEN rfound[r][k] ELSE stepOutput[k]]
    /\ rlocked' = [rlocked EXCEPT ![r] = {}]
    /\ GotoR(r, "audit")
    /\ UNCHANGED <<execResult, jira, attempt, rtodo, rfound, counters, audits>>

\* failStaleRunning matches: the transaction commits the execution FAILED, the
\* locked steps FAILED, or COMPLETED where the comment was found.  The result it
\* writes tells no outputs: it spreads the one of a RUNNING execution, still null.
CommitRecovery(r) ==
    /\ rpc[r] = "commit"
    /\ execStatus = "RUNNING"
    /\ execStatus' = "FAILED"
    /\ stepStatus' = [k \in Steps |->
          IF k \notin rlocked[r] THEN stepStatus[k]
          ELSE IF rfound[r][k] = NoOutput THEN "FAILED" ELSE "COMPLETED"]
    /\ stepOutput' = [k \in Steps |->
          IF k \in rlocked[r] /\ rfound[r][k] # NoOutput THEN rfound[r][k] ELSE stepOutput[k]]
    /\ rlocked' = [rlocked EXCEPT ![r] = {}]
    /\ GotoR(r, "audit")
    /\ UNCHANGED <<execResult, jira, attempt, rtodo, rfound, counters, audits>>

\* The lost race is not rolled back (RecoveryIsAtomic).
RollbackRecoverySlip(r) ==
    /\ rpc[r] = "commit"
    /\ execStatus # "RUNNING"
    /\ stepStatus' = [k \in Steps |-> IF k \in rlocked[r] THEN "FAILED" ELSE stepStatus[k]]
    /\ LeaveR(r)
    /\ UNCHANGED <<execStatus, execResult, stepOutput, jira, attempt, counters, audits>>

\* failStaleRunning matches nothing: StaleRecoveryRaceLost rolls everything back.
RollbackRecovery(r) ==
    /\ rpc[r] = "commit"
    /\ execStatus # "RUNNING"
    /\ LeaveR(r)
    /\ UNCHANGED <<rows, jira, attempt, counters, audits>>

AuditRecovery(r) ==
    /\ rpc[r] = "audit"
    /\ audits' \in {audits, Append(audits, "RECOVERY_FAILED")}
    /\ LeaveR(r)
    /\ UNCHANGED <<rows, jira, attempt, counters>>

\* An error inside the transaction returns its client without ROLLBACK, the row
\* locks still held (AttemptsEnd).
AbortRecoverySlip(r) ==
    /\ rpc[r] # "idle"
    /\ aborts < MaxAborts
    /\ aborts' = aborts + 1
    /\ GotoR(r, "idle")
    /\ UNCHANGED <<rows, jira, attempt, rtodo, rfound, rlocked, attempts, audits>>

\* The process dies or a statement throws: an open transaction rolls back.
AbortRecovery(r) ==
    /\ rpc[r] # "idle"
    /\ aborts < MaxAborts
    /\ aborts' = aborts + 1
    /\ LeaveR(r)
    /\ UNCHANGED <<rows, jira, attempt, attempts, audits>>

-----------------------------------------------------------------------------------
\* What a live worker does next, whatever the database and Jira answer.
AttemptStep(w) ==
    \/ LoadSteps(w) \/ ClaimExecution(w)
    \/ ClaimStep(w) \/ ClaimNothing(w) \/ DedupPersist(w)
    \/ HandleLocal(w) \/ HandleBusinessFailure(w) \/ HandleNotReady(w) \/ SendRequest(w)
    \/ JiraApplies(w) \/ JiraRejects(w) \/ JiraReplies(w) \/ TechnicalFailure(w)
    \/ PersistOutput(w) \/ PersistError(w) \/ RevertStep(w) \/ FailStep(w)
    \/ FinishFailed(w) \/ FinishCompleted(w) \/ AuditAndReturn(w) \/ ReadFinal(w)

RecoveryStep(r) ==
    \/ ScanSteps(r) \/ LookupComment(r) \/ FailRunningSteps(r)
    \/ CommitRecovery(r) \/ RollbackRecovery(r) \/ AuditRecovery(r)

Next ==
    \/ \E w \in Workers : BeginAttempt(w) \/ AttemptStep(w) \/ AbortAttempt(w)
    \/ \E r \in Recoverers : FindStale(r) \/ RecoveryStep(r) \/ AbortRecovery(r)
    \/ \E k \in Steps : ApplyOrphan(k)

Spec == Init /\ [][Next]_vars

\* An attempt or a recovery that is under way goes on (each await settles, the
\* Jira client has a timeout, a row lock is released), and the operator runs the
\* recovery again and again.  Nothing obliges BullMQ to begin another attempt,
\* Jira to apply an orphan, or anything to fail.
FairSpec ==
    /\ Spec
    /\ \A w \in Workers : WF_vars(AttemptStep(w))
    /\ \A r \in Recoverers : WF_vars(RecoveryStep(r)) /\ WF_vars(FindStale(r))

-----------------------------------------------------------------------------------
(* What holds in every state. *)

Owner(w, k) ==
    /\ at[w] = k
    /\ pc[w] \in {"dedup", "handle", "sent", "applied", "persist", "revert", "fail"}

\* A step that can still be claimed is run by nobody and no two attempts ever run
\* the same step, whatever BullMQ redelivers and whatever the unguarded
\* updateStatus of a slow attempt writes back (claimPendingStep).
SingleOwner ==
    \A k \in Steps, v, w \in Workers :
        Owner(v, k) => stepStatus[k] # "PENDING" /\ (Owner(w, k) => v = w)

\* A COMPLETED execution has only COMPLETED steps, and its result reports for
\* each of them the output persisted on the step, even when the attempt that
\* finished it skipped steps that other attempts ran (processWorkflowExecution).
CompletedIsWhole ==
    execStatus = "COMPLETED" =>
        \A k \in Steps : stepStatus[k] = "COMPLETED" /\ execResult[k] = stepOutput[k]

\* Until the execution has failed, no step leaves PENDING before every earlier
\* step is COMPLETED, and none of those is undone (the ordered loop).
StepsInOrder ==
    execStatus # "FAILED" =>
        \A k \in Steps : stepStatus[k] # "PENDING" =>
            \A j \in 1 .. k - 1 : stepStatus[j] = "COMPLETED"

\* Every repeated Jira operation is paid for by a request that ended in a
\* technical failure: a step is sent again only after such an answer, and a
\* crash, a redelivery or a recovery alone never repeats it.
RepeatsAccounted ==
    \A k \in Steps : effects[k] + orphans[k] <= ambiguous[k] + 1

\* What BullMQ is told of a finished attempt is what the database says: a job
\* completes only over a COMPLETED execution and is failed for good only over a
\* FAILED one (createWorkflowProcessingWorker, finalizeConcurrentlyClaimedExecution).
OutcomeIsTrue ==
    \A w \in Workers :
        /\ outcome[w] = "completed" => execStatus = "COMPLETED"
        /\ outcome[w] = "failed" => execStatus = "FAILED"

\* The execution ends once in the audit trail, and there as in its row, however
\* many attempts and recoveries compete to finish it (guarded finalize).
AuditTellsOneEnd ==
    /\ Len(audits) <= 1
    /\ \A i \in 1 .. Len(audits) :
          execStatus = IF audits[i] = "COMPLETED" THEN "COMPLETED" ELSE "FAILED"

\* A COMPLETED comment step carries the id of a comment that Jira has, whether
\* the attempt, the dedup or the recovery's lookup wrote it.
OutputIsEvidence ==
    \A k \in External :
        stepStatus[k] = "COMPLETED" => stepOutput[k] # NoOutput /\ stepOutput[k] \in 1 .. effects[k]

(* What no step may do. *)

\* A terminal execution keeps its status and result; under a COMPLETED one the
\* steps are frozen too, whatever late attempts and recoveries still do.
FinishedStaysFinished ==
    [][ /\ execStatus \in Terminal => UNCHANGED <<execStatus, execResult>>
        /\ execStatus = "COMPLETED" => UNCHANGED <<stepStatus, stepOutput>> ]_vars

\* A step running in an attempt is failed by somebody else only in the step in
\* which the recovery also fails its execution: lost races leave no trace.
RecoveryIsAtomic ==
    [][ \A k \in Steps :
          /\ stepStatus[k] = "RUNNING" /\ stepStatus'[k] = "FAILED"
          /\ ~ \E w \in Workers : Owner(w, k) /\ pc[w] = "fail"
          => execStatus = "RUNNING" /\ execStatus' = "FAILED" ]_vars

(* What must happen. *)

\* No attempt hangs: it never waits for a row lock that is not released.
AttemptsEnd == \A w \in Workers : pc[w] # "idle" ~> pc[w] = "idle"

\* An execution that started ends, if only by the recovery, though attempts
\* crash, throw, or give up on a step somebody else left RUNNING.
RunningEnds == execStatus = "RUNNING" ~> execStatus \in Terminal

(* What it implements. *)

Lifecycle == INSTANCE ExecutionLifecycle WITH status <- execStatus, steps <- stepStatus

\* Overlapping attempts, crashes and recoveries show a reader of the API only
\* the lifecycle it is promised: no end before its steps justify it, nothing out
\* of order, late writes only under a FAILED execution.
ImplementsLifecycle == Lifecycle!Spec

(* What the documentation says and the code does not do. *)

\* docs/jira-idempotency.md: a FAILED step is terminal and not reprocessed.
FailedStepIsTerminal ==
    [][ \A k \in Steps : stepStatus[k] = "FAILED" => stepStatus'[k] = "FAILED" ]_vars

\* docs/jira-idempotency.md: a step left RUNNING by a crash is resolved by the
\* stale-running recovery.
RunningStepIsResolved ==
    \A k \in Steps : stepStatus[k] = "RUNNING" ~> stepStatus[k] # "RUNNING"

===================================================================================
