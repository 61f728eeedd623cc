# GovFlow: a TLA+ verification project

GovFlow is a Node.js service for departmental workflows. An administrator describes a *workflow* as an ordered list
of steps; a user starts an *execution* of it; a worker takes the execution's steps one after another, two kinds of
which send something to Jira (a comment, a transition). PostgreSQL keeps all rows, BullMQ on Redis keeps one job per
execution, and a recovery, run by a script or by an administrator, ends executions whose worker disappeared.

This directory models that system in TLA+, checks the models on small instances with TLC, and proves their
safety properties for every size with TLAPS. Paths below are relative to the repository.

## 1. The system

| Component | State | Operations | Model |
|---|---|---|---|
| **Processing attempts**: `workflowProcessor.service.js`, `workflowStepHandlers.js`, the repositories of executions and execution steps | `workflow_executions.status/result`, `workflow_execution_steps.status/output`; inside an attempt its copies of the step rows, the list of outputs, the reply of the handler | read the execution and its steps, claim the execution, claim each step, handle it, persist or revert or fail it, finalize, audit | `WorkflowProcessing` |
| **Stale-running recovery**: `workflowExecutionRecovery.service.js`, `database.transaction` | a list of stale executions, of one its RUNNING steps and the comments found, an open transaction | scan, look comments up, fail the RUNNING steps and the execution in one transaction, roll back a lost race, audit, report | `WorkflowProcessing` for one execution, `StaleRecoveryScan` for the loop |
| **Comment look-up**: `findCommentByExecutionStepMarker` | offset and page count of a search | fetch a page, stop or go on | `CommentLookup`, in `JiraService` |
| **Jira errors, readiness, connection test**: `jira.service.js`, `jira.client.js`, `jira.errors.js`, `error.middleware.js` | none of its own | check, send, classify the failure, tell processor or HTTP caller | `JiraIntegration`, in `JiraService` |
| **Queue, worker, job status**: `workflowProcessing.queue.js`, `workflowProcessing.worker.js`, `workflowProcessingQueue.service.js`, `workflowProcessingJob.service.js` | the BullMQ job | enqueue, take, report, read the state | `ProcessingQueue` |
| **Queue administration**: `adminQueue.service.js` | - | retry, delete, list | `ProcessingQueue` |
| **Workflows, steps, new executions**: `workflows.*`, `workflowSteps.*`, `workflowExecutions.service.js` | `workflows`, `workflow_steps`, new executions with their steps | create, (de)activate, add a step, duplicate, execute | `WorkflowCatalog` |
| **Lists and access**: the five list services, `workflowsAccess.js`, `workflowExecutionAccess.js` | - | validate, scope, two queries, pages | `Listing` |
| **Users, departments, audit logs, login**: `users.*`, `departments.*`, `auditLogs.*`, `auth.service.js` | `users`, `departments`, `audit_logs` | register, log in, write an audit log | `Registration`, in `Deployment` |
| **Migrations and seeds**: `scripts/` | `schema_migrations`, the tables | run the pending files; run the seed files | `Migrations`, `Deployment` |
| **Validators** | - | let a body through or refuse it | `RequestInput`, in `WorkflowCatalog` and `Registration` |
| Tokens and role checks, routes, rate limits, health, configuration, logging | - | no state of their own that outlives a request | not modelled, see 8 |

How they interact. `POST .../process` and `.../enqueue` only add a job; the worker calls
`processWorkflowExecution` with the job's data; that reads and writes PostgreSQL statement by statement, without a
transaction, and calls Jira through the handlers. The recovery reads the same rows, asks Jira, and writes in one
transaction. Attempts and recoveries meet only in the rows: a guarded `UPDATE ... WHERE status = ...` is their only
mutual exclusion. What an attempt returns or throws decides the job: an ended execution completes or fails it,
any other error is retried by BullMQ, with a limit.

What is hard here, and what makes each part correct:

- *Attempts overlap.* BullMQ hands a job whose lock expired to another worker while the first one may still run. Both
  hold copies of the step rows read before the loop. Correct: a step is run by one attempt at a time, the steps run
  in order, a COMPLETED execution is whole and says what its steps say.
- *Answers are lost.* A Jira call may time out after, before or without its effect. Correct: an operation is repeated
  only after such an answer, never by a crash, a redelivery or a recovery alone, and a recorded output is evidence.
- *The recovery cannot tell slow from dead.* It may fail the execution of a live attempt. Correct: one end, told once,
  and what the worker tells BullMQ agrees with it; a recovery that loses the race leaves no trace.
- *The comment is searched in pages of a list that changes.* Correct: what is found is real, what is missed has a cause.
- *Errors decide between retry and final failure* by the order of a few conditions on one object.
- *The job has one id for ever.* Correct: requests buy no extra attempts, a live job settles, its end is true.
- *Look-up, then write* in the catalog and the registration, without locks; a UNIQUE constraint has the last word, and
  its error must be told as a conflict. Executions and copies are written row by row and must be snapshots.
- *OFFSET paging* over a list that changes and whose scope depends on the role. Correct: nothing out of scope, and
  every miss and repeat has a cause.
- *Validators and columns are two descriptions of one value.* Correct: what is let through fits, and what is stored
  will run.
- *Scripts are killed and run again,* beside each other and the API. Correct: exit code 0 means it is there, once.

`PROJECT.json` lists each hazard with its line and the properties that cover it.

## 2. The modules

| Module | What it is |
|---|---|
| `WorkflowState` | constants, variables, types, initial state and shared statements of step processing |
| `WorkflowProcessing` | its actions, specification, fairness and properties |
| `ExecutionLifecycle` | the abstract specification: how the statuses of an execution and its steps may evolve together |
| `WorkflowInvariants` | the inductive invariant, in named parts |
| `WorkflowProcessing_proofs` | the invariant is inductive; the theorems that follow from it; the refinement, the atomic recovery, the audit trail and the outputs |
| `StaleRecoveryScan` | the recovery's loop over many executions, each of them an `ExecutionLifecycle` |
| `ProcessingQueue` | the job, its workers, clients, administrators and readers |
| `JiraIntegration`, `CommentLookup` | a step's attempts against Jira; the search for its comment |
| `JiraService` | the two on one issue: the search runs beside the requests that post what it looks for |
| `RequestInput` | the validators and the columns as operators on bodies: each body gets a verdict |
| `WorkflowCatalog` | workflows, steps, new executions and copies; its requests carry verdicts of `RequestInput` |
| `Listing` | a caller who reads a list to its end while rows join it and change |
| `Registration` | racing requests for users, departments, audit logs and log-ins |
| `Migrations` | processes that run the migrations |
| `Deployment` | `Migrations`, the seeds and `Registration` on one database |
| `ProcessingQueue_proofs`, `StaleRecoveryScan_proofs`, `JiraService_proofs`, `WorkflowCatalog_proofs`, `Listing_proofs`, `Deployment_proofs` | an inductive invariant of each, and its theorems |
| `RequestInput_proofs` | lemmas: what the validators let through fits its columns and its handlers |
| `MC*` | model values, sequences and symmetry sets for TLC |

A definition named `...Slip`, `...Uncaught`, `...Skips`, `...Unguarded` and the like stands before the action it is
named after: that action as a plausible mistake would make it. No specification uses it; it shows that a property can
break.

How the modules meet: `ProcessingQueue` takes from `WorkflowProcessing` that an attempt ends (`AttemptsEnd`) with an
outcome that agrees with the database (`OutcomeIsTrue`); `StaleRecoveryScan` moves its executions by the steps of
`ExecutionLifecycle`, which `WorkflowProcessing` implements, and takes the recovery's transaction as one step, which
`RecoveryIsAtomic` justifies; `WorkflowProcessing` takes from `JiraService` that a search may miss but never invents
(`SearchIsExplained`) and which failures are technical and which are final,
from `WorkflowCatalog` that an execution starts PENDING with all its steps (`ExecutionIsASnapshot`), and from
`ProcessingQueue` that attempts may overlap, which it over-approximates by letting any idle worker begin at any time.

### Step processing: state and actions against the code

One action is one statement against PostgreSQL, or one event of an HTTP call, together with the JavaScript up to the
next `await`. `pc[w]` is the statement an attempt stands before; `snapStatus`, `snapOutput` are the rows that
`findByExecutionId` returned before the loop, `outs` is `stepOutputs`, `at` the loop's index.

| Action | Code |
|---|---|
| `BeginAttempt`, `LoadSteps` | `findById` with the 409 for an ended execution; `findByExecutionId` |
| `ClaimExecution` | `claimPendingExecution`, the guarded UPDATE; the loser ends with a 409 |
| `ClaimStep`, `ClaimNothing` | `claimPendingStep`; without a row the *older copy* decides: skip, finish as failed, or throw |
| `DedupPersist` | the output already proves the external operation |
| `HandleLocal`, `HandleBusinessFailure`, `HandleNotReady`, `SendRequest` | the handlers up to the HTTP request |
| `JiraApplies`, `JiraRejects`, `JiraReplies`, `TechnicalFailure`, `ApplyOrphan` | what Jira makes of it; an orphan is a request nobody waits for any longer |
| `PersistOutput`, `PersistError`, `RevertStep`, `FailStep` | `updateStatus`, which has no guard; it waits for a row the recovery's transaction holds |
| `FinishFailed`, `FinishCompleted`, `ReadFinal`, `AuditAndReturn` | the guarded finalize, the state read back after a lost race, the best-effort audit |
| `AbortAttempt` | the process dies, or a statement outside `try` throws |
| `FindStale` ... `AuditRecovery`, `AbortRecovery` | the recovery of this execution; `rlocked` are the rows its transaction has written, invisible until `CommitRecovery` |

An output is abstracted to the external id in it (a comment's number, 1 for a transition, 0 for a local step);
`effects[k]` counts what Jira has applied for step `k`. That is what the dedup and the recovery look at, so nothing
else of the JSON matters to a property. `execResult` is the `steps` list of `workflow_executions.result`, written by both
finalizes; the recovery's result has none.

### The other components

- `ProcessingQueue`: the list the job is in, `attemptsMade`, its stalls and the holder of its lock. BullMQ is external
  and modelled as the options and calls rely on it: a job id is kept while any job has it, an unlocked active job
  waits again or fails when it stalled too often, a report without a lock is refused. An attempt is reduced to the
  interface named above: it is taken, reads the execution, claims it, ends it and returns. Each administrator and reader has the gap between its `getState`/`getJob` and its next call.
  `listJobs` reads ids first and jobs then, as BullMQ's `getJobs` does.
- `StaleRecoveryScan`: `started` is the order of `started_at`. A scan has a limit and an age, and `todo` is what its loop
  has before it; the look-up and the transaction of one execution are two steps. `ended`, `told` and `untold` count what
  the loop did and what its caller learnt of it.
- `JiraIntegration`: from the handler's checks to the fate of the step. Errors are the flags that are read of them
  (`operational`, `retryable`, the status). `NormalizeJiraError` keeps the order of the branches.
- `CommentLookup`: a comment is its position, newest first. `Begin` records where the step's newest comment stood.
- `RequestInput`: a value is its type, its length as it came, trimmed and in lower case, whether it has the form asked
  of it, whether it holds U+0000, and whether it is an INTEGER. A set of bodies around every limit is turned into
  verdicts once; the state machines then choose among the verdicts, so a limit that is off by one in a validator
  becomes a request that is let through and refused by the database.
- `WorkflowCatalog`: a transaction's rows stay in `tx` until it commits; reads see what is committed then.
  A step carries the request that made it (`by`), so two steps of one order made by racing requests stay two, and
  whether its handler will accept it when it runs (`runs`).
- `Listing`: each row has a place in the order of the list. Departments are ordered by their name, which is unique;
  the other four lists by `created_at` and nothing else, so rows may share a place, and each query puts those that do
  in an order of its own (`Sortings`). A page is what `LIMIT` and `OFFSET` cut from that. The two queries of an answer
  (`Promise.all`) are separate actions. A row that joins gets any place and moves those behind it on, since
  `created_at` is the start of a transaction, or shares one. Every filter but the department is one flag of a row; flag
  and department are kept only for walks that look at them; workflows and executions are the rows whose flag changes.
  The caller, ADMIN or MANAGER, walks to the last page; `since` keeps what happened since it began, and others act from
  its first answer on.
- `Registration`: an email or a name is a word in a spelling; the look-ups ignore the case, the UNIQUE columns do not.
  A 500 must be excused: by a failing database, or by one of the inputs nobody looks at.
- `Migrations`, `Deployment`: one statement is one action. The pool gives consecutive statements of a script the same
  connection, since nothing else uses it; a failed connection rolls its transaction back. What a seed has inserted and
  not committed (`held`) is unseen, and makes others wait that insert the same key.

## 3. The runs

| Run | Question | Instance |
|---|---|---|
| `processing_safety` | ownership, order, wholeness, repeats, evidence, outcome, audit, atomic recovery, and the lifecycle as refinement | comment then transition, 2 workers, 2 recoveries, 3 attempts, 1 abort, 1 ambiguous answer per step; symmetry; 1.3 million states |
| `processing_progress` | attempts end; a RUNNING execution ends | comment then notification, 2 workers, 1 recovery, 2 attempts, 1 abort |
| `processing_failed_terminal` | *disagreement*: a FAILED step is overwritten | 1 step, 1 worker, 1 recovery, nothing fails but an answer |
| `processing_running_resolved` | *disagreement*: a step stays RUNNING for ever | 1 step, 1 worker, 1 recovery, 1 abort |
| `queue_safety` | true ends, bounded starts, overlap only after an expiry, a queued job settles | 1 client, 2 workers, 1 administrator, 1 reader, 2 attempts, 1 forgiven stall, 2 jobs, 1 retry, 2 expiries |
| `queue_queued` | *disagreement*: QUEUED is answered and nothing is queued | 1 client, 1 worker, 3 attempts |
| `jira_safety` | final failures are justified, a mapped rejection is final; a search invents nothing and what it misses has a cause | ten statuses, 3 attempts, 3 pages of 2, up to 6 comments of others, 2 changes; 0.4 million states |
| `jira_rejection` | *disagreement*: an unmapped 4xx is retried | three statuses |
| `catalog_safety` | unique orders, snapshots, true answers to every body | 2 workflow ids, 2 orders, 3 requests, 1 odd body; 1.3 million states |
| `listing_safety` | in scope; misses and repeats explained | 5 lists, 3 rows, 2 departments, ties at the start and by joining, pages of 1 and 2, a limit above the maximum, 2 changes; 0.7 million states |
| `deployment_safety` | scripts and answers are true; one account per address; doubles raced | 3 files, 2 runners, 2 seeders, 2 requests, 2 words in 2 spellings, 1 odd body; 0.2 million states |
| `recovery_scan` | reports are true, the lifecycle is kept, stale executions end | 2 executions of 1 step, 2 recoveries, limits 1 and 2, 1 error; 58,000 states |

Why the bounds are enough. *Two* workers and *two* recoveries are what a race needs; the third attempt is the one that
comes after a race and finds its leftovers. *Two* steps distinguish the first, the last and "a later step before an
earlier one"; a comment and a transition are the two external kinds, and a notification stands for both local ones. One
crash and one ambiguous answer per step can be placed at every statement. The theorems remove these bounds for
the safety properties. In the queue, two attempts and one forgiven stall (the code's options are 3 and BullMQ's
default 1) reach every exit of `Report` and `StalledCheck`; three workers would only queue. The search reads six comments; six of
other people, those they add, and the step's own repeats exceed it, so the cap is hit, and every boundary of pages of
two is met at an even and at an odd offset. In the catalog two requests race and a third changes
what they read; the second id is the copy. The list is walked in pages of one, where every boundary is a page
boundary, and of two, where a row can slip inside a page; a limit of 3 is above the maximum, 0 is absent. Two
executions and a limit of one make a scan that leaves something for the next. Two runners and two seeders race; a
third would wait like the second. A body that is refused changes nothing, so one such (`MaxOdd`) at a time is enough,
while every sample of `RequestInput` still occurs. Counters that only
bound (`MaxAttempts`, `MaxAborts`, `MaxAmbiguous`, `MaxAdds`, `MaxRetries`, `MaxExpiries`, `MaxMoves`, `MaxChanges`,
`MaxStart`, `MaxOdd`, `MaxErrors`)
are named in the modules, and deadlock is not checked, because each of these systems really stops: an ended execution,
a finished job, requests made once. Only the recovery's loop never stops, and there deadlock is checked.

What the runs show, with the property behind each sentence:

- No two attempts run the same step and a step that can be claimed is run by nobody (`SingleOwner`), though
  `updateStatus` is unguarded. A COMPLETED execution has COMPLETED steps and reports their outputs
  (`CompletedIsWhole`), though its last attempt may have skipped steps on the strength of an old copy.
- Steps run in order until the execution failed (`StepsInOrder`). After that a late attempt may still write.
- `effects + orphans <= ambiguous + 1` for every step (`RepeatsAccounted`): each repeated Jira operation is paid for
  by an answer that was a technical failure.
- A COMPLETED external step carries the id of something Jira has (`OutputIsEvidence`).
- The end is told once and truly, in the audit trail and to BullMQ (`AuditTellsOneEnd`, `OutcomeIsTrue`,
  `FinishedStaysFinished`); a lost recovery leaves no trace (`RecoveryIsAtomic`).
- The whole implements `ExecutionLifecycle` under `status <- execStatus, steps <- stepStatus` (`ImplementsLifecycle`).
- Queue: `JobEndIsTrue`, `StartsBounded`, `OverlapNeedsExpiry`, `QueuedSettles`.
- Jira: a step is failed for good by its configuration, by a disabled integration, by a final rejection, or because the
  UPDATE that records a success threw after Jira had applied the request, and the connection test answers
  4xx only for a fault on this side (`FateIsJustified`); a mapped rejection is never sent again
  (`MappedRejectionIsFinal`). What a search finds was applied, and what it misses was deleted, unreadable or too deep;
  comments posted during the search never make it step over the one it looks for (`SearchIsExplained`).
- Recovery loop: reports and database agree, whoever races or dies (`ReportIsTrue`); nothing newer is undone by an older
  scan (`RecoveryKeepsLifecycle`); no execution stays RUNNING behind others in a limited scan (`StaleAreEnded`).
- Catalog: `StepOrderIsUnique`; executions and copies are snapshots of one moment, of a workflow that was active
  (`ExecutionIsASnapshot`, `CopyIsASnapshot`); no accepted body is refused by a column without an excuse, and an
  accepted Jira step is one its handler accepts (`AnswerIsTrue`).
- Lists: nothing is shown that the single GET hides (`ListIsInScope`). A row that has its place to itself is missed
  only if a row left or slipped in between the two queries of an answer (`MissIsExplained`), and shown again only for a
  row that joined. One that shares its place may be missed or come again for nothing, but all repeats together are no
  more than the rows that joined and those that were listed and not shown (`RepeatsAreExplained`).
- Deployment: a migration is recorded exactly when it is applied and exit code 0 means that all is there
  (`ScriptsAreTrue`); `OneAccountPerAddress` rests on the lower case written by the code, not on the constraint;
  departments and seed rows that double raced (`DoublesRaced`); every answer is true (`AnswerIsTrue`).

Every property is shown able to fail: `PROJECT.json` names for each one a slip (a lost guard, a swallowed error, a
missing rollback, an off-by-one) under which TLC finds it violated.

## 4. Fairness

`WorkflowProcessing!FairSpec` has weak fairness for the steps of an attempt and of a recovery that are under way: each
`await` settles (the Jira client has a timeout, a row lock ends with its transaction). It also has weak fairness for
`FindStale`, since an operator or a scheduled script runs the recovery again and again and a RUNNING execution becomes
stale by the clock; without it an execution orphaned by its last attempt would stay RUNNING, and the code has no other
remedy. Nothing obliges BullMQ to begin an attempt, Jira to apply an orphan, or anything to fail.
`ProcessingQueue!FairSpec` has it for an attempt's read and return and the worker's report, for the taking of a waiting job by *some* worker, and for
BullMQ's timers (backoff, stalled check). Nobody is obliged to enqueue, retry or delete, and no attempt to succeed.
`StaleRecoveryScan!FairSpec` has weak fairness for the statements of a recovery under way, and strong fairness for a
scan that comes when all executions started so far are stale: recoveries with a shorter age or limit may come between,
but time passes for every execution and the script is run again. Attempts have no fairness there: they may all be dead.

## 5. Where documentation and code disagree

Kept as runs that TLC must find violated:

- `FailedStepIsTerminal`: `docs/jira-idempotency.md:135,141` call a FAILED step terminal; `updateStatus` has no guard,
  so an attempt that outlives the recovery puts it back to PENDING or COMPLETED.
- `RunningStepIsResolved`: `docs/jira-idempotency.md:232` has the recovery resolve a step left RUNNING by a crash. A
  step claimed after the transaction's bulk UPDATE and then orphaned stays RUNNING under a FAILED execution, which no
  later recovery looks at.
- `QueuedIsLive`: `docs/api.md:689` says the request creates a job. An execution that is still PENDING when its job has
  failed keeps that job's id, and is answered QUEUED for nothing.
- `RejectionIsFinal`: the comment in `normalizeJiraError` and `docs/jira-errors.md:62` make every unmapped 4xx final;
  axios always sets a code, so that branch is not reached and the request is retried.

Known, and not kept as runs because each is a variation or has no effect on other state:

- `docs/architecture.md:547-548` says retries do not duplicate Jira effects. After an answer that was lost they do;
  `RepeatsAccounted` is the exact account.
- The comment at `workflowProcessor.service.js:272` reserves FAILED for terminal and business failures. The UPDATE at
  line 252 is in the same `try` as the handler, so a passing error of the database there fails the step and the
  execution for good, although Jira applied the request: the last case of `FateIsJustified`.
- `docs/jira-idempotency.md:76` has the dedup check the persisted output; the code checks the copy read before the
  loop. When a recovery confirms a comment, a slow attempt reverts that step, and an overlapping attempt with an older
  copy claims it, the handler is called although the row has the proof. `ImplementsLifecycle` and `RepeatsAccounted`
  hold nevertheless.
- `docs/architecture.md:398` says active and waiting jobs cannot be removed; another administrator's retry between
  `getState` and `remove` lets `deleteJob` remove a waiting one. `docs/api.md:738` says a missing job is `not_found`;
  deleted between `getJob` and `getState`, it is `unknown`.
- Two requests that race for a department in two spellings both succeed: `findByName` ignores the case, the UNIQUE of
  migration 002 does not. `DoublesRaced` says that nothing else makes such a double.
- `workflows.service.js:185` expects the constraint `workflows_department_id_name_key`, which no migration creates.
- Bodies that are let through and answered 500, excused in `AnswerIsTrue`: a `stepOrder` above PostgreSQL's INTEGER, the
  character U+0000 in any text, an email of at most 255 characters that is longer in lower case. Of the same kind,
  outside the model: a huge `timeoutMinutes` of the recovery, a fractional or huge `page` or `limit`
  (`Number(page) || 1`, `workflows.service.js:36`), half of a surrogate pair in a step's JSONB, a date of the audit filters that JavaScript parses and PostgreSQL
  does not (`auditLogs.validator.js:238`).
- `docs/api.md:334,387,586` has the lists ordered by `created_at`, which does not order all rows; nothing breaks ties in
  `workflows.repository.js:54`, `workflowExecutions.repository.js:61`, `users.repository.js:50`,
  `auditLogs.repository.js:51`. The two audit logs of the seeds have one `created_at` (one transaction, `NOW()`), so with
  pages of one either may come twice and the other never. The properties of `Listing` say what holds all the same.
- A MANAGER who asks for the own department with its UUID in upper case gets an empty list: the services compare
  strings. `ListIsInScope` and `MissIsExplained` are stated with that.

## 6. What is proved

Eight modules hold proofs, checked to the last leaf. Each has an inductive invariant and derives its theorems from it;
nothing bounds the sizes but the assumptions next to the constants, which say no more than that a number is a natural,
a bound not zero, and two kinds of actors or values distinct. The properties are the ones the runs check: the
runs show them on an instance, the theorems for every value of the constants.

**`WorkflowProcessing_proofs`** (any steps of any kinds, any workers and recoveries, any bounds): `TypeCorrect`,
`OneOwner` (`SingleOwner`), `Completion` (`CompletedIsWhole`), `StepOrder` (`StepsInOrder`), `RepeatsBounded`
(`RepeatsAccounted`), `TrueOutcomes` (`OutcomeIsTrue`), `Finality` (`FinishedStaysFinished`), from
`Invariance == Spec => []IInv`. None of these is inductive alone. `CompletedIsWhole` needs to know, when the finalize
matches, that all the attempt skipped is COMPLETED and that the outputs it holds are those of the rows; so `IInv`
(module `WorkflowInvariants`) adds:

1. `Positions`: where the loop can stand at each statement;
2. `Started`: before the execution is claimed nothing has happened to its steps;
3. `SingleOwner` itself, which rests on the guarded claim;
4. `Ends`: who audits or reads back has an ended execution before it;
5. `Repeats`: a step that can be claimed, or is claimed and unanswered, has one operation less to its account;
6. `Locks`: the recovery's transaction holds RUNNING rows, and no two hold the same;
7. `Agreement`: *until the execution fails*, an owner's step is RUNNING, the copies that say COMPLETED or FAILED agree
   with the rows, everything before `at` is COMPLETED with the outputs in `outs`, and rows are ordered. The condition is
   essential: after a recovery it is false, and the proof is that by then nothing completes the execution any more.

The proof goes part by part in this order, one step per action of `Next`; each part cites the ones before it.

On top of it, in the same module:

- `Implementation` (`ImplementsLifecycle`): a step simulation. Under `IInv` each statement is a step of
  `ExecutionLifecycle` or a stutter: a claim is a `MoveStep` because `Agreement` orders the rows, a finalize is a
  `Complete` because they are all COMPLETED, and whatever an attempt writes after the recovery is a `WriteLate`.
- `AtomicRecovery` (`RecoveryIsAtomic`): rows written by the transaction show only when it commits.
- `OneEnd` (`AuditTellsOneEnd`), with `AuditsOwed`: whoever ended the execution owes the audit, only one can, and the
  trail is empty as long as it is owed.
- `TrueEvidence` (`OutputIsEvidence`), with `Evidence`: the ids in rows, in copies of rows, in a reply and among found
  comments are all of operations Jira has applied. The copies must be in it, since the dedup persists from a copy.

**`ProcessingQueue_proofs`**: `QueueTypes`, `TrueJobEnds` (`JobEndIsTrue`), `BoundedStarts` (`StartsBounded`),
`ExpiredOverlaps` (`OverlapNeedsExpiry`). The bound on starts needs a ledger: of the retries, some number `own` belongs
to the present job, what earlier jobs used is paid for by their deletions and the other retries, and the present one
has its own limits (`Spent`). Overlaps are counted by the set of workers at work without the lock.

**`StaleRecoveryScan_proofs`**: `ScanTypes`, `TrueReports` (`ReportIsTrue`), `KeptLifecycle` (`RecoveryKeepsLifecycle`).
For each execution, told answers, runs that hold a report of it and lost reports add up to how often it was ended,
and that is at most one, because only a RUNNING one is ended and such a one is reported nowhere. On top of it,
`SharedLifecycles`: each of the executions that any number of attempts and recoveries share implements
`ExecutionLifecycle` (`LifecycleStep`: what is done to one execution is a step of its lifecycle and a stutter of the
others'), and `KeptLives`: what the lifecycle alone promises (`LifecyclePromise`, by induction over its own steps)
therefore holds of each of them: untouched steps before the claim, steps in order until a failure, and COMPLETED means
all of it.

**`JiraService_proofs`** (any statuses, attempts, page size and number): `ServiceTypes`, `JustFates`
(`FateIsJustified`), `FinalRejections` (`MappedRejectionIsFinal`), `ExplainedSearches` (`SearchIsExplained`). For the
search: the comment that was the newest of its step when the search began is at `depth + newer` and the search, at
`page * PageSize`, has not passed it; if it ends without it, the comment is below the last page allowed.

**`WorkflowCatalog_proofs`**: `CatalogTypes`, `UniqueOrders` (`StepOrderIsUnique`), `Snapshots` (`ExecutionIsASnapshot`),
`CopySnapshots` (`CopyIsASnapshot`), `TrueAnswers` (`AnswerIsTrue`). What a request under way knows stays true because
the others only make the tables grow (`Grows`, `OthersStay`).

**`Listing_proofs`** (any rows, departments, limits and changes): `ListTypes`, `ScopedLists` (`ListIsInScope`),
`ExplainedMisses` (`MissIsExplained`), `PaidRepeats` (`RepeatsAreExplained`), from `ListingInvariance == Spec => []IInv`.
The lemmas it starts from are about the position of a row among those that match: it is between one and their number,
rises with the order, grows by at most one when a row joins (`PositionJoined`) and never when one leaves
(`PositionLeft`). A row that has its place to itself has that position in whatever order the query puts the others
(`NumberIsPosition`, `SortIsRank`); of the others only their number is known (`PageSize`). Of the rows with a place to
themselves, each that the caller has been shown or read lies before the offset of the next page or is paid for:

1. `WalkInv`: what each `pc` says of the answer under way;
2. `ScopeInv`: rows shown are accessible, and the filter in use is the scope (`FiltersAreTheScope`);
3. `RepeatInv`: the rows met that lie beyond the offset (`Again`) and the repeats so far are together no more than the
   rows that joined; a row that joins moves one row, the last of a page, over the edge (`OneOverTheEdge`);
4. `AheadInv`: while none left, the owed rows that were not met (`Unmet`) are beyond the offset still;
5. `CountInv`: unless one joined between the two queries, a total that makes the walk end leaves no such row;
6. `SumInv`, of all rows, ties or not: the times a row was shown are no more than the pages so far hold, nor than there
   ever was to list, because a page that is not empty ends where the list does at the latest.

`QuietWalks` (`QuietWalkIsExact`, stated in the proof module) is the corollary a reader of the API expects, as far as it
is true: if nothing joins or leaves, walking the pages with any limit, even one the code corrects, shows only rows that
the access rule for a single row and the filters allow, and each that has its `created_at` to itself exactly once; of
the rows that share one, as many may stay unseen as are shown again.

**`Deployment_proofs`**: `DeploymentTypes`, `OneAccount` (`OneAccountPerAddress`), `Doubles` (`DoublesRaced`),
`TrueScripts` (`ScriptsAreTrue`), `TrueAnswers` (`AnswerIsTrue`). Migrations are a prefix of the files, recorded as they
are applied; what a seeder holds is not there yet; emails are in lower case whoever writes them.

**`RequestInput_proofs`** has no theorem of its own: for each kind of body, no verdict that lets it through is a misfit of
width, and an accepted Jira step runs. The two `TrueAnswers` rest on it.

Only model-checked is liveness (`AttemptsEnd`, `RunningEnds`, `QueuedSettles`, `StaleAreEnded`): fairness and ENABLED
are out of the prover's reach. The four disagreements of section 5 are counterexamples, found by TLC.

## 7. Plan

Done: step processing with its recovery and its lifecycle; the recovery's loop; the queue; Jira; the catalog with the
validators; all five lists; registration, log-in, migrations and seeds on one database; a proof of every safety property.
What would come next:

1. `ProcessingPipeline`: `ProcessingQueue` and `WorkflowProcessing` together, the attempt of the one being the attempt of
   the other, shown to implement both; it would replace the over-approximated `BeginAttempt` by real redeliveries.
2. `Listing` with its filters by value instead of by one flag.
3. The paths' UUIDs and the filters of the admin queue in `RequestInput`.

## 8. What is not modelled, and why

- A statement of an attempt that was committed while its answer was lost: an attempt's UPDATE either happens or throws
  (`AbortAttempt`, `PersistError`). In the catalog and the registration the lost answer is modelled (`Written`).
- Statuses no code sets (CANCELED, SKIPPED) and the placeholder outputs of an earlier release.
- The clock: staleness is left open, so the recovery may come at any time after the start; backoff has no duration.
- Several executions compete only for workers' time, and only fairness of taking a job depends on that.
- Deletion of rows (no endpoint deletes any), changes to existing steps (none either).
- The log-in is modelled. The signature and expiry of tokens, the roles and inactive users, whom no endpoint makes, are
  not: they let a request pass or refuse it before it does anything. Of a role, only what the lists show depends on it.
- UUIDs in paths and the filters of the admin queue are refused before anything is read. Of the filters of the lists
  only whether they are understood and, of the department, its value; the others are one flag.
- Rate limits are an imported middleware with counters in one process; health checks ping; routes and controllers only
  wire and pass on; configuration is read once at boot, and of it only what `validateJiraConfig` guarantees to the Jira
  integration is used. Logging and wording are left out everywhere.
