------------------------------ MODULE WorkflowState ---------------------------------
(***************************************************************************)
(* The state of one workflow execution as PostgreSQL, Jira, the attempts   *)
(* and the recoveries keep it, and the statements their actions share.     *)
(* WorkflowProcessing has the actions.                                     *)
(***************************************************************************)
EXTENDS Naturals, Sequences

CONSTANTS
    N,            \* number of steps of the execution
    Kind,         \* Kind[k] is the action_type of step k
    Workers,      \* worker processes able to run an attempt
    Recoverers,   \* runs of the stale-running recovery
    NoOutput,     \* a NULL output column
    MaxAttempts,  \* bound: attempts begun in a behaviour
    MaxAborts,    \* bound: attempts and recoveries cut short
    MaxAmbiguous  \* bound: Jira requests answered by no usable reply

ActionTypes == {"MANUAL", "NOTIFICATION", "JIRA_TRANSITION", "JIRA_COMMENT"}

ASSUME StepsAssumption == N \in Nat \ {0} /\ Kind \in [1 .. N -> ActionTypes]
ASSUME OutputAssumption == NoOutput \notin Nat
ASSUME ActorsAssumption == Workers \cap Recoverers = {}
ASSUME BoundsAssumption == MaxAttempts \in Nat /\ MaxAborts \in Nat /\ MaxAmbiguous \in Nat

VARIABLES
    execStatus,  \* workflow_executions.status
    execResult,  \* the step outputs told by workflow_executions.result
    stepStatus,  \* workflow_execution_steps.status
    stepOutput,  \* workflow_execution_steps.output
    effects,     \* what Jira has applied for each step
    orphans,     \* requests Jira may still apply though nobody waits for them
    ambiguous,   \* requests of each step that ended in a technical failure
    pc,          \* the statement each attempt stands before
    at,          \* the step its loop is at
    snapStatus,  \* step statuses as the attempt read them
    snapOutput,  \* step outputs as the attempt read them
    outs,        \* stepOutputs, the list the attempt builds
    reply,       \* the handler's output, not yet persisted
    outcome,     \* what the last attempt of a worker told BullMQ
    rpc,         \* the statement each recovery stands before
    rtodo,       \* RUNNING comment steps it has still to look up
    rfound,      \* outputs reconstructed from the comments it found
    rlocked,     \* step rows its transaction has written and locked
    attempts, aborts,  \* counters for the bounds
    audits       \* terminal audit events, in order

rows     == <<execStatus, execResult, stepStatus, stepOutput>>
jira     == <<effects, orphans, ambiguous>>
attempt  == <<pc, at, snapStatus, snapOutput, outs, reply, outcome>>
recovery == <<rpc, rtodo, rfound, rlocked>>
counters == <<attempts, aborts>>
vars     == <<rows, jira, attempt, recovery, counters, audits>>

Steps        == 1 .. N
StepStatuses == {"PENDING", "RUNNING", "COMPLETED", "FAILED"}
ExecStatuses == {"PENDING", "RUNNING", "COMPLETED", "FAILED"}
Terminal     == {"COMPLETED", "FAILED"}
External     == {k \in Steps : Kind[k] \in {"JIRA_TRANSITION", "JIRA_COMMENT"}}

\* An output is abstracted to the external id it carries: the number of the
\* comment in Jira, 1 for a transition (its id comes from the configuration),
\* 0 for a simulated step.
Outputs  == Nat \cup {NoOutput}
NoOutputs == [k \in Steps |-> NoOutput]
Blank     == [k \in Steps |-> "PENDING"]

AttemptPCs ==
    {"idle", "loadPending", "loadRunning", "claimExec", "claimStep", "dedup", "handle",
     "sent", "applied", "persist", "revert", "fail", "finishFailed", "finishCompleted",
     "readFinal", "auditFailed", "auditCompleted"}
RecoveryPCs == {"idle", "scan", "lookup", "commit", "audit"}
Events      == {"COMPLETED", "FAILED", "RECOVERY_FAILED"}

RowsType ==
    /\ execStatus \in ExecStatuses
    /\ execResult \in [Steps -> Outputs]
    /\ stepStatus \in [Steps -> StepStatuses]
    /\ stepOutput \in [Steps -> Outputs]

JiraType ==
    /\ effects \in [Steps -> Nat]
    /\ orphans \in [Steps -> Nat]
    /\ ambiguous \in [Steps -> Nat]

AttemptType ==
    /\ pc \in [Workers -> AttemptPCs]
    /\ at \in [Workers -> 1 .. N + 1]
    /\ snapStatus \in [Workers -> [Steps -> StepStatuses]]
    /\ snapOutput \in [Workers -> [Steps -> Outputs]]
    /\ outs \in [Workers -> [Steps -> Outputs]]
    /\ reply \in [Workers -> Nat]
    /\ outcome \in [Workers -> {"none", "failed", "completed"}]

RecoveryType ==
    /\ rpc \in [Recoverers -> RecoveryPCs]
    /\ rtodo \in [Recoverers -> SUBSET Steps]
    /\ rfound \in [Recoverers -> [Steps -> Outputs]]
    /\ rlocked \in [Recoverers -> SUBSET Steps]

CountersType == attempts \in Nat /\ aborts \in Nat /\ audits \in Seq(Events)

TypeOK == RowsType /\ JiraType /\ AttemptType /\ RecoveryType /\ CountersType

-----------------------------------------------------------------------------------
\* An execution is created PENDING with every step PENDING.
Init ==
    /\ execStatus = "PENDING"
    /\ execResult = NoOutputs
    /\ stepStatus = Blank
    /\ stepOutput = NoOutputs
    /\ effects = [k \in Steps |-> 0]
    /\ orphans = [k \in Steps |-> 0]
    /\ ambiguous = [k \in Steps |-> 0]
    /\ pc = [w \in Workers |-> "idle"]
    /\ at = [w \in Workers |-> 1]
    /\ snapStatus = [w \in Workers |-> Blank]
    /\ snapOutput = [w \in Workers |-> NoOutputs]
    /\ outs = [w \in Workers |-> NoOutputs]
    /\ reply = [w \in Workers |-> 0]
    /\ outcome = [w \in Workers |-> "none"]
    /\ rpc = [r \in Recoverers |-> "idle"]
    /\ rtodo = [r \in Recoverers |-> {}]
    /\ rfound = [r \in Recoverers |-> NoOutputs]
    /\ rlocked = [r \in Recoverers |-> {}]
    /\ attempts = 0
    /\ aborts = 0
    /\ audits = <<>>

-----------------------------------------------------------------------------------
(* The statements the actions share. *)

Goto(w, label) == pc' = [pc EXCEPT ![w] = label]

\* processWorkflowExecution returns, throws or dies: its local state is gone.
Leave(w, out) ==
    /\ Goto(w, "idle")
    /\ at' = [at EXCEPT ![w] = 1]
    /\ snapStatus' = [snapStatus EXCEPT ![w] = Blank]
    /\ snapOutput' = [snapOutput EXCEPT ![w] = NoOutputs]
    /\ outs' = [outs EXCEPT ![w] = NoOutputs]
    /\ reply' = [reply EXCEPT ![w] = 0]
    /\ outcome' = [outcome EXCEPT ![w] = out]

\* stepOutputs.push and on to the next step of the loop, or past its end.
PushAndAdvance(w, output) ==
    /\ outs' = [outs EXCEPT ![w][at[w]] = output]
    /\ at' = [at EXCEPT ![w] = @ + 1]
    /\ Goto(w, IF at[w] = N THEN "finishCompleted" ELSE "claimStep")
    /\ reply' = [reply EXCEPT ![w] = 0]
    /\ UNCHANGED <<snapStatus, snapOutput, outcome>>

\* updateStatus has no guard on the status it overwrites; it waits for a
\* transaction that holds the row, and COALESCE keeps an output it has none for.
UpdateStatus(k, status, output) ==
    /\ \A r \in Recoverers : k \notin rlocked[r]
    /\ stepStatus' = [stepStatus EXCEPT ![k] = status]
    /\ stepOutput' = [stepOutput EXCEPT ![k] = IF output = NoOutput THEN @ ELSE output]
    /\ UNCHANGED <<execStatus, execResult>>

\* The persisted output proves that the external operation was applied.
DedupReason(k, output) == k \in External /\ output # NoOutput

GotoR(r, label) == rpc' = [rpc EXCEPT ![r] = label]

\* The recovery is done with this execution; a transaction still open rolls back.
LeaveR(r) ==
    /\ GotoR(r, "idle")
    /\ rtodo' = [rtodo EXCEPT ![r] = {}]
    /\ rfound' = [rfound EXCEPT ![r] = NoOutputs]
    /\ rlocked' = [rlocked EXCEPT ![r] = {}]

===================================================================================
