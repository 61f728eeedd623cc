---------------------------- MODULE WorkflowInvariants ----------------------------
(***************************************************************************)
(* The inductive invariant behind the safety theorems about                *)
(* WorkflowProcessing, in the parts the proofs use one at a time.          *)
(***************************************************************************)
EXTENDS WorkflowProcessing

\* Where an attempt stands in the loop, and why it dedups.
Positions ==
    \A w \in Workers :
        /\ pc[w] \in {"idle", "loadPending", "loadRunning", "claimExec"} => at[w] = 1
        /\ pc[w] \in {"claimStep", "dedup", "handle", "sent", "applied", "persist",
                      "revert", "fail", "finishFailed"} => at[w] \in Steps
        /\ pc[w] = "finishCompleted" => at[w] = N + 1
        /\ pc[w] = "dedup" => snapOutput[w][at[w]] # NoOutput

\* Before the execution is claimed nothing has happened to its steps.
Started ==
    execStatus = "PENDING" =>
        /\ stepStatus = Blank
        /\ \A w \in Workers : pc[w] \in {"idle", "loadPending", "claimExec"}
        /\ \A r \in Recoverers : rpc[r] = "idle"

\* An attempt audits and reports only an end that is in the database.
Ends ==
    /\ \A w \in Workers :
          /\ pc[w] = "auditFailed" => execStatus = "FAILED"
          /\ pc[w] = "auditCompleted" => execStatus = "COMPLETED"
          /\ pc[w] = "readFinal" => execStatus \in Terminal
    /\ OutcomeIsTrue

\* A step that can be claimed, or is claimed and not yet answered, has no
\* request outstanding that was not answered by a technical failure.
Repeats ==
    \A k \in Steps :
        /\ effects[k] + orphans[k] <= ambiguous[k] + 1
        /\ stepStatus[k] = "PENDING" => effects[k] + orphans[k] <= ambiguous[k]
        /\ \A w \in Workers : Owner(w, k) /\ pc[w] \in {"handle", "sent", "revert"} =>
              effects[k] + orphans[k] <= ambiguous[k]

\* The recovery's transaction holds RUNNING rows, and no row twice.
Locks ==
    \A r \in Recoverers :
        /\ \A k \in rlocked[r] : stepStatus[k] = "RUNNING"
        /\ \A q \in Recoverers : q # r => rlocked[q] \cap rlocked[r] = {}
        /\ rpc[r] # "commit" => rlocked[r] = {}

\* What an attempt holds of the rows agrees with them until the execution fails.
OwnersRun ==
    \A w \in Workers, k \in Steps : Owner(w, k) => stepStatus[k] = "RUNNING"

SnapshotsHold ==
    \A w \in Workers, k \in Steps :
        /\ snapStatus[w][k] = "COMPLETED" =>
              stepStatus[k] = "COMPLETED" /\ snapOutput[w][k] = stepOutput[k]
        /\ snapStatus[w][k] = "FAILED" => stepStatus[k] = "FAILED"

PrefixDone ==
    \A w \in Workers :
        /\ \A j \in Steps : j < at[w] =>
              stepStatus[j] = "COMPLETED" /\ outs[w][j] = stepOutput[j]
        /\ pc[w] = "finishFailed" => stepStatus[at[w]] = "FAILED"

Ordered ==
    \A k \in Steps : stepStatus[k] # "PENDING" =>
        \A j \in Steps : j < k => stepStatus[j] = "COMPLETED"

Agreement == execStatus # "FAILED" => OwnersRun /\ SnapshotsHold /\ PrefixDone /\ Ordered

IInv ==
    /\ TypeOK /\ Positions /\ Started /\ SingleOwner /\ Ends /\ Repeats /\ Locks
    /\ Agreement /\ CompletedIsWhole

-----------------------------------------------------------------------------------
(* Two more, inductive beside IInv. *)

\* Who has ended the execution and not yet audited it.
Auditing ==
    {w \in Workers : pc[w] \in {"auditFailed", "auditCompleted"}} \cup {r \in Recoverers : rpc[r] = "audit"}

\* The one who ended the execution owes its audit event until it is written, or lost.
AuditsOwed ==
    /\ execStatus \notin Terminal => audits = <<>> /\ Auditing = {}
    /\ \A a, b \in Auditing : a = b
    /\ Auditing # {} => audits = <<>>
    /\ \A r \in Recoverers : rpc[r] = "audit" => execStatus = "FAILED"
    /\ AuditTellsOneEnd

\* The ids that prove an operation of step k.
Proofs(k) == 1 .. effects[k]

\* An id that anybody holds, in a row, a copy, a reply or a search, is one Jira gave.
Evidence ==
    /\ \A k \in External :
          /\ stepOutput[k] \in {NoOutput} \cup Proofs(k)
          /\ stepStatus[k] = "COMPLETED" => stepOutput[k] # NoOutput
          /\ \A w \in Workers : snapOutput[w][k] \in {NoOutput} \cup Proofs(k)
          /\ \A r \in Recoverers : rfound[r][k] \in {NoOutput} \cup Proofs(k)
    /\ \A w \in Workers : pc[w] \in {"applied", "persist"} /\ at[w] \in External =>
          reply[w] \in Proofs(at[w])

===================================================================================
