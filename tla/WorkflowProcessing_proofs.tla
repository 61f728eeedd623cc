---------------------------- MODULE WorkflowProcessing_proofs ---------------------
(***************************************************************************)
(* Proofs about WorkflowProcessing for any number of steps, workers and    *)
(* recoveries and for any bounds.                                          *)
(*                                                                         *)
(* IInv is inductive; its parts are proved in the order in which they      *)
(* depend on each other: types and positions, who owns a step, what was    *)
(* started, how executions end, the account of Jira operations, the row    *)
(* locks, and last the agreement of attempts with the rows.                *)
(*                                                                         *)
(* What a reader of the API, of the audit trail and of the outputs can     *)
(* rely on comes after that: step processing implements                    *)
(* ExecutionLifecycle, a recovery that loses its race leaves no trace, the *)
(* end is audited once, and an output is evidence.  The last two rest on   *)
(* an invariant of their own beside IInv, AuditsOwed and Evidence.         *)
(***************************************************************************)
EXTENDS WorkflowInvariants, TLAPS

-----------------------------------------------------------------------------------
(* Facts about the statements that the actions share. *)

\* The moves of a handler change nothing but where its attempt stands, and stay
\* within the label set in which the attempt owns its step.
HandlerMove(w) ==
    \/ HandleLocal(w) \/ HandleBusinessFailure(w) \/ HandleNotReady(w) \/ SendRequest(w)
    \/ JiraRejects(w) \/ JiraReplies(w)

\* A handler's move shows in its attempt's label alone.
LEMMA HandlerFacts ==
  ASSUME AttemptType, NEW w \in Workers, HandlerMove(w)
  PROVE  /\ UNCHANGED <<rows, jira, at, snapStatus, snapOutput, outs, reply, outcome,
                        recovery, counters, audits>>
         /\ pc[w] \in {"handle", "sent", "applied"}
         /\ \E label \in {"persist", "fail", "revert", "sent"} :
               /\ pc' = [pc EXCEPT ![w] = label]
               /\ label \in {"revert", "sent"} => pc[w] = "handle"
         /\ \A v \in Workers, k \in Steps : Owner(v, k)' <=> Owner(v, k)
         /\ \A v \in Workers : pc'[v] = "finishFailed" => pc[v] = "finishFailed"
  <1>1. UNCHANGED <<rows, jira, at, snapStatus, snapOutput, outs, reply, outcome, recovery,
                    counters, audits>>
    BY DEF HandlerMove, HandleLocal, HandleBusinessFailure, HandleNotReady, SendRequest,
           JiraRejects, JiraReplies
  <1>2. /\ pc[w] \in {"handle", "sent", "applied"}
        /\ \E label \in {"persist", "fail", "revert", "sent"} :
               /\ pc' = [pc EXCEPT ![w] = label]
               /\ label \in {"revert", "sent"} => pc[w] = "handle"
    BY DEF HandlerMove, HandleLocal, HandleBusinessFailure, HandleNotReady, SendRequest,
           JiraRejects, JiraReplies, Goto
  <1>3. \A v \in Workers, k \in Steps : Owner(v, k)' <=> Owner(v, k)
    BY <1>1, <1>2 DEF Owner, AttemptType
  <1>4. \A v \in Workers : pc'[v] = "finishFailed" => pc[v] = "finishFailed"
    BY <1>2 DEF AttemptType
  <1> QED BY <1>1, <1>2, <1>3, <1>4

\* A recovery that does not commit leaves rows, Jira and attempts as they are.
RecoveryPause(r) ==
    \/ FindStale(r) \/ ScanSteps(r) \/ LookupComment(r) \/ FailRunningSteps(r)
    \/ RollbackRecovery(r) \/ AuditRecovery(r) \/ AbortRecovery(r)

\* Such a move never wakes a recovery of an execution that was not claimed.
LEMMA PauseFacts ==
  ASSUME RecoveryType, NEW r \in Recoverers, RecoveryPause(r)
  PROVE  /\ UNCHANGED <<rows, jira, attempt>>
         /\ execStatus = "PENDING" => \A q \in Recoverers : rpc'[q] # "idle" => rpc[q] # "idle"
  <1>1. UNCHANGED <<rows, jira, attempt>>
    BY DEF RecoveryPause, FindStale, ScanSteps, LookupComment, FailRunningSteps,
           RollbackRecovery, AuditRecovery, AbortRecovery
  <1>2. ASSUME execStatus = "PENDING", NEW q \in Recoverers, rpc'[q] # "idle"
        PROVE  rpc[q] # "idle"
    BY <1>2 DEF RecoveryPause, FindStale, ScanSteps, LookupComment, FailRunningSteps,
           RollbackRecovery, AuditRecovery, AbortRecovery, GotoR, LeaveR, RecoveryType
  <1> QED BY <1>1, <1>2

\* What an attempt that leaves gives up: it owns nothing more, and remembers
\* nothing that it did not know.
LEMMA LeaveFacts ==
  ASSUME AttemptType, NEW w \in Workers, NEW out, Leave(w, out)
  PROVE  /\ \A v \in Workers, k \in Steps : Owner(v, k)' => Owner(v, k)
         /\ \A v \in Workers, k \in Steps : snapStatus'[v][k] # "PENDING" =>
               /\ snapStatus'[v][k] = snapStatus[v][k]
               /\ snapOutput'[v][k] = snapOutput[v][k]
         /\ \A v \in Workers, j \in Steps : j < at'[v] => j < at[v] /\ outs'[v][j] = outs[v][j]
         /\ \A v \in Workers : pc'[v] # "idle" => pc'[v] = pc[v] /\ at'[v] = at[v]
  <1>1. \A v \in Workers : v # w =>
          /\ pc'[v] = pc[v] /\ at'[v] = at[v] /\ outs'[v] = outs[v]
          /\ snapStatus'[v] = snapStatus[v] /\ snapOutput'[v] = snapOutput[v]
    BY DEF Leave, Goto, AttemptType
  <1>2. pc'[w] = "idle" /\ at'[w] = 1 /\ snapStatus'[w] = Blank
    BY DEF Leave, Goto, AttemptType
  <1>3. \A v \in Workers, k \in Steps : Owner(v, k)' => Owner(v, k)
    BY <1>1, <1>2 DEF Owner
  <1>4. \A v \in Workers, k \in Steps : snapStatus'[v][k] # "PENDING" =>
               /\ snapStatus'[v][k] = snapStatus[v][k]
               /\ snapOutput'[v][k] = snapOutput[v][k]
    BY <1>1, <1>2 DEF Blank
  <1>5. \A v \in Workers, j \in Steps : j < at'[v] => j < at[v] /\ outs'[v][j] = outs[v][j]
    BY <1>1, <1>2, StepsAssumption DEF Steps
  <1>6. \A v \in Workers : pc'[v] # "idle" => pc'[v] = pc[v] /\ at'[v] = at[v]
    BY <1>1, <1>2
  <1> QED BY <1>3, <1>4, <1>5, <1>6

-----------------------------------------------------------------------------------
(* Types and positions. *)

\* The initial state is typed and every attempt stands before the loop.
LEMMA TypeInit == Init => TypeOK /\ Positions
  BY StepsAssumption DEF Init, TypeOK, RowsType, JiraType, AttemptType, RecoveryType,
     CountersType, Positions, Steps, Blank, NoOutputs, Outputs, StepStatuses, ExecStatuses,
     AttemptPCs, RecoveryPCs, Events

\* Leaving the loop forgets the attempt's local state but keeps the types.
LEMMA LeaveType ==
  ASSUME AttemptType, Positions, NEW w \in Workers, NEW out \in {"none", "failed", "completed"}, Leave(w, out)
  PROVE  AttemptType' /\ Positions'
  <1>1. AttemptType'
    BY StepsAssumption DEF AttemptType, Leave, Goto, Steps, Blank, NoOutputs, Outputs,
       StepStatuses, AttemptPCs
  <1>2. Positions'
    BY DEF AttemptType, Positions, Leave, Goto
  <1> QED BY <1>1, <1>2

\* Going on to the next step keeps the list of outputs typed and the loop in range.
LEMMA PushType ==
  ASSUME AttemptType, Positions, NEW w \in Workers, at[w] \in Steps, NEW output \in Outputs, PushAndAdvance(w, output)
  PROVE  AttemptType' /\ Positions'
  <1>1. AttemptType'
    BY StepsAssumption DEF AttemptType, PushAndAdvance, Goto, Steps, AttemptPCs
  <1>2. Positions'
    BY StepsAssumption DEF AttemptType, Positions, PushAndAdvance, Goto, Steps
  <1> QED BY <1>1, <1>2

\* A status written to a step row keeps the rows typed.
LEMMA UpdateType ==
  ASSUME RowsType, NEW k \in Steps, NEW status \in StepStatuses, NEW output \in Outputs, UpdateStatus(k, status, output)
  PROVE  RowsType'
  BY DEF RowsType, UpdateStatus

\* A recovery that is done keeps its own variables typed.
LEMMA LeaveRType ==
  ASSUME RecoveryType, NEW r \in Recoverers, LeaveR(r)
  PROVE  RecoveryType'
  BY DEF RecoveryType, LeaveR, GotoR, RecoveryPCs, NoOutputs, Outputs

\* Types and positions in the loop are inductive together.
LEMMA TypeStep == TypeOK /\ Positions /\ [Next]_vars => TypeOK' /\ Positions'
  <1> SUFFICES ASSUME TypeOK, Positions, [Next]_vars PROVE TypeOK' /\ Positions'
    OBVIOUS
  <1> USE DEF TypeOK
  <1>1. ASSUME NEW w \in Workers, BeginAttempt(w) PROVE TypeOK' /\ Positions'
    <2>1. RowsType' /\ JiraType' /\ RecoveryType'
      BY <1>1 DEF BeginAttempt, RowsType, JiraType, RecoveryType, rows, jira, attempt, recovery,
         counters
    <2>2. AttemptType'
      BY <1>1, StepsAssumption DEF BeginAttempt, AttemptType, RowsType, JiraType, Goto,
         AttemptPCs, Steps
    <2>3. Positions'
      BY <1>1, StepsAssumption DEF BeginAttempt, AttemptType, Positions, Goto, Steps,
         DedupReason, External
    <2>4. CountersType'
      BY <1>1 DEF BeginAttempt, CountersType, Events, counters
    <2> QED BY <2>1, <2>2, <2>3, <2>4
  <1>2. ASSUME NEW w \in Workers, LoadSteps(w) PROVE TypeOK' /\ Positions'
    <2>1. RowsType' /\ JiraType' /\ RecoveryType' /\ CountersType'
      BY <1>2 DEF LoadSteps, RowsType, JiraType, RecoveryType, CountersType, rows, jira, attempt,
         recovery, counters
    <2>2. AttemptType'
      BY <1>2, StepsAssumption DEF LoadSteps, AttemptType, RowsType, JiraType, Goto, AttemptPCs,
         Steps
    <2>3. Positions'
      BY <1>2, StepsAssumption DEF LoadSteps, AttemptType, Positions, Goto, Steps, DedupReason,
         External
    <2> QED BY <2>1, <2>2, <2>3
  <1>3. ASSUME NEW w \in Workers, ClaimExecution(w) PROVE TypeOK' /\ Positions'
    <2>1. JiraType' /\ RecoveryType' /\ CountersType'
      BY <1>3 DEF ClaimExecution, JiraType, RecoveryType, CountersType, rows, jira, attempt,
         recovery, counters
    <2>2. RowsType'
      BY <1>3 DEF ClaimExecution, RowsType, AttemptType, RecoveryType, Positions, ExecStatuses,
         StepStatuses, Outputs
    <2>3. CASE execStatus = "PENDING"
      <3>1. AttemptType'
        BY <1>3, <2>3 DEF ClaimExecution, AttemptType, Goto, AttemptPCs
      <3>2. Positions'
        BY <1>3, <2>3, StepsAssumption DEF ClaimExecution, AttemptType, Positions, Goto, Steps
      <3> QED BY <2>1, <2>2, <3>1, <3>2
    <2>4. CASE execStatus # "PENDING"
      <3>1. AttemptType' /\ Positions'
        BY <1>3, <2>4, LeaveType DEF ClaimExecution
      <3> QED BY <2>1, <2>2, <3>1
    <2> QED BY <2>3, <2>4
  <1>4. ASSUME NEW w \in Workers, ClaimStep(w) PROVE TypeOK' /\ Positions'
    <2>1. JiraType' /\ RecoveryType' /\ CountersType'
      BY <1>4 DEF ClaimStep, JiraType, RecoveryType, CountersType, rows, jira, attempt, recovery,
         counters
    <2>2. RowsType'
      BY <1>4 DEF ClaimStep, RowsType, AttemptType, RecoveryType, Positions, ExecStatuses,
         StepStatuses, Outputs
    <2>3. AttemptType'
      BY <1>4, StepsAssumption DEF ClaimStep, AttemptType, RowsType, JiraType, Goto, AttemptPCs,
         Steps
    <2>4. Positions'
      BY <1>4, StepsAssumption DEF ClaimStep, AttemptType, Positions, Goto, Steps, DedupReason,
         External
    <2> QED BY <2>1, <2>2, <2>3, <2>4
  <1>5. ASSUME NEW w \in Workers, ClaimNothing(w) PROVE TypeOK' /\ Positions'
    <2>1. RowsType' /\ JiraType' /\ RecoveryType' /\ CountersType'
      BY <1>5 DEF ClaimNothing, RowsType, JiraType, RecoveryType, CountersType, rows, jira,
         attempt, recovery, counters
    <2>2. AttemptType' /\ Positions'
      <3>1. at[w] \in Steps /\ snapOutput[w][at[w]] \in Outputs /\ reply[w] \in Outputs
        BY <1>5 DEF ClaimNothing, AttemptType, Positions, Outputs
      <3> QED BY ZenonT(30), <1>5, <3>1, PushType, LeaveType DEF ClaimNothing, AttemptType, Positions, Goto,
         AttemptPCs
    <2> QED BY <2>1, <2>2
  <1>6. ASSUME NEW w \in Workers, DedupPersist(w) PROVE TypeOK' /\ Positions'
    <2>1. JiraType' /\ RecoveryType' /\ CountersType'
      BY <1>6 DEF DedupPersist, JiraType, RecoveryType, CountersType, rows, jira, attempt,
         recovery, counters
    <2>2. RowsType'
      <3>1. at[w] \in Steps /\ snapOutput[w][at[w]] \in Outputs /\ reply[w] \in Outputs
        BY <1>6 DEF DedupPersist, AttemptType, Positions, Outputs
      <3> QED BY <1>6, <3>1, UpdateType DEF DedupPersist, StepStatuses, Outputs
    <2>3. AttemptType' /\ Positions'
      <3>1. at[w] \in Steps /\ snapOutput[w][at[w]] \in Outputs /\ reply[w] \in Outputs
        BY <1>6 DEF DedupPersist, AttemptType, Positions, Outputs
      <3> QED BY <1>6, <3>1, PushType, LeaveType DEF DedupPersist
    <2> QED BY <2>1, <2>2, <2>3
  <1>7. ASSUME NEW w \in Workers, JiraApplies(w) PROVE TypeOK' /\ Positions'
    <2>1. RowsType' /\ RecoveryType' /\ CountersType'
      BY <1>7 DEF JiraApplies, RowsType, RecoveryType, CountersType, rows, jira, attempt,
         recovery, counters
    <2>2. JiraType'
      BY <1>7 DEF JiraApplies, JiraType, AttemptType, Positions
    <2>3. AttemptType'
      <3>1. at[w] \in Steps
        BY <1>7 DEF JiraApplies, Positions
      <3>2. (IF Kind[at[w]] = "JIRA_COMMENT" THEN effects[at[w]] + 1 ELSE 1) \in Nat
        BY <3>1 DEF JiraType
      <3> QED BY <1>7, <3>2 DEF JiraApplies, AttemptType, Goto, AttemptPCs
    <2>4. Positions'
      BY <1>7, StepsAssumption DEF JiraApplies, AttemptType, Positions, Goto, Steps
    <2> QED BY <2>1, <2>2, <2>3, <2>4
  <1>8. ASSUME NEW w \in Workers, TechnicalFailure(w) PROVE TypeOK' /\ Positions'
    <2>1. RowsType' /\ RecoveryType' /\ CountersType'
      BY <1>8 DEF TechnicalFailure, RowsType, RecoveryType, CountersType, rows, jira, attempt,
         recovery, counters
    <2>2. JiraType'
      BY <1>8 DEF TechnicalFailure, JiraType, AttemptType, Positions
    <2>3. AttemptType'
      BY <1>8, StepsAssumption DEF TechnicalFailure, AttemptType, RowsType, JiraType, Goto,
         AttemptPCs, Steps
    <2>4. Positions'
      BY <1>8, StepsAssumption DEF TechnicalFailure, AttemptType, Positions, Goto, Steps,
         DedupReason, External
    <2> QED BY <2>1, <2>2, <2>3, <2>4
  <1>9. ASSUME NEW w \in Workers, PersistOutput(w) PROVE TypeOK' /\ Positions'
    <2>1. JiraType' /\ RecoveryType' /\ CountersType'
      BY <1>9 DEF PersistOutput, JiraType, RecoveryType, CountersType, rows, jira, attempt,
         recovery, counters
    <2>2. RowsType'
      <3>1. at[w] \in Steps /\ snapOutput[w][at[w]] \in Outputs /\ reply[w] \in Outputs
        BY <1>9 DEF PersistOutput, AttemptType, Positions, Outputs
      <3> QED BY <1>9, <3>1, UpdateType DEF PersistOutput, StepStatuses, Outputs
    <2>3. AttemptType' /\ Positions'
      <3>1. at[w] \in Steps /\ snapOutput[w][at[w]] \in Outputs /\ reply[w] \in Outputs
        BY <1>9 DEF PersistOutput, AttemptType, Positions, Outputs
      <3> QED BY <1>9, <3>1, PushType, LeaveType DEF PersistOutput
    <2> QED BY <2>1, <2>2, <2>3
  <1>10. ASSUME NEW w \in Workers, PersistError(w) PROVE TypeOK' /\ Positions'
    <2>1. RowsType' /\ JiraType' /\ RecoveryType'
      BY <1>10 DEF PersistError, RowsType, JiraType, RecoveryType, rows, jira, attempt, recovery,
         counters
    <2>2. AttemptType'
      BY <1>10, StepsAssumption DEF PersistError, AttemptType, RowsType, JiraType, Goto,
         AttemptPCs, Steps
    <2>3. Positions'
      BY <1>10, StepsAssumption DEF PersistError, AttemptType, Positions, Goto, Steps,
         DedupReason, External
    <2>4. CountersType'
      BY <1>10 DEF PersistError, CountersType, Events, counters
    <2> QED BY <2>1, <2>2, <2>3, <2>4
  <1>11. ASSUME NEW w \in Workers, RevertStep(w) PROVE TypeOK' /\ Positions'
    <2>1. JiraType' /\ RecoveryType' /\ CountersType'
      BY <1>11 DEF RevertStep, JiraType, RecoveryType, CountersType, rows, jira, attempt,
         recovery, counters
    <2>2. RowsType'
      <3>1. at[w] \in Steps /\ snapOutput[w][at[w]] \in Outputs /\ reply[w] \in Outputs
        BY <1>11 DEF RevertStep, AttemptType, Positions, Outputs
      <3> QED BY <1>11, <3>1, UpdateType DEF RevertStep, StepStatuses, Outputs
    <2>3. AttemptType' /\ Positions'
      BY <1>11, LeaveType DEF RevertStep
    <2> QED BY <2>1, <2>2, <2>3
  <1>12. ASSUME NEW w \in Workers, FailStep(w) PROVE TypeOK' /\ Positions'
    <2>1. JiraType' /\ RecoveryType' /\ CountersType'
      BY <1>12 DEF FailStep, JiraType, RecoveryType, CountersType, rows, jira, attempt, recovery,
         counters
    <2>2. RowsType'
      <3>1. at[w] \in Steps /\ snapOutput[w][at[w]] \in Outputs /\ reply[w] \in Outputs
        BY <1>12 DEF FailStep, AttemptType, Positions, Outputs
      <3> QED BY <1>12, <3>1, UpdateType DEF FailStep, StepStatuses, Outputs
    <2>3. AttemptType'
      BY <1>12, StepsAssumption DEF FailStep, AttemptType, RowsType, JiraType, Goto, AttemptPCs,
         Steps
    <2>4. Positions'
      BY <1>12, StepsAssumption DEF FailStep, AttemptType, Positions, Goto, Steps, DedupReason,
         External
    <2> QED BY <2>1, <2>2, <2>3, <2>4
  <1>13. ASSUME NEW w \in Workers, FinishFailed(w) PROVE TypeOK' /\ Positions'
    <2>1. JiraType' /\ RecoveryType' /\ CountersType'
      BY <1>13 DEF FinishFailed, JiraType, RecoveryType, CountersType, rows, jira, attempt,
         recovery, counters
    <2>2. RowsType'
      BY <1>13 DEF FinishFailed, RowsType, AttemptType, RecoveryType, Positions, ExecStatuses,
         StepStatuses, Outputs
    <2>3. AttemptType'
      BY <1>13, StepsAssumption DEF FinishFailed, AttemptType, RowsType, JiraType, Goto,
         AttemptPCs, Steps
    <2>4. Positions'
      BY <1>13, StepsAssumption DEF FinishFailed, AttemptType, Positions, Goto, Steps,
         DedupReason, External
    <2> QED BY <2>1, <2>2, <2>3, <2>4
  <1>14. ASSUME NEW w \in Workers, FinishCompleted(w) PROVE TypeOK' /\ Positions'
    <2>1. JiraType' /\ RecoveryType' /\ CountersType'
      BY <1>14 DEF FinishCompleted, JiraType, RecoveryType, CountersType, rows, jira, attempt,
         recovery, counters
    <2>2. RowsType'
      BY <1>14 DEF FinishCompleted, RowsType, AttemptType, RecoveryType, Positions, ExecStatuses,
         StepStatuses, Outputs
    <2>3. AttemptType'
      BY <1>14, StepsAssumption DEF FinishCompleted, AttemptType, RowsType, JiraType, Goto,
         AttemptPCs, Steps
    <2>4. Positions'
      BY <1>14, StepsAssumption DEF FinishCompleted, AttemptType, Positions, Goto, Steps,
         DedupReason, External
    <2> QED BY <2>1, <2>2, <2>3, <2>4
  <1>15. ASSUME NEW w \in Workers, AuditAndReturn(w) PROVE TypeOK' /\ Positions'
    <2>1. RowsType' /\ JiraType' /\ RecoveryType'
      BY <1>15 DEF AuditAndReturn, RowsType, JiraType, RecoveryType, rows, jira, attempt,
         recovery, counters
    <2>2. AttemptType' /\ Positions'
      BY <1>15, LeaveType DEF AuditAndReturn
    <2>3. CountersType'
      BY <1>15 DEF AuditAndReturn, CountersType, Events, counters
    <2> QED BY <2>1, <2>2, <2>3
  <1>16. ASSUME NEW w \in Workers, ReadFinal(w) PROVE TypeOK' /\ Positions'
    <2>1. RowsType' /\ JiraType' /\ RecoveryType' /\ CountersType'
      BY <1>16 DEF ReadFinal, RowsType, JiraType, RecoveryType, CountersType, rows, jira,
         attempt, recovery, counters
    <2>2. AttemptType' /\ Positions'
      BY <1>16, LeaveType DEF ReadFinal, Terminal
    <2> QED BY <2>1, <2>2
  <1>17. ASSUME NEW w \in Workers, AbortAttempt(w) PROVE TypeOK' /\ Positions'
    <2>1. RowsType' /\ RecoveryType'
      BY <1>17 DEF AbortAttempt, RowsType, RecoveryType, rows, jira, attempt, recovery, counters
    <2>2. JiraType'
      BY <1>17 DEF AbortAttempt, JiraType, AttemptType, Positions
    <2>3. AttemptType' /\ Positions'
      BY <1>17, LeaveType DEF AbortAttempt
    <2>4. CountersType'
      BY <1>17 DEF AbortAttempt, CountersType, Events, counters
    <2> QED BY <2>1, <2>2, <2>3, <2>4
  <1>18. ASSUME NEW w \in Workers, HandlerMove(w) PROVE TypeOK' /\ Positions'
    <2>1. RowsType' /\ JiraType' /\ RecoveryType' /\ CountersType'
      BY <1>18, HandlerFacts DEF RowsType, JiraType, RecoveryType, CountersType, rows, jira,
         recovery, counters
    <2>2. AttemptType'
      BY <1>18, HandlerFacts DEF AttemptType, AttemptPCs
    <2>3. Positions'
      BY SMTT(30), <1>18, HandlerFacts DEF AttemptType, Positions
    <2> QED BY <2>1, <2>2, <2>3
  <1>19. ASSUME NEW r \in Recoverers, FindStale(r) PROVE TypeOK' /\ Positions'
    <2>1. RowsType' /\ JiraType' /\ AttemptType' /\ CountersType'
      BY <1>19 DEF FindStale, RowsType, JiraType, AttemptType, CountersType, rows, jira, attempt,
         recovery, counters
    <2>2. RecoveryType'
      BY <1>19 DEF FindStale, RecoveryType, RecoveryPCs, GotoR, JiraType, Outputs
    <2>3. Positions'
      BY <1>19 DEF FindStale, Positions, attempt
    <2> QED BY <2>1, <2>2, <2>3
  <1>20. ASSUME NEW r \in Recoverers, ScanSteps(r) PROVE TypeOK' /\ Positions'
    <2>1. RowsType' /\ JiraType' /\ AttemptType' /\ CountersType'
      BY <1>20 DEF ScanSteps, RowsType, JiraType, AttemptType, CountersType, rows, jira, attempt,
         recovery, counters
    <2>2. RecoveryType'
      BY <1>20 DEF ScanSteps, RecoveryType, RecoveryPCs, GotoR, JiraType, Outputs
    <2>3. Positions'
      BY <1>20 DEF ScanSteps, Positions, attempt
    <2> QED BY <2>1, <2>2, <2>3
  <1>21. ASSUME NEW r \in Recoverers, LookupComment(r) PROVE TypeOK' /\ Positions'
    <2>1. RowsType' /\ JiraType' /\ AttemptType' /\ CountersType'
      BY <1>21 DEF LookupComment, RowsType, JiraType, AttemptType, CountersType, rows, jira,
         attempt, recovery, counters
    <2>2. RecoveryType'
      BY <1>21 DEF LookupComment, RecoveryType, RecoveryPCs, GotoR, JiraType, Outputs
    <2>3. Positions'
      BY <1>21 DEF LookupComment, Positions, attempt
    <2> QED BY <2>1, <2>2, <2>3
  <1>22. ASSUME NEW r \in Recoverers, FailRunningSteps(r) PROVE TypeOK' /\ Positions'
    <2>1. RowsType' /\ JiraType' /\ AttemptType' /\ CountersType'
      BY <1>22 DEF FailRunningSteps, RowsType, JiraType, AttemptType, CountersType, rows, jira,
         attempt, recovery, counters
    <2>2. RecoveryType'
      BY <1>22 DEF FailRunningSteps, RecoveryType, RecoveryPCs, GotoR, JiraType, Outputs
    <2>3. Positions'
      BY <1>22 DEF FailRunningSteps, Positions, attempt
    <2> QED BY <2>1, <2>2, <2>3
  <1>23. ASSUME NEW r \in Recoverers, CommitRecovery(r) PROVE TypeOK' /\ Positions'
    <2>1. JiraType' /\ AttemptType' /\ CountersType'
      BY <1>23 DEF CommitRecovery, JiraType, AttemptType, CountersType, rows, jira, attempt,
         recovery, counters
    <2>2. RowsType'
      BY <1>23 DEF CommitRecovery, RowsType, AttemptType, RecoveryType, Positions, ExecStatuses,
         StepStatuses, Outputs
    <2>3. RecoveryType'
      BY <1>23 DEF CommitRecovery, RecoveryType, RecoveryPCs, GotoR, JiraType, Outputs
    <2>4. Positions'
      BY <1>23 DEF CommitRecovery, Positions, attempt
    <2> QED BY <2>1, <2>2, <2>3, <2>4
  <1>24. ASSUME NEW r \in Recoverers, RollbackRecovery(r) PROVE TypeOK' /\ Positions'
    <2>1. RowsType' /\ JiraType' /\ AttemptType' /\ CountersType'
      BY <1>24 DEF RollbackRecovery, RowsType, JiraType, AttemptType, CountersType, rows, jira,
         attempt, recovery, counters
    <2>2. RecoveryType'
      BY <1>24, LeaveRType DEF RollbackRecovery
    <2>3. Positions'
      BY <1>24 DEF RollbackRecovery, Positions, attempt
    <2> QED BY <2>1, <2>2, <2>3
  <1>25. ASSUME NEW r \in Recoverers, AuditRecovery(r) PROVE TypeOK' /\ Positions'
    <2>1. RowsType' /\ JiraType' /\ AttemptType'
      BY <1>25 DEF AuditRecovery, RowsType, JiraType, AttemptType, rows, jira, attempt, recovery,
         counters
    <2>2. RecoveryType'
      BY <1>25, LeaveRType DEF AuditRecovery
    <2>3. CountersType'
      BY <1>25 DEF AuditRecovery, CountersType, Events, counters
    <2>4. Positions'
      BY <1>25 DEF AuditRecovery, Positions, attempt
    <2> QED BY <2>1, <2>2, <2>3, <2>4
  <1>26. ASSUME NEW r \in Recoverers, AbortRecovery(r) PROVE TypeOK' /\ Positions'
    <2>1. RowsType' /\ JiraType' /\ AttemptType'
      BY <1>26 DEF AbortRecovery, RowsType, JiraType, AttemptType, rows, jira, attempt, recovery,
         counters
    <2>2. RecoveryType'
      BY <1>26, LeaveRType DEF AbortRecovery
    <2>3. CountersType'
      BY <1>26 DEF AbortRecovery, CountersType, Events, counters
    <2>4. Positions'
      BY <1>26 DEF AbortRecovery, Positions, attempt
    <2> QED BY <2>1, <2>2, <2>3, <2>4
  <1>27. ASSUME NEW k \in Steps, ApplyOrphan(k) PROVE TypeOK' /\ Positions'
    <2>1. RowsType' /\ AttemptType' /\ RecoveryType' /\ CountersType'
      BY <1>27 DEF ApplyOrphan, RowsType, AttemptType, RecoveryType, CountersType, rows, jira,
         attempt, recovery, counters
    <2>2. JiraType'
      BY <1>27 DEF ApplyOrphan, JiraType, AttemptType, Positions
    <2>3. Positions'
      BY <1>27 DEF ApplyOrphan, Positions, attempt
    <2> QED BY <2>1, <2>2, <2>3
  <1>28. CASE UNCHANGED vars
    BY <1>28 DEF vars, rows, jira, attempt, recovery, counters, RowsType, JiraType, AttemptType,
       RecoveryType, CountersType, Positions
  <1> QED BY <1>1, <1>2, <1>3, <1>4, <1>5, <1>6, <1>7, <1>8, <1>9, <1>10, <1>11, <1>12, <1>13,
     <1>14, <1>15, <1>16, <1>17, <1>18, <1>19, <1>20, <1>21, <1>22, <1>23, <1>24, <1>25, <1>26,
     <1>27, <1>28 DEF Next, AttemptStep, RecoveryStep, HandlerMove

-----------------------------------------------------------------------------------
(* The parts of the inductive invariant, one lemma each. *)

\* Only a PENDING row is claimed, and no attempt puts back a step it does not own.
LEMMA SingleOwnerStep ==
  ASSUME TypeOK, Positions, SingleOwner, [Next]_vars
  PROVE  SingleOwner'
  <1>1. ASSUME NEW w \in Workers, BeginAttempt(w) PROVE SingleOwner'
    BY <1>1, OutputAssumption, StepsAssumption DEF BeginAttempt, Goto, SingleOwner, Owner,
       TypeOK, AttemptType, RowsType, rows, jira, attempt, recovery, counters
  <1>2. ASSUME NEW w \in Workers, LoadSteps(w) PROVE SingleOwner'
    <2>1. stepStatus' = stepStatus
      BY <1>2 DEF LoadSteps, rows
    <2>2. \A v \in Workers, k \in Steps : Owner(v, k)' => Owner(v, k)
      BY <1>2 DEF LoadSteps, Goto, Owner, TypeOK, AttemptType
    <2> QED BY <2>1, <2>2 DEF SingleOwner
  <1>3. ASSUME NEW w \in Workers, ClaimExecution(w) PROVE SingleOwner'
    <2>1. stepStatus' = stepStatus
      BY <1>3 DEF ClaimExecution
    <2>2. CASE execStatus = "PENDING"
      <3>1. \A v \in Workers, k \in Steps : Owner(v, k)' => Owner(v, k)
        BY <1>3, <2>2 DEF ClaimExecution, Goto, Owner, TypeOK, AttemptType
      <3> QED BY <2>1, <3>1 DEF SingleOwner
    <2>3. CASE execStatus # "PENDING"
      <3>1. \A v \in Workers, k \in Steps : Owner(v, k)' => Owner(v, k)
        BY <1>3, <2>3, LeaveFacts DEF ClaimExecution, TypeOK
      <3> QED BY <2>1, <3>1 DEF SingleOwner
    <2> QED BY <2>2, <2>3
  <1>4. ASSUME NEW w \in Workers, ClaimStep(w) PROVE SingleOwner'
    BY <1>4, OutputAssumption, StepsAssumption DEF ClaimStep, Goto, SingleOwner, Owner, TypeOK,
       AttemptType, RowsType, rows, jira, attempt, recovery, counters
  <1>5. ASSUME NEW w \in Workers, ClaimNothing(w) PROVE SingleOwner'
    BY <1>5, OutputAssumption, StepsAssumption DEF ClaimNothing, PushAndAdvance, Leave, Goto,
       SingleOwner, Owner, TypeOK, AttemptType, RowsType, rows, jira, attempt, recovery, counters
  <1>6. ASSUME NEW w \in Workers, DedupPersist(w) PROVE SingleOwner'
    BY <1>6, OutputAssumption, StepsAssumption DEF DedupPersist, UpdateStatus, PushAndAdvance,
       Goto, SingleOwner, Owner, TypeOK, AttemptType, RowsType, rows, jira, attempt, recovery,
       counters
  <1>7. ASSUME NEW w \in Workers, JiraApplies(w) PROVE SingleOwner'
    BY <1>7, OutputAssumption, StepsAssumption DEF JiraApplies, Goto, SingleOwner, Owner, TypeOK,
       AttemptType, RowsType, rows, jira, attempt, recovery, counters
  <1>8. ASSUME NEW w \in Workers, TechnicalFailure(w) PROVE SingleOwner'
    BY <1>8, OutputAssumption, StepsAssumption DEF TechnicalFailure, Goto, SingleOwner, Owner,
       TypeOK, AttemptType, RowsType, rows, jira, attempt, recovery, counters
  <1>9. ASSUME NEW w \in Workers, PersistOutput(w) PROVE SingleOwner'
    BY <1>9, OutputAssumption, StepsAssumption DEF PersistOutput, UpdateStatus, PushAndAdvance,
       Goto, SingleOwner, Owner, TypeOK, AttemptType, RowsType, rows, jira, attempt, recovery,
       counters
  <1>10. ASSUME NEW w \in Workers, PersistError(w) PROVE SingleOwner'
    BY <1>10, OutputAssumption, StepsAssumption DEF PersistError, Goto, SingleOwner, Owner,
       TypeOK, AttemptType, RowsType, rows, jira, attempt, recovery, counters
  <1>11. ASSUME NEW w \in Workers, RevertStep(w) PROVE SingleOwner'
    BY <1>11, OutputAssumption, StepsAssumption DEF RevertStep, UpdateStatus, Leave, Goto,
       SingleOwner, Owner, TypeOK, AttemptType, RowsType, rows, jira, attempt, recovery, counters
  <1>12. ASSUME NEW w \in Workers, FailStep(w) PROVE SingleOwner'
    BY <1>12, OutputAssumption, StepsAssumption DEF FailStep, UpdateStatus, Goto, SingleOwner,
       Owner, TypeOK, AttemptType, RowsType, rows, jira, attempt, recovery, counters
  <1>13. ASSUME NEW w \in Workers, FinishFailed(w) PROVE SingleOwner'
    BY <1>13, OutputAssumption, StepsAssumption DEF FinishFailed, Goto, SingleOwner, Owner,
       TypeOK, AttemptType, RowsType, rows, jira, attempt, recovery, counters
  <1>14. ASSUME NEW w \in Workers, FinishCompleted(w) PROVE SingleOwner'
    BY <1>14, OutputAssumption, StepsAssumption DEF FinishCompleted, Goto, SingleOwner, Owner,
       TypeOK, AttemptType, RowsType, rows, jira, attempt, recovery, counters
  <1>15. ASSUME NEW w \in Workers, AuditAndReturn(w) PROVE SingleOwner'
    <2>1. stepStatus' = stepStatus /\ stepOutput' = stepOutput
      BY <1>15 DEF AuditAndReturn, rows
    <2>2. \A v \in Workers, k \in Steps : Owner(v, k)' => Owner(v, k)
      BY <1>15, LeaveFacts DEF AuditAndReturn, TypeOK
    <2> QED BY <2>1, <2>2 DEF SingleOwner
  <1>16. ASSUME NEW w \in Workers, ReadFinal(w) PROVE SingleOwner'
    <2>1. stepStatus' = stepStatus /\ stepOutput' = stepOutput
      BY <1>16 DEF ReadFinal, rows
    <2>2. \A v \in Workers, k \in Steps : Owner(v, k)' => Owner(v, k)
      BY <1>16, LeaveFacts DEF ReadFinal, TypeOK
    <2> QED BY <2>1, <2>2 DEF SingleOwner
  <1>17. ASSUME NEW w \in Workers, AbortAttempt(w) PROVE SingleOwner'
    <2>1. stepStatus' = stepStatus /\ stepOutput' = stepOutput
      BY <1>17 DEF AbortAttempt, rows
    <2>2. \A v \in Workers, k \in Steps : Owner(v, k)' => Owner(v, k)
      BY <1>17, LeaveFacts DEF AbortAttempt, TypeOK
    <2> QED BY <2>1, <2>2 DEF SingleOwner
  <1>18. ASSUME NEW r \in Recoverers, CommitRecovery(r) PROVE SingleOwner'
    BY <1>18, OutputAssumption, StepsAssumption DEF CommitRecovery, GotoR, SingleOwner, Owner,
       TypeOK, AttemptType, RowsType, rows, jira, attempt, recovery, counters
  <1>19. ASSUME NEW k \in Steps, ApplyOrphan(k) PROVE SingleOwner'
    BY <1>19, OutputAssumption, StepsAssumption DEF ApplyOrphan, SingleOwner, Owner, TypeOK,
       AttemptType, RowsType, rows, jira, attempt, recovery, counters
  <1>20. ASSUME NEW w \in Workers, HandlerMove(w) PROVE SingleOwner'
    BY <1>20, HandlerFacts, OutputAssumption, StepsAssumption DEF SingleOwner, Owner, TypeOK,
       AttemptType, RowsType, rows, jira, attempt, recovery, counters
  <1>21. ASSUME NEW r \in Recoverers, RecoveryPause(r) PROVE SingleOwner'
    BY <1>21, PauseFacts DEF SingleOwner, Owner, TypeOK, AttemptType, RowsType, rows, jira,
       attempt, recovery, counters
  <1>22. CASE UNCHANGED vars
    BY <1>22 DEF vars, SingleOwner, Owner, TypeOK, AttemptType, RowsType, rows, jira, attempt,
       recovery, counters
  <1> QED BY <1>1, <1>2, <1>3, <1>4, <1>5, <1>6, <1>7, <1>8, <1>9, <1>10, <1>11, <1>12, <1>13,
     <1>14, <1>15, <1>16, <1>17, <1>18, <1>19, <1>20, <1>21, <1>22 DEF Next, AttemptStep,
     RecoveryStep, HandlerMove, RecoveryPause

\* Steps, attempts and recoveries move only once the execution is claimed.
LEMMA StartedStep ==
  ASSUME TypeOK, Positions, Started, [Next]_vars
  PROVE  Started'
  <1>1. ASSUME NEW w \in Workers, BeginAttempt(w) PROVE Started'
    BY <1>1, StepsAssumption DEF BeginAttempt, Goto, Started, Blank, Terminal, RecoveryType,
       TypeOK, AttemptType, RowsType, rows, jira, attempt, recovery, counters
  <1>2. ASSUME NEW w \in Workers, LoadSteps(w) PROVE Started'
    BY <1>2, StepsAssumption DEF LoadSteps, Goto, Started, Blank, Terminal, RecoveryType, TypeOK,
       AttemptType, RowsType, rows, jira, attempt, recovery, counters
  <1>3. ASSUME NEW w \in Workers, ClaimExecution(w) PROVE Started'
    BY <1>3, StepsAssumption DEF ClaimExecution, Leave, Goto, Started, Blank, Terminal,
       RecoveryType, TypeOK, AttemptType, RowsType, rows, jira, attempt, recovery, counters
  <1>4. ASSUME NEW w \in Workers, ClaimStep(w) PROVE Started'
    BY <1>4, StepsAssumption DEF ClaimStep, Goto, Started, Blank, Terminal, RecoveryType, TypeOK,
       AttemptType, RowsType, rows, jira, attempt, recovery, counters
  <1>5. ASSUME NEW w \in Workers, ClaimNothing(w) PROVE Started'
    BY <1>5, StepsAssumption DEF ClaimNothing, PushAndAdvance, Leave, Goto, Started, Blank,
       Terminal, RecoveryType, TypeOK, AttemptType, RowsType, rows, jira, attempt, recovery,
       counters
  <1>6. ASSUME NEW w \in Workers, DedupPersist(w) PROVE Started'
    BY <1>6, StepsAssumption DEF DedupPersist, UpdateStatus, PushAndAdvance, Goto, Started,
       Blank, Terminal, RecoveryType, TypeOK, AttemptType, RowsType, rows, jira, attempt,
       recovery, counters
  <1>7. ASSUME NEW w \in Workers, JiraApplies(w) PROVE Started'
    BY <1>7, StepsAssumption DEF JiraApplies, Goto, Started, Blank, Terminal, RecoveryType,
       TypeOK, AttemptType, RowsType, rows, jira, attempt, recovery, counters
  <1>8. ASSUME NEW w \in Workers, TechnicalFailure(w) PROVE Started'
    BY <1>8, StepsAssumption DEF TechnicalFailure, Goto, Started, Blank, Terminal, RecoveryType,
       TypeOK, AttemptType, RowsType, rows, jira, attempt, recovery, counters
  <1>9. ASSUME NEW w \in Workers, PersistOutput(w) PROVE Started'
    BY <1>9, StepsAssumption DEF PersistOutput, UpdateStatus, PushAndAdvance, Goto, Started,
       Blank, Terminal, RecoveryType, TypeOK, AttemptType, RowsType, rows, jira, attempt,
       recovery, counters
  <1>10. ASSUME NEW w \in Workers, PersistError(w) PROVE Started'
    BY <1>10, StepsAssumption DEF PersistError, Goto, Started, Blank, Terminal, RecoveryType,
       TypeOK, AttemptType, RowsType, rows, jira, attempt, recovery, counters
  <1>11. ASSUME NEW w \in Workers, RevertStep(w) PROVE Started'
    BY <1>11, StepsAssumption DEF RevertStep, UpdateStatus, Leave, Goto, Started, Blank,
       Terminal, RecoveryType, TypeOK, AttemptType, RowsType, rows, jira, attempt, recovery,
       counters
  <1>12. ASSUME NEW w \in Workers, FailStep(w) PROVE Started'
    BY <1>12, StepsAssumption DEF FailStep, UpdateStatus, Goto, Started, Blank, Terminal,
       RecoveryType, TypeOK, AttemptType, RowsType, rows, jira, attempt, recovery, counters
  <1>13. ASSUME NEW w \in Workers, FinishFailed(w) PROVE Started'
    BY <1>13, StepsAssumption DEF FinishFailed, Goto, Started, Blank, Terminal, RecoveryType,
       TypeOK, AttemptType, RowsType, rows, jira, attempt, recovery, counters
  <1>14. ASSUME NEW w \in Workers, FinishCompleted(w) PROVE Started'
    BY <1>14, StepsAssumption DEF FinishCompleted, Goto, Started, Blank, Terminal, RecoveryType,
       TypeOK, AttemptType, RowsType, rows, jira, attempt, recovery, counters
  <1>15. ASSUME NEW w \in Workers, AuditAndReturn(w) PROVE Started'
    BY <1>15, StepsAssumption DEF AuditAndReturn, Leave, Goto, Started, Blank, Terminal,
       RecoveryType, TypeOK, AttemptType, RowsType, rows, jira, attempt, recovery, counters
  <1>16. ASSUME NEW w \in Workers, ReadFinal(w) PROVE Started'
    BY <1>16, StepsAssumption DEF ReadFinal, Leave, Goto, Started, Blank, Terminal, RecoveryType,
       TypeOK, AttemptType, RowsType, rows, jira, attempt, recovery, counters
  <1>17. ASSUME NEW w \in Workers, AbortAttempt(w) PROVE Started'
    BY <1>17, StepsAssumption DEF AbortAttempt, Leave, Goto, Started, Blank, Terminal,
       RecoveryType, TypeOK, AttemptType, RowsType, rows, jira, attempt, recovery, counters
  <1>18. ASSUME NEW r \in Recoverers, CommitRecovery(r) PROVE Started'
    BY <1>18, StepsAssumption DEF CommitRecovery, GotoR, Started, Blank, Terminal, RecoveryType,
       TypeOK, AttemptType, RowsType, rows, jira, attempt, recovery, counters
  <1>19. ASSUME NEW k \in Steps, ApplyOrphan(k) PROVE Started'
    BY <1>19, StepsAssumption DEF ApplyOrphan, Started, Blank, Terminal, RecoveryType, TypeOK,
       AttemptType, RowsType, rows, jira, attempt, recovery, counters
  <1>20. ASSUME NEW w \in Workers, HandlerMove(w) PROVE Started'
    BY <1>20, HandlerFacts, StepsAssumption DEF Started, Blank, Terminal, RecoveryType, TypeOK,
       AttemptType, RowsType, rows, jira, attempt, recovery, counters
  <1>21. ASSUME NEW r \in Recoverers, RecoveryPause(r) PROVE Started'
    BY <1>21, PauseFacts DEF Started, rows, attempt, TypeOK
  <1>22. CASE UNCHANGED vars
    BY <1>22 DEF vars, Started, Blank, Terminal, RecoveryType, TypeOK, AttemptType, RowsType,
       rows, jira, attempt, recovery, counters
  <1> QED BY <1>1, <1>2, <1>3, <1>4, <1>5, <1>6, <1>7, <1>8, <1>9, <1>10, <1>11, <1>12, <1>13,
     <1>14, <1>15, <1>16, <1>17, <1>18, <1>19, <1>20, <1>21, <1>22 DEF Next, AttemptStep,
     RecoveryStep, HandlerMove, RecoveryPause

\* A guarded finalize or a read of a terminal row precedes every outcome.
LEMMA EndsStep ==
  ASSUME TypeOK, Positions, Started, Ends, [Next]_vars
  PROVE  Ends'
  <1>1. ASSUME NEW w \in Workers, BeginAttempt(w) PROVE Ends'
    BY <1>1 DEF BeginAttempt, Goto, Ends, OutcomeIsTrue, Started, Terminal, ExecStatuses, TypeOK,
       AttemptType, RowsType, rows, jira, attempt, recovery, counters
  <1>2. ASSUME NEW w \in Workers, LoadSteps(w) PROVE Ends'
    BY <1>2 DEF LoadSteps, Goto, Ends, OutcomeIsTrue, Started, Terminal, ExecStatuses, TypeOK,
       AttemptType, RowsType, rows, jira, attempt, recovery, counters
  <1>3. ASSUME NEW w \in Workers, ClaimExecution(w) PROVE Ends'
    BY <1>3 DEF ClaimExecution, Leave, Goto, Ends, OutcomeIsTrue, Started, Terminal,
       ExecStatuses, TypeOK, AttemptType, RowsType, rows, jira, attempt, recovery, counters
  <1>4. ASSUME NEW w \in Workers, ClaimStep(w) PROVE Ends'
    BY <1>4 DEF ClaimStep, Goto, Ends, OutcomeIsTrue, Started, Terminal, ExecStatuses, TypeOK,
       AttemptType, RowsType, rows, jira, attempt, recovery, counters
  <1>5. ASSUME NEW w \in Workers, ClaimNothing(w) PROVE Ends'
    BY <1>5 DEF ClaimNothing, PushAndAdvance, Leave, Goto, Ends, OutcomeIsTrue, Started,
       Terminal, ExecStatuses, TypeOK, AttemptType, RowsType, rows, jira, attempt, recovery,
       counters
  <1>6. ASSUME NEW w \in Workers, DedupPersist(w) PROVE Ends'
    BY <1>6 DEF DedupPersist, UpdateStatus, PushAndAdvance, Goto, Ends, OutcomeIsTrue, Started,
       Terminal, ExecStatuses, TypeOK, AttemptType, RowsType, rows, jira, attempt, recovery,
       counters
  <1>7. ASSUME NEW w \in Workers, JiraApplies(w) PROVE Ends'
    BY <1>7 DEF JiraApplies, Goto, Ends, OutcomeIsTrue, Started, Terminal, ExecStatuses, TypeOK,
       AttemptType, RowsType, rows, jira, attempt, recovery, counters
  <1>8. ASSUME NEW w \in Workers, TechnicalFailure(w) PROVE Ends'
    BY <1>8 DEF TechnicalFailure, Goto, Ends, OutcomeIsTrue, Started, Terminal, ExecStatuses,
       TypeOK, AttemptType, RowsType, rows, jira, attempt, recovery, counters
  <1>9. ASSUME NEW w \in Workers, PersistOutput(w) PROVE Ends'
    BY <1>9 DEF PersistOutput, UpdateStatus, PushAndAdvance, Goto, Ends, OutcomeIsTrue, Started,
       Terminal, ExecStatuses, TypeOK, AttemptType, RowsType, rows, jira, attempt, recovery,
       counters
  <1>10. ASSUME NEW w \in Workers, PersistError(w) PROVE Ends'
    BY <1>10 DEF PersistError, Goto, Ends, OutcomeIsTrue, Started, Terminal, ExecStatuses,
       TypeOK, AttemptType, RowsType, rows, jira, attempt, recovery, counters
  <1>11. ASSUME NEW w \in Workers, RevertStep(w) PROVE Ends'
    BY <1>11 DEF RevertStep, UpdateStatus, Leave, Goto, Ends, OutcomeIsTrue, Started, Terminal,
       ExecStatuses, TypeOK, AttemptType, RowsType, rows, jira, attempt, recovery, counters
  <1>12. ASSUME NEW w \in Workers, FailStep(w) PROVE Ends'
    BY <1>12 DEF FailStep, UpdateStatus, Goto, Ends, OutcomeIsTrue, Started, Terminal,
       ExecStatuses, TypeOK, AttemptType, RowsType, rows, jira, attempt, recovery, counters
  <1>13. ASSUME NEW w \in Workers, FinishFailed(w) PROVE Ends'
    BY <1>13 DEF FinishFailed, Goto, Ends, OutcomeIsTrue, Started, Terminal, ExecStatuses,
       TypeOK, AttemptType, RowsType, rows, jira, attempt, recovery, counters
  <1>14. ASSUME NEW w \in Workers, FinishCompleted(w) PROVE Ends'
    BY <1>14 DEF FinishCompleted, Goto, Ends, OutcomeIsTrue, Started, Terminal, ExecStatuses,
       TypeOK, AttemptType, RowsType, rows, jira, attempt, recovery, counters
  <1>15. ASSUME NEW w \in Workers, AuditAndReturn(w) PROVE Ends'
    BY <1>15 DEF AuditAndReturn, Leave, Goto, Ends, OutcomeIsTrue, Started, Terminal,
       ExecStatuses, TypeOK, AttemptType, RowsType, rows, jira, attempt, recovery, counters
  <1>16. ASSUME NEW w \in Workers, ReadFinal(w) PROVE Ends'
    BY <1>16 DEF ReadFinal, Leave, Goto, Ends, OutcomeIsTrue, Started, Terminal, ExecStatuses,
       TypeOK, AttemptType, RowsType, rows, jira, attempt, recovery, counters
  <1>17. ASSUME NEW w \in Workers, AbortAttempt(w) PROVE Ends'
    BY <1>17 DEF AbortAttempt, Leave, Goto, Ends, OutcomeIsTrue, Started, Terminal, ExecStatuses,
       TypeOK, AttemptType, RowsType, rows, jira, attempt, recovery, counters
  <1>18. ASSUME NEW r \in Recoverers, CommitRecovery(r) PROVE Ends'
    BY <1>18 DEF CommitRecovery, GotoR, Ends, OutcomeIsTrue, Started, Terminal, ExecStatuses,
       TypeOK, AttemptType, RowsType, rows, jira, attempt, recovery, counters
  <1>19. ASSUME NEW k \in Steps, ApplyOrphan(k) PROVE Ends'
    BY <1>19 DEF ApplyOrphan, Ends, OutcomeIsTrue, Started, Terminal, ExecStatuses, TypeOK,
       AttemptType, RowsType, rows, jira, attempt, recovery, counters
  <1>20. ASSUME NEW w \in Workers, HandlerMove(w) PROVE Ends'
    BY ZenonT(30), <1>20, HandlerFacts DEF Ends, OutcomeIsTrue, Started, Terminal, ExecStatuses, TypeOK,
       AttemptType, RowsType, rows, jira, attempt, recovery, counters
  <1>21. ASSUME NEW r \in Recoverers, RecoveryPause(r) PROVE Ends'
    BY <1>21, PauseFacts DEF Ends, OutcomeIsTrue, Started, Terminal, ExecStatuses, TypeOK,
       AttemptType, RowsType, rows, jira, attempt, recovery, counters
  <1>22. CASE UNCHANGED vars
    BY <1>22 DEF vars, Ends, OutcomeIsTrue, Started, Terminal, ExecStatuses, TypeOK, AttemptType,
       RowsType, rows, jira, attempt, recovery, counters
  <1> QED BY <1>1, <1>2, <1>3, <1>4, <1>5, <1>6, <1>7, <1>8, <1>9, <1>10, <1>11, <1>12, <1>13,
     <1>14, <1>15, <1>16, <1>17, <1>18, <1>19, <1>20, <1>21, <1>22 DEF Next, AttemptStep,
     RecoveryStep, HandlerMove, RecoveryPause

\* A step is put back only after a technical failure or before it was sent.
LEMMA RepeatsStep ==
  ASSUME TypeOK, Positions, SingleOwner, Repeats, [Next]_vars
  PROVE  Repeats'
  <1>1. ASSUME NEW w \in Workers, BeginAttempt(w) PROVE Repeats'
    BY <1>1 DEF BeginAttempt, Goto, Repeats, SingleOwner, Owner, JiraType, TypeOK, AttemptType,
       RowsType, rows, jira, attempt, recovery, counters
  <1>2. ASSUME NEW w \in Workers, LoadSteps(w) PROVE Repeats'
    BY <1>2 DEF LoadSteps, Goto, Repeats, SingleOwner, Owner, JiraType, TypeOK, AttemptType,
       RowsType, rows, jira, attempt, recovery, counters
  <1>3. ASSUME NEW w \in Workers, ClaimExecution(w) PROVE Repeats'
    BY ZenonT(30), <1>3 DEF ClaimExecution, Leave, Goto, Repeats, SingleOwner, Owner, JiraType, TypeOK,
       AttemptType, RowsType, rows, jira, attempt, recovery, counters
  <1>4. ASSUME NEW w \in Workers, ClaimStep(w) PROVE Repeats'
    BY <1>4 DEF ClaimStep, Goto, Repeats, SingleOwner, Owner, JiraType, TypeOK, AttemptType,
       RowsType, rows, jira, attempt, recovery, counters
  <1>5. ASSUME NEW w \in Workers, ClaimNothing(w) PROVE Repeats'
    BY <1>5 DEF ClaimNothing, PushAndAdvance, Leave, Goto, Repeats, SingleOwner, Owner, JiraType,
       TypeOK, AttemptType, RowsType, rows, jira, attempt, recovery, counters
  <1>6. ASSUME NEW w \in Workers, DedupPersist(w) PROVE Repeats'
    BY <1>6 DEF DedupPersist, UpdateStatus, PushAndAdvance, Goto, Repeats, SingleOwner, Owner,
       JiraType, TypeOK, AttemptType, RowsType, rows, jira, attempt, recovery, counters
  <1>7. ASSUME NEW w \in Workers, JiraApplies(w) PROVE Repeats'
    BY <1>7 DEF JiraApplies, Goto, Repeats, SingleOwner, Owner, JiraType, TypeOK, AttemptType,
       RowsType, rows, jira, attempt, recovery, counters
  <1>8. ASSUME NEW w \in Workers, TechnicalFailure(w) PROVE Repeats'
    BY <1>8 DEF TechnicalFailure, Goto, Repeats, SingleOwner, Owner, JiraType, TypeOK,
       AttemptType, RowsType, rows, jira, attempt, recovery, counters
  <1>9. ASSUME NEW w \in Workers, PersistOutput(w) PROVE Repeats'
    BY <1>9 DEF PersistOutput, UpdateStatus, PushAndAdvance, Goto, Repeats, SingleOwner, Owner,
       JiraType, TypeOK, AttemptType, RowsType, rows, jira, attempt, recovery, counters
  <1>10. ASSUME NEW w \in Workers, PersistError(w) PROVE Repeats'
    BY <1>10 DEF PersistError, Goto, Repeats, SingleOwner, Owner, JiraType, TypeOK, AttemptType,
       RowsType, rows, jira, attempt, recovery, counters
  <1>11. ASSUME NEW w \in Workers, RevertStep(w) PROVE Repeats'
    BY <1>11 DEF RevertStep, UpdateStatus, Leave, Goto, Repeats, SingleOwner, Owner, JiraType,
       TypeOK, AttemptType, RowsType, rows, jira, attempt, recovery, counters
  <1>12. ASSUME NEW w \in Workers, FailStep(w) PROVE Repeats'
    BY <1>12 DEF FailStep, UpdateStatus, Goto, Repeats, SingleOwner, Owner, JiraType, TypeOK,
       AttemptType, RowsType, rows, jira, attempt, recovery, counters
  <1>13. ASSUME NEW w \in Workers, FinishFailed(w) PROVE Repeats'
    BY <1>13 DEF FinishFailed, Goto, Repeats, SingleOwner, Owner, JiraType, TypeOK, AttemptType,
       RowsType, rows, jira, attempt, recovery, counters
  <1>14. ASSUME NEW w \in Workers, FinishCompleted(w) PROVE Repeats'
    BY <1>14 DEF FinishCompleted, Goto, Repeats, SingleOwner, Owner, JiraType, TypeOK,
       AttemptType, RowsType, rows, jira, attempt, recovery, counters
  <1>15. ASSUME NEW w \in Workers, AuditAndReturn(w) PROVE Repeats'
    BY <1>15 DEF AuditAndReturn, Leave, Goto, Repeats, SingleOwner, Owner, JiraType, TypeOK,
       AttemptType, RowsType, rows, jira, attempt, recovery, counters
  <1>16. ASSUME NEW w \in Workers, ReadFinal(w) PROVE Repeats'
    BY <1>16 DEF ReadFinal, Leave, Goto, Repeats, SingleOwner, Owner, JiraType, TypeOK,
       AttemptType, RowsType, rows, jira, attempt, recovery, counters
  <1>17. ASSUME NEW w \in Workers, AbortAttempt(w) PROVE Repeats'
    BY <1>17 DEF AbortAttempt, Leave, Goto, Repeats, SingleOwner, Owner, JiraType, TypeOK,
       AttemptType, RowsType, rows, jira, attempt, recovery, counters
  <1>18. ASSUME NEW r \in Recoverers, CommitRecovery(r) PROVE Repeats'
    BY <1>18 DEF CommitRecovery, GotoR, Repeats, SingleOwner, Owner, JiraType, TypeOK,
       AttemptType, RowsType, rows, jira, attempt, recovery, counters
  <1>19. ASSUME NEW k \in Steps, ApplyOrphan(k) PROVE Repeats'
    BY <1>19 DEF ApplyOrphan, Repeats, SingleOwner, Owner, JiraType, TypeOK, AttemptType,
       RowsType, rows, jira, attempt, recovery, counters
  <1>20. ASSUME NEW w \in Workers, HandlerMove(w) PROVE Repeats'
    BY SMTT(30), <1>20, HandlerFacts DEF Repeats, SingleOwner, Owner, JiraType, TypeOK, AttemptType,
       RowsType, rows, jira, attempt, recovery, counters
  <1>21. ASSUME NEW r \in Recoverers, RecoveryPause(r) PROVE Repeats'
    BY <1>21, PauseFacts DEF Repeats, SingleOwner, Owner, JiraType, TypeOK, AttemptType,
       RowsType, rows, jira, attempt, recovery, counters
  <1>22. CASE UNCHANGED vars
    BY <1>22 DEF vars, Repeats, SingleOwner, Owner, JiraType, TypeOK, AttemptType, RowsType,
       rows, jira, attempt, recovery, counters
  <1> QED BY <1>1, <1>2, <1>3, <1>4, <1>5, <1>6, <1>7, <1>8, <1>9, <1>10, <1>11, <1>12, <1>13,
     <1>14, <1>15, <1>16, <1>17, <1>18, <1>19, <1>20, <1>21, <1>22 DEF Next, AttemptStep,
     RecoveryStep, HandlerMove, RecoveryPause

\* A locked row waits for its transaction, and transactions exclude each other.
LEMMA LocksStep ==
  ASSUME TypeOK, Positions, SingleOwner, Locks, [Next]_vars
  PROVE  Locks'
  <1>1. ASSUME NEW w \in Workers, BeginAttempt(w) PROVE Locks'
    BY <1>1 DEF BeginAttempt, Goto, Locks, SingleOwner, Owner, RecoveryType, TypeOK, AttemptType,
       RowsType, rows, jira, attempt, recovery, counters
  <1>2. ASSUME NEW w \in Workers, LoadSteps(w) PROVE Locks'
    BY <1>2 DEF LoadSteps, Goto, Locks, SingleOwner, Owner, RecoveryType, TypeOK, AttemptType,
       RowsType, rows, jira, attempt, recovery, counters
  <1>3. ASSUME NEW w \in Workers, ClaimExecution(w) PROVE Locks'
    BY <1>3 DEF ClaimExecution, Leave, Goto, Locks, SingleOwner, Owner, RecoveryType, TypeOK,
       AttemptType, RowsType, rows, jira, attempt, recovery, counters
  <1>4. ASSUME NEW w \in Workers, ClaimStep(w) PROVE Locks'
    BY <1>4 DEF ClaimStep, Goto, Locks, SingleOwner, Owner, RecoveryType, TypeOK, AttemptType,
       RowsType, rows, jira, attempt, recovery, counters
  <1>5. ASSUME NEW w \in Workers, ClaimNothing(w) PROVE Locks'
    BY <1>5 DEF ClaimNothing, PushAndAdvance, Leave, Goto, Locks, SingleOwner, Owner,
       RecoveryType, TypeOK, AttemptType, RowsType, rows, jira, attempt, recovery, counters
  <1>6. ASSUME NEW w \in Workers, DedupPersist(w) PROVE Locks'
    BY <1>6 DEF DedupPersist, UpdateStatus, PushAndAdvance, Goto, Locks, SingleOwner, Owner,
       RecoveryType, TypeOK, AttemptType, RowsType, rows, jira, attempt, recovery, counters
  <1>7. ASSUME NEW w \in Workers, JiraApplies(w) PROVE Locks'
    BY <1>7 DEF JiraApplies, Goto, Locks, SingleOwner, Owner, RecoveryType, TypeOK, AttemptType,
       RowsType, rows, jira, attempt, recovery, counters
  <1>8. ASSUME NEW w \in Workers, TechnicalFailure(w) PROVE Locks'
    BY <1>8 DEF TechnicalFailure, Goto, Locks, SingleOwner, Owner, RecoveryType, TypeOK,
       AttemptType, RowsType, rows, jira, attempt, recovery, counters
  <1>9. ASSUME NEW w \in Workers, PersistOutput(w) PROVE Locks'
    BY <1>9 DEF PersistOutput, UpdateStatus, PushAndAdvance, Goto, Locks, SingleOwner, Owner,
       RecoveryType, TypeOK, AttemptType, RowsType, rows, jira, attempt, recovery, counters
  <1>10. ASSUME NEW w \in Workers, PersistError(w) PROVE Locks'
    BY <1>10 DEF PersistError, Goto, Locks, SingleOwner, Owner, RecoveryType, TypeOK,
       AttemptType, RowsType, rows, jira, attempt, recovery, counters
  <1>11. ASSUME NEW w \in Workers, RevertStep(w) PROVE Locks'
    BY <1>11 DEF RevertStep, UpdateStatus, Leave, Goto, Locks, SingleOwner, Owner, RecoveryType,
       TypeOK, AttemptType, RowsType, rows, jira, attempt, recovery, counters
  <1>12. ASSUME NEW w \in Workers, FailStep(w) PROVE Locks'
    BY <1>12 DEF FailStep, UpdateStatus, Goto, Locks, SingleOwner, Owner, RecoveryType, TypeOK,
       AttemptType, RowsType, rows, jira, attempt, recovery, counters
  <1>13. ASSUME NEW w \in Workers, FinishFailed(w) PROVE Locks'
    BY <1>13 DEF FinishFailed, Goto, Locks, SingleOwner, Owner, RecoveryType, TypeOK,
       AttemptType, RowsType, rows, jira, attempt, recovery, counters
  <1>14. ASSUME NEW w \in Workers, FinishCompleted(w) PROVE Locks'
    BY <1>14 DEF FinishCompleted, Goto, Locks, SingleOwner, Owner, RecoveryType, TypeOK,
       AttemptType, RowsType, rows, jira, attempt, recovery, counters
  <1>15. ASSUME NEW w \in Workers, AuditAndReturn(w) PROVE Locks'
    BY <1>15 DEF AuditAndReturn, Leave, Goto, Locks, SingleOwner, Owner, RecoveryType, TypeOK,
       AttemptType, RowsType, rows, jira, attempt, recovery, counters
  <1>16. ASSUME NEW w \in Workers, ReadFinal(w) PROVE Locks'
    BY <1>16 DEF ReadFinal, Leave, Goto, Locks, SingleOwner, Owner, RecoveryType, TypeOK,
       AttemptType, RowsType, rows, jira, attempt, recovery, counters
  <1>17. ASSUME NEW w \in Workers, AbortAttempt(w) PROVE Locks'
    BY <1>17 DEF AbortAttempt, Leave, Goto, Locks, SingleOwner, Owner, RecoveryType, TypeOK,
       AttemptType, RowsType, rows, jira, attempt, recovery, counters
  <1>18. ASSUME NEW r \in Recoverers, CommitRecovery(r) PROVE Locks'
    BY <1>18 DEF CommitRecovery, GotoR, Locks, SingleOwner, Owner, RecoveryType, TypeOK,
       AttemptType, RowsType, rows, jira, attempt, recovery, counters
  <1>19. ASSUME NEW k \in Steps, ApplyOrphan(k) PROVE Locks'
    BY <1>19 DEF ApplyOrphan, Locks, SingleOwner, Owner, RecoveryType, TypeOK, AttemptType,
       RowsType, rows, jira, attempt, recovery, counters
  <1>20. ASSUME NEW w \in Workers, HandlerMove(w) PROVE Locks'
    BY <1>20, HandlerFacts DEF Locks, SingleOwner, Owner, RecoveryType, TypeOK, AttemptType,
       RowsType, rows, jira, attempt, recovery, counters
  <1>21. ASSUME NEW r \in Recoverers, FindStale(r) PROVE Locks'
    BY <1>21 DEF FindStale, GotoR, Locks, TypeOK, RecoveryType, rows, jira, attempt, counters
  <1>22. ASSUME NEW r \in Recoverers, ScanSteps(r) PROVE Locks'
    BY <1>22 DEF ScanSteps, GotoR, Locks, TypeOK, RecoveryType, rows, jira, attempt, counters
  <1>23. ASSUME NEW r \in Recoverers, LookupComment(r) PROVE Locks'
    BY <1>23 DEF LookupComment, GotoR, Locks, TypeOK, RecoveryType, rows, jira, attempt, counters
  <1>24. ASSUME NEW r \in Recoverers, FailRunningSteps(r) PROVE Locks'
    BY <1>24 DEF FailRunningSteps, GotoR, Locks, TypeOK, RecoveryType, rows, jira, attempt,
       counters
  <1>25. ASSUME NEW r \in Recoverers, RollbackRecovery(r) PROVE Locks'
    BY <1>25 DEF RollbackRecovery, LeaveR, GotoR, Locks, TypeOK, RecoveryType, rows, jira,
       attempt, counters
  <1>26. ASSUME NEW r \in Recoverers, AuditRecovery(r) PROVE Locks'
    BY <1>26 DEF AuditRecovery, LeaveR, GotoR, Locks, TypeOK, RecoveryType, rows, jira, attempt,
       counters
  <1>27. ASSUME NEW r \in Recoverers, AbortRecovery(r) PROVE Locks'
    BY <1>27 DEF AbortRecovery, LeaveR, GotoR, Locks, TypeOK, RecoveryType, rows, jira, attempt,
       counters
  <1>28. CASE UNCHANGED vars
    BY <1>28 DEF vars, Locks, SingleOwner, Owner, RecoveryType, TypeOK, AttemptType, RowsType,
       rows, jira, attempt, recovery, counters
  <1> QED BY <1>1, <1>2, <1>3, <1>4, <1>5, <1>6, <1>7, <1>8, <1>9, <1>10, <1>11, <1>12, <1>13,
     <1>14, <1>15, <1>16, <1>17, <1>18, <1>19, <1>20, <1>21, <1>22, <1>23, <1>24, <1>25, <1>26,
     <1>27, <1>28 DEF Next, AttemptStep, RecoveryStep, HandlerMove, RecoveryPause

\* Nobody but its owner moves a RUNNING step until the recovery commits.
LEMMA OwnersRunStep ==
  ASSUME TypeOK, Positions, Started, SingleOwner, execStatus # "FAILED", execStatus' # "FAILED",
         OwnersRun, SnapshotsHold, PrefixDone, Ordered, [Next]_vars
  PROVE  OwnersRun'
  <1>1. ASSUME NEW w \in Workers, BeginAttempt(w) PROVE OwnersRun'
    BY <1>1, StepsAssumption, OutputAssumption DEF BeginAttempt, Goto, Positions, Started, Steps,
       SingleOwner, Owner, OwnersRun, SnapshotsHold, PrefixDone, Ordered, TypeOK, AttemptType,
       RowsType, rows, jira, attempt, recovery, counters
  <1>2. ASSUME NEW w \in Workers, LoadSteps(w) PROVE OwnersRun'
    BY <1>2, StepsAssumption, OutputAssumption DEF LoadSteps, Goto, Positions, Started, Steps,
       SingleOwner, Owner, OwnersRun, SnapshotsHold, PrefixDone, Ordered, TypeOK, AttemptType,
       RowsType, rows, jira, attempt, recovery, counters
  <1>3. ASSUME NEW w \in Workers, ClaimExecution(w) PROVE OwnersRun'
    BY <1>3, StepsAssumption, OutputAssumption DEF ClaimExecution, Leave, Goto, Positions,
       Started, Steps, SingleOwner, Owner, OwnersRun, SnapshotsHold, PrefixDone, Ordered, TypeOK,
       AttemptType, RowsType, rows, jira, attempt, recovery, counters
  <1>4. ASSUME NEW w \in Workers, ClaimStep(w) PROVE OwnersRun'
    BY <1>4, StepsAssumption, OutputAssumption DEF ClaimStep, Goto, Positions, Started, Steps,
       SingleOwner, Owner, OwnersRun, SnapshotsHold, PrefixDone, Ordered, TypeOK, AttemptType,
       RowsType, rows, jira, attempt, recovery, counters
  <1>5. ASSUME NEW w \in Workers, ClaimNothing(w) PROVE OwnersRun'
    BY <1>5, StepsAssumption, OutputAssumption DEF ClaimNothing, PushAndAdvance, Leave, Goto,
       Positions, Started, Steps, SingleOwner, Owner, OwnersRun, SnapshotsHold, PrefixDone,
       Ordered, TypeOK, AttemptType, RowsType, rows, jira, attempt, recovery, counters
  <1>6. ASSUME NEW w \in Workers, DedupPersist(w) PROVE OwnersRun'
    BY <1>6, StepsAssumption, OutputAssumption DEF DedupPersist, UpdateStatus, PushAndAdvance,
       Goto, Positions, Started, Steps, SingleOwner, Owner, OwnersRun, SnapshotsHold, PrefixDone,
       Ordered, TypeOK, AttemptType, RowsType, rows, jira, attempt, recovery, counters
  <1>7. ASSUME NEW w \in Workers, JiraApplies(w) PROVE OwnersRun'
    BY <1>7, StepsAssumption, OutputAssumption DEF JiraApplies, Goto, Positions, Started, Steps,
       SingleOwner, Owner, OwnersRun, SnapshotsHold, PrefixDone, Ordered, TypeOK, AttemptType,
       RowsType, rows, jira, attempt, recovery, counters
  <1>8. ASSUME NEW w \in Workers, TechnicalFailure(w) PROVE OwnersRun'
    BY <1>8, StepsAssumption, OutputAssumption DEF TechnicalFailure, Goto, Positions, Started,
       Steps, SingleOwner, Owner, OwnersRun, SnapshotsHold, PrefixDone, Ordered, TypeOK,
       AttemptType, RowsType, rows, jira, attempt, recovery, counters
  <1>9. ASSUME NEW w \in Workers, PersistOutput(w) PROVE OwnersRun'
    BY <1>9, StepsAssumption, OutputAssumption DEF PersistOutput, UpdateStatus, PushAndAdvance,
       Goto, Positions, Started, Steps, SingleOwner, Owner, OwnersRun, SnapshotsHold, PrefixDone,
       Ordered, TypeOK, AttemptType, RowsType, rows, jira, attempt, recovery, counters
  <1>10. ASSUME NEW w \in Workers, PersistError(w) PROVE OwnersRun'
    BY <1>10, StepsAssumption, OutputAssumption DEF PersistError, Goto, Positions, Started,
       Steps, SingleOwner, Owner, OwnersRun, SnapshotsHold, PrefixDone, Ordered, TypeOK,
       AttemptType, RowsType, rows, jira, attempt, recovery, counters
  <1>11. ASSUME NEW w \in Workers, RevertStep(w) PROVE OwnersRun'
    BY <1>11, StepsAssumption, OutputAssumption DEF RevertStep, UpdateStatus, Leave, Goto,
       Positions, Started, Steps, SingleOwner, Owner, OwnersRun, SnapshotsHold, PrefixDone,
       Ordered, TypeOK, AttemptType, RowsType, rows, jira, attempt, recovery, counters
  <1>12. ASSUME NEW w \in Workers, FailStep(w) PROVE OwnersRun'
    BY <1>12, StepsAssumption, OutputAssumption DEF FailStep, UpdateStatus, Goto, Positions,
       Started, Steps, SingleOwner, Owner, OwnersRun, SnapshotsHold, PrefixDone, Ordered, TypeOK,
       AttemptType, RowsType, rows, jira, attempt, recovery, counters
  <1>13. ASSUME NEW w \in Workers, FinishFailed(w) PROVE OwnersRun'
    BY <1>13, StepsAssumption, OutputAssumption DEF FinishFailed, Goto, Positions, Started,
       Steps, SingleOwner, Owner, OwnersRun, SnapshotsHold, PrefixDone, Ordered, TypeOK,
       AttemptType, RowsType, rows, jira, attempt, recovery, counters
  <1>14. ASSUME NEW w \in Workers, FinishCompleted(w) PROVE OwnersRun'
    BY <1>14, StepsAssumption, OutputAssumption DEF FinishCompleted, Goto, Positions, Started,
       Steps, SingleOwner, Owner, OwnersRun, SnapshotsHold, PrefixDone, Ordered, TypeOK,
       AttemptType, RowsType, rows, jira, attempt, recovery, counters
  <1>15. ASSUME NEW w \in Workers, AuditAndReturn(w) PROVE OwnersRun'
    BY <1>15, StepsAssumption, OutputAssumption DEF AuditAndReturn, Leave, Goto, Positions,
       Started, Steps, SingleOwner, Owner, OwnersRun, SnapshotsHold, PrefixDone, Ordered, TypeOK,
       AttemptType, RowsType, rows, jira, attempt, recovery, counters
  <1>16. ASSUME NEW w \in Workers, ReadFinal(w) PROVE OwnersRun'
    BY <1>16, StepsAssumption, OutputAssumption DEF ReadFinal, Leave, Goto, Positions, Started,
       Steps, SingleOwner, Owner, OwnersRun, SnapshotsHold, PrefixDone, Ordered, TypeOK,
       AttemptType, RowsType, rows, jira, attempt, recovery, counters
  <1>17. ASSUME NEW w \in Workers, AbortAttempt(w) PROVE OwnersRun'
    BY <1>17, StepsAssumption, OutputAssumption DEF AbortAttempt, Leave, Goto, Positions,
       Started, Steps, SingleOwner, Owner, OwnersRun, SnapshotsHold, PrefixDone, Ordered, TypeOK,
       AttemptType, RowsType, rows, jira, attempt, recovery, counters
  <1>18. ASSUME NEW r \in Recoverers, CommitRecovery(r) PROVE OwnersRun'
    BY <1>18, StepsAssumption, OutputAssumption DEF CommitRecovery, GotoR, Positions, Started,
       Steps, SingleOwner, Owner, OwnersRun, SnapshotsHold, PrefixDone, Ordered, TypeOK,
       AttemptType, RowsType, rows, jira, attempt, recovery, counters
  <1>19. ASSUME NEW k \in Steps, ApplyOrphan(k) PROVE OwnersRun'
    BY <1>19, StepsAssumption, OutputAssumption DEF ApplyOrphan, Positions, Started, Steps,
       SingleOwner, Owner, OwnersRun, SnapshotsHold, PrefixDone, Ordered, TypeOK, AttemptType,
       RowsType, rows, jira, attempt, recovery, counters
  <1>20. ASSUME NEW w \in Workers, HandlerMove(w) PROVE OwnersRun'
    BY <1>20, HandlerFacts DEF OwnersRun, TypeOK, rows, attempt
  <1>21. ASSUME NEW r \in Recoverers, RecoveryPause(r) PROVE OwnersRun'
    BY <1>21, PauseFacts DEF OwnersRun, TypeOK, rows, attempt, Owner
  <1>22. CASE UNCHANGED vars
    BY <1>22 DEF vars, Positions, Started, Steps, SingleOwner, Owner, OwnersRun, SnapshotsHold,
       PrefixDone, Ordered, TypeOK, AttemptType, RowsType, rows, jira, attempt, recovery,
       counters
  <1> QED BY <1>1, <1>2, <1>3, <1>4, <1>5, <1>6, <1>7, <1>8, <1>9, <1>10, <1>11, <1>12, <1>13,
     <1>14, <1>15, <1>16, <1>17, <1>18, <1>19, <1>20, <1>21, <1>22 DEF Next, AttemptStep,
     RecoveryStep, HandlerMove, RecoveryPause

\* A step read as COMPLETED or FAILED has no owner left who could change it.
LEMMA SnapshotsHoldStep ==
  ASSUME TypeOK, Positions, Started, SingleOwner, execStatus # "FAILED", execStatus' # "FAILED",
         OwnersRun, SnapshotsHold, PrefixDone, Ordered, [Next]_vars
  PROVE  SnapshotsHold'
  <1>1. ASSUME NEW w \in Workers, BeginAttempt(w) PROVE SnapshotsHold'
    BY <1>1, StepsAssumption, OutputAssumption DEF BeginAttempt, Goto, Positions, Started, Steps,
       SingleOwner, Owner, OwnersRun, SnapshotsHold, PrefixDone, Ordered, TypeOK, AttemptType,
       RowsType, rows, jira, attempt, recovery, counters
  <1>2. ASSUME NEW w \in Workers, LoadSteps(w) PROVE SnapshotsHold'
    BY <1>2, StepsAssumption, OutputAssumption DEF LoadSteps, Goto, Positions, Started, Steps,
       SingleOwner, Owner, OwnersRun, SnapshotsHold, PrefixDone, Ordered, TypeOK, AttemptType,
       RowsType, rows, jira, attempt, recovery, counters
  <1>3. ASSUME NEW w \in Workers, ClaimExecution(w) PROVE SnapshotsHold'
    <2>1. stepStatus' = stepStatus /\ stepOutput' = stepOutput
      BY <1>3 DEF ClaimExecution
    <2>2. CASE execStatus = "PENDING"
      BY <1>3, <2>1, <2>2 DEF ClaimExecution, SnapshotsHold
    <2>3. CASE execStatus # "PENDING"
      <3>1. \A v \in Workers, k \in Steps : snapStatus'[v][k] # "PENDING" =>
             /\ snapStatus'[v][k] = snapStatus[v][k]
             /\ snapOutput'[v][k] = snapOutput[v][k]
        BY <1>3, <2>3, LeaveFacts DEF ClaimExecution, TypeOK
      <3> QED BY <2>1, <3>1 DEF SnapshotsHold
    <2> QED BY <2>2, <2>3
  <1>4. ASSUME NEW w \in Workers, ClaimStep(w) PROVE SnapshotsHold'
    BY <1>4, StepsAssumption, OutputAssumption DEF ClaimStep, Goto, Positions, Started, Steps,
       SingleOwner, Owner, OwnersRun, SnapshotsHold, PrefixDone, Ordered, TypeOK, AttemptType,
       RowsType, rows, jira, attempt, recovery, counters
  <1>5. ASSUME NEW w \in Workers, ClaimNothing(w) PROVE SnapshotsHold'
    <2>1. stepStatus' = stepStatus /\ stepOutput' = stepOutput
      BY <1>5 DEF ClaimNothing, rows
    <2>2. \A v \in Workers, k \in Steps : snapStatus'[v][k] # "PENDING" =>
             /\ snapStatus'[v][k] = snapStatus[v][k]
             /\ snapOutput'[v][k] = snapOutput[v][k]
      BY <1>5, LeaveFacts DEF ClaimNothing, PushAndAdvance, TypeOK
    <2> QED BY <2>1, <2>2 DEF SnapshotsHold
  <1>6. ASSUME NEW w \in Workers, DedupPersist(w) PROVE SnapshotsHold'
    BY <1>6, StepsAssumption, OutputAssumption DEF DedupPersist, UpdateStatus, PushAndAdvance,
       Goto, Positions, Started, Steps, SingleOwner, Owner, OwnersRun, SnapshotsHold, PrefixDone,
       Ordered, TypeOK, AttemptType, RowsType, rows, jira, attempt, recovery, counters
  <1>7. ASSUME NEW w \in Workers, JiraApplies(w) PROVE SnapshotsHold'
    BY <1>7, StepsAssumption, OutputAssumption DEF JiraApplies, Goto, Positions, Started, Steps,
       SingleOwner, Owner, OwnersRun, SnapshotsHold, PrefixDone, Ordered, TypeOK, AttemptType,
       RowsType, rows, jira, attempt, recovery, counters
  <1>8. ASSUME NEW w \in Workers, TechnicalFailure(w) PROVE SnapshotsHold'
    BY <1>8, StepsAssumption, OutputAssumption DEF TechnicalFailure, Goto, Positions, Started,
       Steps, SingleOwner, Owner, OwnersRun, SnapshotsHold, PrefixDone, Ordered, TypeOK,
       AttemptType, RowsType, rows, jira, attempt, recovery, counters
  <1>9. ASSUME NEW w \in Workers, PersistOutput(w) PROVE SnapshotsHold'
    BY <1>9, StepsAssumption, OutputAssumption DEF PersistOutput, UpdateStatus, PushAndAdvance,
       Goto, Positions, Started, Steps, SingleOwner, Owner, OwnersRun, SnapshotsHold, PrefixDone,
       Ordered, TypeOK, AttemptType, RowsType, rows, jira, attempt, recovery, counters
  <1>10. ASSUME NEW w \in Workers, PersistError(w) PROVE SnapshotsHold'
    BY <1>10, StepsAssumption, OutputAssumption DEF PersistError, Goto, Positions, Started,
       Steps, SingleOwner, Owner, OwnersRun, SnapshotsHold, PrefixDone, Ordered, TypeOK,
       AttemptType, RowsType, rows, jira, attempt, recovery, counters
  <1>11. ASSUME NEW w \in Workers, RevertStep(w) PROVE SnapshotsHold'
    <2>1. \A v \in Workers, k \in Steps : snapStatus'[v][k] # "PENDING" =>
             /\ snapStatus'[v][k] = snapStatus[v][k]
             /\ snapOutput'[v][k] = snapOutput[v][k]
      BY <1>11, LeaveFacts DEF RevertStep, TypeOK
    <2>2. at[w] \in Steps /\ stepStatus[at[w]] = "RUNNING"
      BY <1>11 DEF RevertStep, Positions, OwnersRun, Owner
    <2>3. \A k \in Steps : k # at[w] => stepStatus'[k] = stepStatus[k] /\ stepOutput'[k] = stepOutput[k]
      BY <1>11 DEF RevertStep, UpdateStatus, TypeOK, RowsType
    <2> QED BY <2>1, <2>2, <2>3 DEF SnapshotsHold
  <1>12. ASSUME NEW w \in Workers, FailStep(w) PROVE SnapshotsHold'
    BY <1>12, StepsAssumption, OutputAssumption DEF FailStep, UpdateStatus, Goto, Positions,
       Started, Steps, SingleOwner, Owner, OwnersRun, SnapshotsHold, PrefixDone, Ordered, TypeOK,
       AttemptType, RowsType, rows, jira, attempt, recovery, counters
  <1>13. ASSUME NEW w \in Workers, FinishFailed(w) PROVE SnapshotsHold'
    BY <1>13, StepsAssumption, OutputAssumption DEF FinishFailed, Goto, Positions, Started,
       Steps, SingleOwner, Owner, OwnersRun, SnapshotsHold, PrefixDone, Ordered, TypeOK,
       AttemptType, RowsType, rows, jira, attempt, recovery, counters
  <1>14. ASSUME NEW w \in Workers, FinishCompleted(w) PROVE SnapshotsHold'
    BY <1>14, StepsAssumption, OutputAssumption DEF FinishCompleted, Goto, Positions, Started,
       Steps, SingleOwner, Owner, OwnersRun, SnapshotsHold, PrefixDone, Ordered, TypeOK,
       AttemptType, RowsType, rows, jira, attempt, recovery, counters
  <1>15. ASSUME NEW w \in Workers, AuditAndReturn(w) PROVE SnapshotsHold'
    <2>1. stepStatus' = stepStatus /\ stepOutput' = stepOutput
      BY <1>15 DEF AuditAndReturn, rows
    <2>2. \A v \in Workers, k \in Steps : snapStatus'[v][k] # "PENDING" =>
             /\ snapStatus'[v][k] = snapStatus[v][k]
             /\ snapOutput'[v][k] = snapOutput[v][k]
      BY <1>15, LeaveFacts DEF AuditAndReturn, TypeOK
    <2> QED BY <2>1, <2>2 DEF SnapshotsHold
  <1>16. ASSUME NEW w \in Workers, ReadFinal(w) PROVE SnapshotsHold'
    <2>1. stepStatus' = stepStatus /\ stepOutput' = stepOutput
      BY <1>16 DEF ReadFinal, rows
    <2>2. \A v \in Workers, k \in Steps : snapStatus'[v][k] # "PENDING" =>
             /\ snapStatus'[v][k] = snapStatus[v][k]
             /\ snapOutput'[v][k] = snapOutput[v][k]
      BY <1>16, LeaveFacts DEF ReadFinal, TypeOK
    <2> QED BY <2>1, <2>2 DEF SnapshotsHold
  <1>17. ASSUME NEW w \in Workers, AbortAttempt(w) PROVE SnapshotsHold'
    <2>1. stepStatus' = stepStatus /\ stepOutput' = stepOutput
      BY <1>17 DEF AbortAttempt, rows
    <2>2. \A v \in Workers, k \in Steps : snapStatus'[v][k] # "PENDING" =>
             /\ snapStatus'[v][k] = snapStatus[v][k]
             /\ snapOutput'[v][k] = snapOutput[v][k]
      BY <1>17, LeaveFacts DEF AbortAttempt, TypeOK
    <2> QED BY <2>1, <2>2 DEF SnapshotsHold
  <1>18. ASSUME NEW r \in Recoverers, CommitRecovery(r) PROVE SnapshotsHold'
    BY <1>18, StepsAssumption, OutputAssumption DEF CommitRecovery, GotoR, Positions, Started,
       Steps, SingleOwner, Owner, OwnersRun, SnapshotsHold, PrefixDone, Ordered, TypeOK,
       AttemptType, RowsType, rows, jira, attempt, recovery, counters
  <1>19. ASSUME NEW k \in Steps, ApplyOrphan(k) PROVE SnapshotsHold'
    BY <1>19, StepsAssumption, OutputAssumption DEF ApplyOrphan, Positions, Started, Steps,
       SingleOwner, Owner, OwnersRun, SnapshotsHold, PrefixDone, Ordered, TypeOK, AttemptType,
       RowsType, rows, jira, attempt, recovery, counters
  <1>20. ASSUME NEW w \in Workers, HandlerMove(w) PROVE SnapshotsHold'
    BY <1>20, HandlerFacts DEF SnapshotsHold, TypeOK, rows, attempt
  <1>21. ASSUME NEW r \in Recoverers, RecoveryPause(r) PROVE SnapshotsHold'
    BY <1>21, PauseFacts DEF SnapshotsHold, TypeOK, rows, attempt, Owner
  <1>22. CASE UNCHANGED vars
    BY <1>22 DEF vars, Positions, Started, Steps, SingleOwner, Owner, OwnersRun, SnapshotsHold,
       PrefixDone, Ordered, TypeOK, AttemptType, RowsType, rows, jira, attempt, recovery,
       counters
  <1> QED BY <1>1, <1>2, <1>3, <1>4, <1>5, <1>6, <1>7, <1>8, <1>9, <1>10, <1>11, <1>12, <1>13,
     <1>14, <1>15, <1>16, <1>17, <1>18, <1>19, <1>20, <1>21, <1>22 DEF Next, AttemptStep,
     RecoveryStep, HandlerMove, RecoveryPause

\* What the loop has passed stays done.
LEMMA PrefixDoneStep ==
  ASSUME TypeOK, Positions, Started, SingleOwner, execStatus # "FAILED", execStatus' # "FAILED",
         OwnersRun, SnapshotsHold, PrefixDone, Ordered, [Next]_vars
  PROVE  PrefixDone'
  <1>1. ASSUME NEW w \in Workers, BeginAttempt(w) PROVE PrefixDone'
    BY <1>1, StepsAssumption, OutputAssumption DEF BeginAttempt, Goto, Positions, Started, Steps,
       SingleOwner, Owner, OwnersRun, SnapshotsHold, PrefixDone, Ordered, TypeOK, AttemptType,
       RowsType, rows, jira, attempt, recovery, counters
  <1>2. ASSUME NEW w \in Workers, LoadSteps(w) PROVE PrefixDone'
    BY <1>2, StepsAssumption, OutputAssumption DEF LoadSteps, Goto, Positions, Started, Steps,
       SingleOwner, Owner, OwnersRun, SnapshotsHold, PrefixDone, Ordered, TypeOK, AttemptType,
       RowsType, rows, jira, attempt, recovery, counters
  <1>3. ASSUME NEW w \in Workers, ClaimExecution(w) PROVE PrefixDone'
    BY <1>3, StepsAssumption, OutputAssumption DEF ClaimExecution, Leave, Goto, Positions,
       Started, Steps, SingleOwner, Owner, OwnersRun, SnapshotsHold, PrefixDone, Ordered, TypeOK,
       AttemptType, RowsType, rows, jira, attempt, recovery, counters
  <1>4. ASSUME NEW w \in Workers, ClaimStep(w) PROVE PrefixDone'
    BY <1>4, StepsAssumption, OutputAssumption DEF ClaimStep, Goto, Positions, Started, Steps,
       SingleOwner, Owner, OwnersRun, SnapshotsHold, PrefixDone, Ordered, TypeOK, AttemptType,
       RowsType, rows, jira, attempt, recovery, counters
  <1>5. ASSUME NEW w \in Workers, ClaimNothing(w) PROVE PrefixDone'
    BY <1>5, StepsAssumption, OutputAssumption DEF ClaimNothing, PushAndAdvance, Leave, Goto,
       Positions, Started, Steps, SingleOwner, Owner, OwnersRun, SnapshotsHold, PrefixDone,
       Ordered, TypeOK, AttemptType, RowsType, rows, jira, attempt, recovery, counters
  <1>6. ASSUME NEW w \in Workers, DedupPersist(w) PROVE PrefixDone'
    BY <1>6, StepsAssumption, OutputAssumption DEF DedupPersist, UpdateStatus, PushAndAdvance,
       Goto, Positions, Started, Steps, SingleOwner, Owner, OwnersRun, SnapshotsHold, PrefixDone,
       Ordered, TypeOK, AttemptType, RowsType, rows, jira, attempt, recovery, counters
  <1>7. ASSUME NEW w \in Workers, JiraApplies(w) PROVE PrefixDone'
    BY <1>7, StepsAssumption, OutputAssumption DEF JiraApplies, Goto, Positions, Started, Steps,
       SingleOwner, Owner, OwnersRun, SnapshotsHold, PrefixDone, Ordered, TypeOK, AttemptType,
       RowsType, rows, jira, attempt, recovery, counters
  <1>8. ASSUME NEW w \in Workers, TechnicalFailure(w) PROVE PrefixDone'
    BY <1>8, StepsAssumption, OutputAssumption DEF TechnicalFailure, Goto, Positions, Started,
       Steps, SingleOwner, Owner, OwnersRun, SnapshotsHold, PrefixDone, Ordered, TypeOK,
       AttemptType, RowsType, rows, jira, attempt, recovery, counters
  <1>9. ASSUME NEW w \in Workers, PersistOutput(w) PROVE PrefixDone'
    BY <1>9, StepsAssumption, OutputAssumption DEF PersistOutput, UpdateStatus, PushAndAdvance,
       Goto, Positions, Started, Steps, SingleOwner, Owner, OwnersRun, SnapshotsHold, PrefixDone,
       Ordered, TypeOK, AttemptType, RowsType, rows, jira, attempt, recovery, counters
  <1>10. ASSUME NEW w \in Workers, PersistError(w) PROVE PrefixDone'
    BY <1>10, StepsAssumption, OutputAssumption DEF PersistError, Goto, Positions, Started,
       Steps, SingleOwner, Owner, OwnersRun, SnapshotsHold, PrefixDone, Ordered, TypeOK,
       AttemptType, RowsType, rows, jira, attempt, recovery, counters
  <1>11. ASSUME NEW w \in Workers, RevertStep(w) PROVE PrefixDone'
    BY <1>11, StepsAssumption, OutputAssumption DEF RevertStep, UpdateStatus, Leave, Goto,
       Positions, Started, Steps, SingleOwner, Owner, OwnersRun, SnapshotsHold, PrefixDone,
       Ordered, TypeOK, AttemptType, RowsType, rows, jira, attempt, recovery, counters
  <1>12. ASSUME NEW w \in Workers, FailStep(w) PROVE PrefixDone'
    BY <1>12, StepsAssumption, OutputAssumption DEF FailStep, UpdateStatus, Goto, Positions,
       Started, Steps, SingleOwner, Owner, OwnersRun, SnapshotsHold, PrefixDone, Ordered, TypeOK,
       AttemptType, RowsType, rows, jira, attempt, recovery, counters
  <1>13. ASSUME NEW w \in Workers, FinishFailed(w) PROVE PrefixDone'
    BY <1>13, StepsAssumption, OutputAssumption DEF FinishFailed, Goto, Positions, Started,
       Steps, SingleOwner, Owner, OwnersRun, SnapshotsHold, PrefixDone, Ordered, TypeOK,
       AttemptType, RowsType, rows, jira, attempt, recovery, counters
  <1>14. ASSUME NEW w \in Workers, FinishCompleted(w) PROVE PrefixDone'
    BY <1>14, StepsAssumption, OutputAssumption DEF FinishCompleted, Goto, Positions, Started,
       Steps, SingleOwner, Owner, OwnersRun, SnapshotsHold, PrefixDone, Ordered, TypeOK,
       AttemptType, RowsType, rows, jira, attempt, recovery, counters
  <1>15. ASSUME NEW w \in Workers, AuditAndReturn(w) PROVE PrefixDone'
    <2>1. stepStatus' = stepStatus /\ stepOutput' = stepOutput
      BY <1>15 DEF AuditAndReturn, rows
    <2>2. /\ \A v \in Workers, j \in Steps : j < at'[v] => j < at[v] /\ outs'[v][j] = outs[v][j]
         /\ \A v \in Workers : pc'[v] = "finishFailed" => pc'[v] = pc[v] /\ at'[v] = at[v]
      BY <1>15, LeaveFacts DEF AuditAndReturn, TypeOK
    <2> QED BY <2>1, <2>2 DEF PrefixDone
  <1>16. ASSUME NEW w \in Workers, ReadFinal(w) PROVE PrefixDone'
    <2>1. stepStatus' = stepStatus /\ stepOutput' = stepOutput
      BY <1>16 DEF ReadFinal, rows
    <2>2. /\ \A v \in Workers, j \in Steps : j < at'[v] => j < at[v] /\ outs'[v][j] = outs[v][j]
         /\ \A v \in Workers : pc'[v] = "finishFailed" => pc'[v] = pc[v] /\ at'[v] = at[v]
      BY <1>16, LeaveFacts DEF ReadFinal, TypeOK
    <2> QED BY <2>1, <2>2 DEF PrefixDone
  <1>17. ASSUME NEW w \in Workers, AbortAttempt(w) PROVE PrefixDone'
    <2>1. stepStatus' = stepStatus /\ stepOutput' = stepOutput
      BY <1>17 DEF AbortAttempt, rows
    <2>2. /\ \A v \in Workers, j \in Steps : j < at'[v] => j < at[v] /\ outs'[v][j] = outs[v][j]
         /\ \A v \in Workers : pc'[v] = "finishFailed" => pc'[v] = pc[v] /\ at'[v] = at[v]
      BY <1>17, LeaveFacts DEF AbortAttempt, TypeOK
    <2> QED BY <2>1, <2>2 DEF PrefixDone
  <1>18. ASSUME NEW r \in Recoverers, CommitRecovery(r) PROVE PrefixDone'
    BY <1>18, StepsAssumption, OutputAssumption DEF CommitRecovery, GotoR, Positions, Started,
       Steps, SingleOwner, Owner, OwnersRun, SnapshotsHold, PrefixDone, Ordered, TypeOK,
       AttemptType, RowsType, rows, jira, attempt, recovery, counters
  <1>19. ASSUME NEW k \in Steps, ApplyOrphan(k) PROVE PrefixDone'
    BY <1>19, StepsAssumption, OutputAssumption DEF ApplyOrphan, Positions, Started, Steps,
       SingleOwner, Owner, OwnersRun, SnapshotsHold, PrefixDone, Ordered, TypeOK, AttemptType,
       RowsType, rows, jira, attempt, recovery, counters
  <1>20. ASSUME NEW w \in Workers, HandlerMove(w) PROVE PrefixDone'
    BY <1>20, HandlerFacts DEF PrefixDone, TypeOK, rows, attempt
  <1>21. ASSUME NEW r \in Recoverers, RecoveryPause(r) PROVE PrefixDone'
    BY <1>21, PauseFacts DEF PrefixDone, TypeOK, rows, attempt, Owner
  <1>22. CASE UNCHANGED vars
    BY <1>22 DEF vars, Positions, Started, Steps, SingleOwner, Owner, OwnersRun, SnapshotsHold,
       PrefixDone, Ordered, TypeOK, AttemptType, RowsType, rows, jira, attempt, recovery,
       counters
  <1> QED BY <1>1, <1>2, <1>3, <1>4, <1>5, <1>6, <1>7, <1>8, <1>9, <1>10, <1>11, <1>12, <1>13,
     <1>14, <1>15, <1>16, <1>17, <1>18, <1>19, <1>20, <1>21, <1>22 DEF Next, AttemptStep,
     RecoveryStep, HandlerMove, RecoveryPause

\* A claim finds every earlier step COMPLETED.
LEMMA OrderedStep ==
  ASSUME TypeOK, Positions, Started, SingleOwner, execStatus # "FAILED", execStatus' # "FAILED",
         OwnersRun, SnapshotsHold, PrefixDone, Ordered, [Next]_vars
  PROVE  Ordered'
  <1>1. ASSUME NEW w \in Workers, BeginAttempt(w) PROVE Ordered'
    BY <1>1, StepsAssumption, OutputAssumption DEF BeginAttempt, Goto, Positions, Started, Steps,
       SingleOwner, Owner, OwnersRun, SnapshotsHold, PrefixDone, Ordered, TypeOK, AttemptType,
       RowsType, rows, jira, attempt, recovery, counters
  <1>2. ASSUME NEW w \in Workers, LoadSteps(w) PROVE Ordered'
    BY <1>2, StepsAssumption, OutputAssumption DEF LoadSteps, Goto, Positions, Started, Steps,
       SingleOwner, Owner, OwnersRun, SnapshotsHold, PrefixDone, Ordered, TypeOK, AttemptType,
       RowsType, rows, jira, attempt, recovery, counters
  <1>3. ASSUME NEW w \in Workers, ClaimExecution(w) PROVE Ordered'
    BY <1>3, StepsAssumption, OutputAssumption DEF ClaimExecution, Leave, Goto, Positions,
       Started, Steps, SingleOwner, Owner, OwnersRun, SnapshotsHold, PrefixDone, Ordered, TypeOK,
       AttemptType, RowsType, rows, jira, attempt, recovery, counters
  <1>4. ASSUME NEW w \in Workers, ClaimStep(w) PROVE Ordered'
    BY <1>4, StepsAssumption, OutputAssumption DEF ClaimStep, Goto, Positions, Started, Steps,
       SingleOwner, Owner, OwnersRun, SnapshotsHold, PrefixDone, Ordered, TypeOK, AttemptType,
       RowsType, rows, jira, attempt, recovery, counters
  <1>5. ASSUME NEW w \in Workers, ClaimNothing(w) PROVE Ordered'
    BY <1>5, StepsAssumption, OutputAssumption DEF ClaimNothing, PushAndAdvance, Leave, Goto,
       Positions, Started, Steps, SingleOwner, Owner, OwnersRun, SnapshotsHold, PrefixDone,
       Ordered, TypeOK, AttemptType, RowsType, rows, jira, attempt, recovery, counters
  <1>6. ASSUME NEW w \in Workers, DedupPersist(w) PROVE Ordered'
    BY <1>6, StepsAssumption, OutputAssumption DEF DedupPersist, UpdateStatus, PushAndAdvance,
       Goto, Positions, Started, Steps, SingleOwner, Owner, OwnersRun, SnapshotsHold, PrefixDone,
       Ordered, TypeOK, AttemptType, RowsType, rows, jira, attempt, recovery, counters
  <1>7. ASSUME NEW w \in Workers, JiraApplies(w) PROVE Ordered'
    BY <1>7, StepsAssumption, OutputAssumption DEF JiraApplies, Goto, Positions, Started, Steps,
       SingleOwner, Owner, OwnersRun, SnapshotsHold, PrefixDone, Ordered, TypeOK, AttemptType,
       RowsType, rows, jira, attempt, recovery, counters
  <1>8. ASSUME NEW w \in Workers, TechnicalFailure(w) PROVE Ordered'
    BY <1>8, StepsAssumption, OutputAssumption DEF TechnicalFailure, Goto, Positions, Started,
       Steps, SingleOwner, Owner, OwnersRun, SnapshotsHold, PrefixDone, Ordered, TypeOK,
       AttemptType, RowsType, rows, jira, attempt, recovery, counters
  <1>9. ASSUME NEW w \in Workers, PersistOutput(w) PROVE Ordered'
    BY <1>9, StepsAssumption, OutputAssumption DEF PersistOutput, UpdateStatus, PushAndAdvance,
       Goto, Positions, Started, Steps, SingleOwner, Owner, OwnersRun, SnapshotsHold, PrefixDone,
       Ordered, TypeOK, AttemptType, RowsType, rows, jira, attempt, recovery, counters
  <1>10. ASSUME NEW w \in Workers, PersistError(w) PROVE Ordered'
    BY <1>10, StepsAssumption, OutputAssumption DEF PersistError, Goto, Positions, Started,
       Steps, SingleOwner, Owner, OwnersRun, SnapshotsHold, PrefixDone, Ordered, TypeOK,
       AttemptType, RowsType, rows, jira, attempt, recovery, counters
  <1>11. ASSUME NEW w \in Workers, RevertStep(w) PROVE Ordered'
    BY <1>11, StepsAssumption, OutputAssumption DEF RevertStep, UpdateStatus, Leave, Goto,
       Positions, Started, Steps, SingleOwner, Owner, OwnersRun, SnapshotsHold, PrefixDone,
       Ordered, TypeOK, AttemptType, RowsType, rows, jira, attempt, recovery, counters
  <1>12. ASSUME NEW w \in Workers, FailStep(w) PROVE Ordered'
    BY <1>12, StepsAssumption, OutputAssumption DEF FailStep, UpdateStatus, Goto, Positions,
       Started, Steps, SingleOwner, Owner, OwnersRun, SnapshotsHold, PrefixDone, Ordered, TypeOK,
       AttemptType, RowsType, rows, jira, attempt, recovery, counters
  <1>13. ASSUME NEW w \in Workers, FinishFailed(w) PROVE Ordered'
    BY <1>13, StepsAssumption, OutputAssumption DEF FinishFailed, Goto, Positions, Started,
       Steps, SingleOwner, Owner, OwnersRun, SnapshotsHold, PrefixDone, Ordered, TypeOK,
       AttemptType, RowsType, rows, jira, attempt, recovery, counters
  <1>14. ASSUME NEW w \in Workers, FinishCompleted(w) PROVE Ordered'
    BY <1>14, StepsAssumption, OutputAssumption DEF FinishCompleted, Goto, Positions, Started,
       Steps, SingleOwner, Owner, OwnersRun, SnapshotsHold, PrefixDone, Ordered, TypeOK,
       AttemptType, RowsType, rows, jira, attempt, recovery, counters
  <1>15. ASSUME NEW w \in Workers, AuditAndReturn(w) PROVE Ordered'
    BY <1>15, StepsAssumption, OutputAssumption DEF AuditAndReturn, Leave, Goto, Positions,
       Started, Steps, SingleOwner, Owner, OwnersRun, SnapshotsHold, PrefixDone, Ordered, TypeOK,
       AttemptType, RowsType, rows, jira, attempt, recovery, counters
  <1>16. ASSUME NEW w \in Workers, ReadFinal(w) PROVE Ordered'
    BY <1>16, StepsAssumption, OutputAssumption DEF ReadFinal, Leave, Goto, Positions, Started,
       Steps, SingleOwner, Owner, OwnersRun, SnapshotsHold, PrefixDone, Ordered, TypeOK,
       AttemptType, RowsType, rows, jira, attempt, recovery, counters
  <1>17. ASSUME NEW w \in Workers, AbortAttempt(w) PROVE Ordered'
    BY <1>17, StepsAssumption, OutputAssumption DEF AbortAttempt, Leave, Goto, Positions,
       Started, Steps, SingleOwner, Owner, OwnersRun, SnapshotsHold, PrefixDone, Ordered, TypeOK,
       AttemptType, RowsType, rows, jira, attempt, recovery, counters
  <1>18. ASSUME NEW r \in Recoverers, CommitRecovery(r) PROVE Ordered'
    BY <1>18, StepsAssumption, OutputAssumption DEF CommitRecovery, GotoR, Positions, Started,
       Steps, SingleOwner, Owner, OwnersRun, SnapshotsHold, PrefixDone, Ordered, TypeOK,
       AttemptType, RowsType, rows, jira, attempt, recovery, counters
  <1>19. ASSUME NEW k \in Steps, ApplyOrphan(k) PROVE Ordered'
    BY <1>19, StepsAssumption, OutputAssumption DEF ApplyOrphan, Positions, Started, Steps,
       SingleOwner, Owner, OwnersRun, SnapshotsHold, PrefixDone, Ordered, TypeOK, AttemptType,
       RowsType, rows, jira, attempt, recovery, counters
  <1>20. ASSUME NEW w \in Workers, HandlerMove(w) PROVE Ordered'
    BY <1>20, HandlerFacts DEF Ordered, TypeOK, rows, attempt
  <1>21. ASSUME NEW r \in Recoverers, RecoveryPause(r) PROVE Ordered'
    BY <1>21, PauseFacts DEF Ordered, TypeOK, rows, attempt, Owner
  <1>22. CASE UNCHANGED vars
    BY <1>22 DEF vars, Positions, Started, Steps, SingleOwner, Owner, OwnersRun, SnapshotsHold,
       PrefixDone, Ordered, TypeOK, AttemptType, RowsType, rows, jira, attempt, recovery,
       counters
  <1> QED BY <1>1, <1>2, <1>3, <1>4, <1>5, <1>6, <1>7, <1>8, <1>9, <1>10, <1>11, <1>12, <1>13,
     <1>14, <1>15, <1>16, <1>17, <1>18, <1>19, <1>20, <1>21, <1>22 DEF Next, AttemptStep,
     RecoveryStep, HandlerMove, RecoveryPause

-----------------------------------------------------------------------------------
(* From the parts to the inductive invariant. *)

\* The finalizes and the recovery's commit are the only writers of an
\* execution's end, and each of them asks for a RUNNING execution.
LEMMA TerminalStays ==
  ASSUME execStatus \in Terminal, [Next]_vars
  PROVE  UNCHANGED <<execStatus, execResult>>
  <1>1. ASSUME NEW w \in Workers, BeginAttempt(w) \/ AttemptStep(w) \/ AbortAttempt(w)
        PROVE  UNCHANGED <<execStatus, execResult>>
    BY <1>1 DEF AttemptStep, BeginAttempt, LoadSteps, ClaimExecution, ClaimStep, ClaimNothing,
       DedupPersist, HandleLocal, HandleBusinessFailure, HandleNotReady, SendRequest,
       JiraApplies, JiraRejects, JiraReplies, TechnicalFailure, PersistOutput, PersistError,
       RevertStep, FailStep, FinishFailed, FinishCompleted, AuditAndReturn, ReadFinal,
       AbortAttempt, UpdateStatus, Terminal, rows
  <1>2. ASSUME NEW r \in Recoverers, FindStale(r) \/ RecoveryStep(r) \/ AbortRecovery(r)
        PROVE  UNCHANGED <<execStatus, execResult>>
    BY <1>2 DEF RecoveryStep, FindStale, ScanSteps, LookupComment, FailRunningSteps,
       CommitRecovery, RollbackRecovery, AuditRecovery, AbortRecovery, Terminal, rows
  <1>3. ASSUME NEW k \in Steps, ApplyOrphan(k) PROVE UNCHANGED <<execStatus, execResult>>
    BY <1>3 DEF ApplyOrphan, rows
  <1>4. CASE UNCHANGED vars
    BY <1>4 DEF vars, rows
  <1> QED BY <1>1, <1>2, <1>3, <1>4 DEF Next

\* Nobody owns a step of a COMPLETED execution and none can be claimed, so the
\* unguarded updateStatus has no caller left.
LEMMA CompletedFreezes ==
  ASSUME TypeOK, Positions, Agreement, CompletedIsWhole, execStatus = "COMPLETED", [Next]_vars
  PROVE  UNCHANGED <<stepStatus, stepOutput>>
  <1>1. \A w \in Workers :
          pc[w] \notin {"dedup", "handle", "sent", "applied", "persist", "revert", "fail"}
    <2> SUFFICES ASSUME NEW w \in Workers,
                        pc[w] \in {"dedup", "handle", "sent", "applied", "persist", "revert", "fail"}
                 PROVE  FALSE
      OBVIOUS
    <2>1. at[w] \in Steps /\ Owner(w, at[w])
      BY DEF Positions, Owner
    <2>2. stepStatus[at[w]] = "RUNNING" /\ stepStatus[at[w]] = "COMPLETED"
      BY <2>1 DEF Agreement, OwnersRun, CompletedIsWhole
    <2> QED BY <2>2
  <1>2. \A w \in Workers : pc[w] = "claimStep" => stepStatus[at[w]] # "PENDING"
    BY DEF Positions, CompletedIsWhole
  <1>3. ASSUME NEW w \in Workers, BeginAttempt(w) \/ AttemptStep(w) \/ AbortAttempt(w)
        PROVE  UNCHANGED <<stepStatus, stepOutput>>
    BY <1>1, <1>2, <1>3 DEF AttemptStep, BeginAttempt, LoadSteps, ClaimExecution, ClaimStep,
       ClaimNothing, DedupPersist, HandleLocal, HandleBusinessFailure, HandleNotReady,
       SendRequest, JiraApplies, JiraRejects, JiraReplies, TechnicalFailure, PersistOutput,
       PersistError, RevertStep, FailStep, FinishFailed, FinishCompleted, AuditAndReturn,
       ReadFinal, AbortAttempt, rows
  <1>4. ASSUME NEW r \in Recoverers, FindStale(r) \/ RecoveryStep(r) \/ AbortRecovery(r)
        PROVE  UNCHANGED <<stepStatus, stepOutput>>
    BY <1>4 DEF RecoveryStep, FindStale, ScanSteps, LookupComment, FailRunningSteps,
       CommitRecovery, RollbackRecovery, AuditRecovery, AbortRecovery, rows
  <1>5. ASSUME NEW k \in Steps, ApplyOrphan(k) PROVE UNCHANGED <<stepStatus, stepOutput>>
    BY <1>5 DEF ApplyOrphan, rows
  <1>6. CASE UNCHANGED vars
    BY <1>6 DEF vars, rows
  <1> QED BY <1>3, <1>4, <1>5, <1>6 DEF Next

\* Only an attempt that has been through all the steps completes the execution.
LEMMA CompletedByAttempt ==
  ASSUME execStatus # "COMPLETED", execStatus' = "COMPLETED", [Next]_vars
  PROVE  \E w \in Workers : FinishCompleted(w)
  <1>1. ASSUME NEW w \in Workers, BeginAttempt(w) \/ AttemptStep(w) \/ AbortAttempt(w)
        PROVE  FinishCompleted(w)
    <2> USE DEF rows, UpdateStatus
    <2>1. ~ BeginAttempt(w) /\ ~ AbortAttempt(w)
      BY DEF BeginAttempt, AbortAttempt
    <2>2. ~ LoadSteps(w) /\ ~ ClaimExecution(w) /\ ~ ClaimStep(w) /\ ~ ClaimNothing(w)
      BY DEF LoadSteps, ClaimExecution, ClaimStep, ClaimNothing
    <2>3. ~ DedupPersist(w) /\ ~ PersistOutput(w) /\ ~ PersistError(w)
      BY DEF DedupPersist, PersistOutput, PersistError
    <2>4. ~ JiraApplies(w) /\ ~ TechnicalFailure(w) /\ ~ RevertStep(w) /\ ~ FailStep(w)
      BY DEF JiraApplies, TechnicalFailure, RevertStep, FailStep
    <2>5. ~ HandlerMove(w)
      BY DEF HandlerMove, HandleLocal, HandleBusinessFailure, HandleNotReady, SendRequest,
         JiraRejects, JiraReplies
    <2>6. ~ FinishFailed(w) /\ ~ AuditAndReturn(w) /\ ~ ReadFinal(w)
      BY DEF FinishFailed, AuditAndReturn, ReadFinal
    <2> QED BY <1>1, <2>1, <2>2, <2>3, <2>4, <2>5, <2>6 DEF AttemptStep, HandlerMove
  <1>2. ASSUME NEW r \in Recoverers, FindStale(r) \/ RecoveryStep(r) \/ AbortRecovery(r)
        PROVE  FALSE
    BY <1>2 DEF RecoveryStep, FindStale, ScanSteps, LookupComment, FailRunningSteps,
       CommitRecovery, RollbackRecovery, AuditRecovery, AbortRecovery, rows
  <1>3. ASSUME NEW k \in Steps, ApplyOrphan(k) PROVE FALSE
    BY <1>3 DEF ApplyOrphan, rows
  <1>4. CASE UNCHANGED vars
    BY <1>4 DEF vars, rows
  <1> QED BY <1>1, <1>2, <1>3, <1>4 DEF Next

\* The attempt that completes the execution has passed every step.
LEMMA CompletedIsWholeStep ==
  ASSUME IInv, [Next]_vars
  PROVE  CompletedIsWhole'
  <1> SUFFICES ASSUME execStatus' = "COMPLETED" PROVE CompletedIsWhole'
    BY DEF CompletedIsWhole
  <1>1. CASE execStatus = "COMPLETED"
    <2>1. UNCHANGED <<execStatus, execResult>>
      BY <1>1, TerminalStays DEF Terminal
    <2>2. UNCHANGED <<stepStatus, stepOutput>>
      BY <1>1, CompletedFreezes DEF IInv
    <2> QED BY <1>1, <2>1, <2>2 DEF IInv, CompletedIsWhole
  <1>2. CASE execStatus # "COMPLETED"
    <2>1. PICK w \in Workers : FinishCompleted(w)
      BY <1>2, CompletedByAttempt
    <2>2. execStatus = "RUNNING" /\ execResult' = outs[w] /\ UNCHANGED <<stepStatus, stepOutput>>
      BY <1>2, <2>1 DEF FinishCompleted
    <2>3. at[w] = N + 1 /\ pc[w] = "finishCompleted"
      BY <2>1 DEF FinishCompleted, IInv, Positions
    <2>4. \A k \in Steps : stepStatus[k] = "COMPLETED" /\ outs[w][k] = stepOutput[k]
      BY <2>2, <2>3, StepsAssumption DEF IInv, Agreement, PrefixDone, Steps
    <2> QED BY <2>2, <2>4 DEF CompletedIsWhole
  <1> QED BY <1>1, <1>2

\* The agreement is owed only while the execution has not failed, and a FAILED
\* execution stays so.
LEMMA AgreementStep ==
  ASSUME IInv, [Next]_vars
  PROVE  Agreement'
  <1> SUFFICES ASSUME execStatus' # "FAILED"
               PROVE  (OwnersRun /\ SnapshotsHold /\ PrefixDone /\ Ordered)'
    BY DEF Agreement
  <1>1. execStatus # "FAILED"
    BY TerminalStays DEF Terminal
  <1>2. OwnersRun /\ SnapshotsHold /\ PrefixDone /\ Ordered
    BY <1>1 DEF IInv, Agreement
  <1> QED BY <1>1, <1>2, OwnersRunStep, SnapshotsHoldStep, PrefixDoneStep, OrderedStep DEF IInv

\* The invariant holds before anything has happened.
LEMMA InitIInv == Init => IInv
  <1> SUFFICES ASSUME Init PROVE IInv
    OBVIOUS
  <1>1. TypeOK
    BY TypeInit
  <1>2. Positions /\ Started /\ SingleOwner
    BY StepsAssumption DEF Init, Positions, Started, SingleOwner, Owner
  <1>3. Ends /\ Repeats /\ Locks
    BY DEF Init, Ends, OutcomeIsTrue, Repeats, Locks, Owner
  <1>4. OwnersRun /\ SnapshotsHold
    BY DEF Init, OwnersRun, SnapshotsHold, Owner, Blank
  <1>5. PrefixDone /\ Ordered
    BY DEF Init, PrefixDone, Ordered, Blank, Steps
  <1>6. CompletedIsWhole
    BY DEF Init, CompletedIsWhole
  <1> QED BY <1>1, <1>2, <1>3, <1>4, <1>5, <1>6 DEF IInv, Agreement

\* Every step of the program preserves it.
LEMMA StepIInv == IInv /\ [Next]_vars => IInv'
  <1> SUFFICES ASSUME IInv, [Next]_vars PROVE IInv'
    OBVIOUS
  <1>1. TypeOK' /\ Positions'
    BY TypeStep DEF IInv
  <1>2. Started' /\ SingleOwner' /\ Ends'
    BY StartedStep, SingleOwnerStep, EndsStep DEF IInv
  <1>3. Repeats' /\ Locks'
    BY RepeatsStep, LocksStep DEF IInv
  <1>4. Agreement' /\ CompletedIsWhole'
    BY AgreementStep, CompletedIsWholeStep
  <1> QED BY <1>1, <1>2, <1>3, <1>4 DEF IInv

-----------------------------------------------------------------------------------
(* What is proved of every behaviour. *)

\* The inductive invariant: what a live attempt holds agrees with the rows until
\* the execution has failed, and is only then out of date.
THEOREM Invariance == Spec => []IInv
  <1>1. Init => IInv
    BY InitIInv
  <1>2. IInv /\ [Next]_vars => IInv'
    BY StepIInv
  <1> QED BY <1>1, <1>2, PTL DEF Spec

\* Every column, local variable and Jira counter keeps its type.
THEOREM TypeCorrect == Spec => []TypeOK
  <1>1. IInv => TypeOK
    BY DEF IInv
  <1> QED BY <1>1, Invariance, PTL

\* claimPendingStep gives a step to one attempt at a time.
THEOREM OneOwner == Spec => []SingleOwner
  <1>1. IInv => SingleOwner
    BY DEF IInv
  <1> QED BY <1>1, Invariance, PTL

\* A COMPLETED execution reports the outputs of its COMPLETED steps, and only of those.
THEOREM Completion == Spec => []CompletedIsWhole
  <1>1. IInv => CompletedIsWhole
    BY DEF IInv
  <1> QED BY <1>1, Invariance, PTL

\* Steps leave PENDING in order, until the execution has failed.
THEOREM StepOrder == Spec => []StepsInOrder
  <1>1. IInv => StepsInOrder
    BY StepsAssumption DEF IInv, Agreement, Ordered, StepsInOrder, Steps
  <1> QED BY <1>1, Invariance, PTL

\* A Jira operation is repeated only after a technical failure, once for each.
THEOREM RepeatsBounded == Spec => []RepeatsAccounted
  <1>1. IInv => RepeatsAccounted
    BY DEF IInv, Repeats, RepeatsAccounted
  <1> QED BY <1>1, Invariance, PTL

\* BullMQ is never told of an end that the execution does not have.
THEOREM TrueOutcomes == Spec => []OutcomeIsTrue
  <1>1. IInv => OutcomeIsTrue
    BY DEF IInv, Ends
  <1> QED BY <1>1, Invariance, PTL

\* A terminal execution is final, and a COMPLETED one freezes its steps.
THEOREM Finality == Spec => FinishedStaysFinished
  <1>1. IInv /\ [Next]_vars =>
           [ /\ execStatus \in Terminal => UNCHANGED <<execStatus, execResult>>
             /\ execStatus = "COMPLETED" => UNCHANGED <<stepStatus, stepOutput>> ]_vars
    BY TerminalStays, CompletedFreezes DEF IInv
  <1> QED BY <1>1, Invariance, PTL DEF Spec, FinishedStaysFinished

-----------------------------------------------------------------------------------
(* The lifecycle. *)

\* Moves that leave statuses, external ids and audits as they are.
LEMMA StatusesKept ==
  ASSUME NEW w \in Workers,
         \/ BeginAttempt(w) \/ LoadSteps(w) \/ ClaimNothing(w) \/ HandlerMove(w)
         \/ JiraApplies(w) \/ TechnicalFailure(w) \/ PersistError(w) \/ AuditAndReturn(w)
         \/ ReadFinal(w) \/ AbortAttempt(w)
  PROVE  UNCHANGED <<execStatus, stepStatus>>
  BY DEF BeginAttempt, LoadSteps, ClaimNothing, HandlerMove, HandleLocal, HandleBusinessFailure,
     HandleNotReady, SendRequest, JiraRejects, JiraReplies, JiraApplies, TechnicalFailure,
     PersistError, AuditAndReturn, ReadFinal, AbortAttempt, rows

\* An attempt may write the status of the step it is at: after the execution failed
\* always, before that along StepMoves and with all earlier steps COMPLETED.
LEMMA StepWritten ==
  ASSUME IInv, NEW k \in Steps, NEW s \in StepStatuses,
         stepStatus' = [stepStatus EXCEPT ![k] = s], execStatus' = execStatus,
         execStatus \in {"RUNNING", "FAILED"},
         execStatus = "RUNNING" =>
            /\ <<stepStatus[k], s>> \in Lifecycle!StepMoves
            /\ \A j \in Steps : j < k => stepStatus[j] = "COMPLETED"
  PROVE  Lifecycle!Next
  <1>1. CASE execStatus = "FAILED"
    <2>1. Lifecycle!WriteLate
      BY <1>1 DEF Lifecycle!WriteLate, Lifecycle!Statuses, Steps, StepStatuses
    <2> QED BY <2>1 DEF Lifecycle!Next
  <1>2. CASE execStatus = "RUNNING"
    <2>1. \A j \in 1 .. k - 1 : stepStatus[j] = "COMPLETED"
      BY <1>2, StepsAssumption DEF Steps
    <2>2. Lifecycle!MoveStep
      BY <1>2, <2>1 DEF Lifecycle!MoveStep, Lifecycle!Statuses, Steps, StepStatuses
    <2> QED BY <2>2 DEF Lifecycle!Next
  <1> QED BY <1>1, <1>2

\* Whoever owns a step of an execution that has not failed has COMPLETED ones before
\* it, and the execution is RUNNING.
LEMMA OwnerStands ==
  ASSUME IInv, NEW w \in Workers,
         pc[w] \in {"dedup", "handle", "sent", "applied", "persist", "revert", "fail"}
  PROVE  /\ at[w] \in Steps
         /\ execStatus \in {"RUNNING", "FAILED"}
         /\ execStatus = "RUNNING" =>
               /\ stepStatus[at[w]] = "RUNNING"
               /\ \A j \in Steps : j < at[w] => stepStatus[j] = "COMPLETED"
  <1>1. at[w] \in Steps /\ Owner(w, at[w])
    BY DEF IInv, Positions, Owner
  <1>2. execStatus # "PENDING"
    BY DEF IInv, Started
  <1>3. execStatus # "FAILED" => /\ stepStatus[at[w]] = "RUNNING"
                                /\ \A j \in Steps : j < at[w] => stepStatus[j] = "COMPLETED"
    BY <1>1 DEF IInv, Agreement, OwnersRun, PrefixDone
  <1>4. execStatus # "COMPLETED"
    BY <1>1, <1>3 DEF IInv, CompletedIsWhole
  <1> QED BY <1>1, <1>2, <1>3, <1>4 DEF IInv, TypeOK, RowsType, ExecStatuses

\* Every step of the program is a step of the lifecycle, or shows nothing.
LEMMA LifecycleStep ==
  ASSUME IInv, [Next]_vars
  PROVE  [Lifecycle!Next]_(Lifecycle!lifecycleVars)
  <1> USE DEF Lifecycle!lifecycleVars
  <1>1. ASSUME NEW w \in Workers, ClaimExecution(w)
        PROVE  Lifecycle!Start \/ UNCHANGED <<execStatus, stepStatus>>
    BY <1>1 DEF ClaimExecution, Lifecycle!Start
  <1>2. ASSUME NEW w \in Workers, ClaimStep(w) PROVE Lifecycle!Next
    <2>1. /\ at[w] \in Steps /\ stepStatus[at[w]] = "PENDING"
          /\ stepStatus' = [stepStatus EXCEPT ![at[w]] = "RUNNING"] /\ execStatus' = execStatus
      BY <1>2 DEF ClaimStep, IInv, Positions
    <2>2. execStatus \in {"RUNNING", "FAILED"}
      BY <1>2, <2>1 DEF ClaimStep, IInv, Started, CompletedIsWhole, TypeOK, RowsType, ExecStatuses
    <2>3. execStatus = "RUNNING" => \A j \in Steps : j < at[w] => stepStatus[j] = "COMPLETED"
      BY DEF IInv, Agreement, PrefixDone
    <2> QED BY <2>1, <2>2, <2>3, StepWritten DEF Lifecycle!StepMoves, StepStatuses
  <1>3. ASSUME NEW w \in Workers,
               DedupPersist(w) \/ PersistOutput(w) \/ RevertStep(w) \/ FailStep(w)
        PROVE  Lifecycle!Next
    <2>1. pc[w] \in {"dedup", "handle", "sent", "applied", "persist", "revert", "fail"}
      BY <1>3 DEF DedupPersist, PersistOutput, RevertStep, FailStep
    <2>2. PICK s \in {"COMPLETED", "PENDING", "FAILED"} :
             stepStatus' = [stepStatus EXCEPT ![at[w]] = s] /\ execStatus' = execStatus
      BY <1>3 DEF DedupPersist, PersistOutput, RevertStep, FailStep, UpdateStatus
    <2>3. <<"RUNNING", s>> \in Lifecycle!StepMoves
      BY DEF Lifecycle!StepMoves
    <2> QED BY <2>1, <2>2, <2>3, OwnerStands, StepWritten DEF StepStatuses
  <1>4. ASSUME NEW w \in Workers, FinishFailed(w)
        PROVE  Lifecycle!FailOnStep \/ UNCHANGED <<execStatus, stepStatus>>
    <2>1. execStatus = "RUNNING" => at[w] \in Steps /\ stepStatus[at[w]] = "FAILED"
      BY <1>4 DEF FinishFailed, IInv, Positions, Agreement, PrefixDone
    <2> QED BY <1>4, <2>1 DEF FinishFailed, Lifecycle!FailOnStep, Steps
  <1>5. ASSUME NEW w \in Workers, FinishCompleted(w)
        PROVE  Lifecycle!Complete \/ UNCHANGED <<execStatus, stepStatus>>
    <2>1. at[w] = N + 1
      BY <1>5 DEF FinishCompleted, IInv, Positions
    <2>2. execStatus = "RUNNING" => \A k \in 1 .. N : stepStatus[k] = "COMPLETED"
      BY <2>1, StepsAssumption DEF IInv, Agreement, PrefixDone, Steps
    <2> QED BY <1>5, <2>2 DEF FinishCompleted, Lifecycle!Complete
  <1>6. ASSUME NEW r \in Recoverers, CommitRecovery(r) PROVE Lifecycle!FailByRecovery
    <2> DEFINE found == {k \in rlocked[r] : rfound[r][k] # NoOutput}
    <2>1. /\ execStatus = "RUNNING" /\ execStatus' = "FAILED"
          /\ stepStatus' = [k \in Steps |->
                IF k \notin rlocked[r] THEN stepStatus[k]
                ELSE IF rfound[r][k] = NoOutput THEN "FAILED" ELSE "COMPLETED"]
      BY <1>6 DEF CommitRecovery
    <2>2. rlocked[r] \in SUBSET {k \in 1 .. N : stepStatus[k] = "RUNNING"}
      BY DEF IInv, Locks, TypeOK, RecoveryType, Steps
    <2>3. found \in SUBSET rlocked[r]
      OBVIOUS
    <2>4. stepStatus' = [k \in 1 .. N |-> IF k \in found THEN "COMPLETED"
                                         ELSE IF k \in rlocked[r] THEN "FAILED" ELSE stepStatus[k]]
      BY <2>1 DEF Steps
    <2> QED BY <2>1, <2>2, <2>3, <2>4 DEF Lifecycle!FailByRecovery
  <1>7. ASSUME NEW r \in Recoverers, RecoveryPause(r) PROVE UNCHANGED <<execStatus, stepStatus>>
    BY <1>7, PauseFacts DEF IInv, TypeOK, rows
  <1>8. ASSUME NEW k \in Steps, ApplyOrphan(k) PROVE UNCHANGED <<execStatus, stepStatus>>
    BY <1>8 DEF ApplyOrphan, rows
  <1>9. CASE UNCHANGED vars
    BY <1>9 DEF vars, rows
  <1> QED BY <1>1, <1>2, <1>3, <1>4, <1>5, <1>6, <1>7, <1>8, <1>9, StatusesKept
     DEF Next, AttemptStep, RecoveryStep, HandlerMove, RecoveryPause, Lifecycle!Next

\* Attempts, crashes and recoveries, however they overlap, show only the lifecycle
\* that the API promises (processWorkflowExecution, recoverStaleRunningExecutions).
THEOREM Implementation == Spec => ImplementsLifecycle
  <1>1. Init => Lifecycle!Init
    BY DEF Init, Lifecycle!Init, Blank, Steps
  <1>2. IInv /\ [Next]_vars => [Lifecycle!Next]_(Lifecycle!lifecycleVars)
    BY LifecycleStep
  <1> QED BY <1>1, <1>2, Invariance, PTL DEF Spec, ImplementsLifecycle, Lifecycle!Spec

-----------------------------------------------------------------------------------
(* The recovery's transaction. *)

\* A RUNNING step is failed by its own attempt or together with its execution.
LEMMA FailedWithExecution ==
  ASSUME IInv, [Next]_vars, NEW k \in Steps,
         stepStatus[k] = "RUNNING", stepStatus'[k] = "FAILED",
         \A w \in Workers : Owner(w, k) => pc[w] # "fail"
  PROVE  execStatus = "RUNNING" /\ execStatus' = "FAILED"
  <1> USE DEF IInv, TypeOK, RowsType
  <1>1. ASSUME NEW w \in Workers, ClaimStep(w) PROVE FALSE
    BY <1>1 DEF ClaimStep, Positions
  <1>2. ASSUME NEW w \in Workers, DedupPersist(w) \/ PersistOutput(w) \/ RevertStep(w) PROVE FALSE
    BY <1>2 DEF DedupPersist, PersistOutput, RevertStep, UpdateStatus, Positions
  <1>3. ASSUME NEW w \in Workers, FailStep(w) PROVE FALSE
    BY <1>3 DEF FailStep, UpdateStatus, Positions, Owner
  <1>4. ASSUME NEW w \in Workers, ClaimExecution(w) \/ FinishFailed(w) \/ FinishCompleted(w)
        PROVE  FALSE
    BY <1>4 DEF ClaimExecution, FinishFailed, FinishCompleted
  <1>5. ASSUME NEW r \in Recoverers, CommitRecovery(r)
        PROVE  execStatus = "RUNNING" /\ execStatus' = "FAILED"
    BY <1>5 DEF CommitRecovery
  <1>6. ASSUME NEW r \in Recoverers, RecoveryPause(r) PROVE FALSE
    BY <1>6, PauseFacts DEF rows
  <1>7. ASSUME NEW j \in Steps, ApplyOrphan(j) PROVE FALSE
    BY <1>7 DEF ApplyOrphan, rows
  <1>8. CASE UNCHANGED vars
    BY <1>8 DEF vars, rows
  <1> QED BY <1>1, <1>2, <1>3, <1>4, <1>5, <1>6, <1>7, <1>8, StatusesKept
     DEF Next, AttemptStep, RecoveryStep, HandlerMove, RecoveryPause

\* A recovery that loses its race leaves no trace in the steps of a live attempt
\* (StaleRecoveryRaceLost).
THEOREM AtomicRecovery == Spec => RecoveryIsAtomic
  <1>1. IInv /\ [Next]_vars =>
          [ \A k \in Steps :
              /\ stepStatus[k] = "RUNNING" /\ stepStatus'[k] = "FAILED"
              /\ ~ \E w \in Workers : Owner(w, k) /\ pc[w] = "fail"
              => execStatus = "RUNNING" /\ execStatus' = "FAILED" ]_vars
    BY FailedWithExecution
  <1> QED BY <1>1, Invariance, PTL DEF Spec, RecoveryIsAtomic

-----------------------------------------------------------------------------------
(* The audit trail. *)

\* Who ends the execution, or audits its end, stands where no other does.
LEMMA AuditsOwedStep ==
  ASSUME IInv, AuditsOwed, [Next]_vars
  PROVE  AuditsOwed'
  <1> USE ActorsAssumption DEF IInv, TypeOK, RowsType, AttemptType, RecoveryType, CountersType,
          Auditing, AuditsOwed, AuditTellsOneEnd, Terminal
  <1>1. ASSUME UNCHANGED <<execStatus, audits>>, Auditing' \subseteq Auditing,
               \A r \in Recoverers : rpc'[r] = "audit" => rpc[r] = "audit"
        PROVE  AuditsOwed'
    BY <1>1
  <1>2. ASSUME NEW w \in Workers, BeginAttempt(w) \/ LoadSteps(w) \/ ClaimStep(w)
        PROVE  AuditsOwed'
    BY <1>1, <1>2 DEF BeginAttempt, LoadSteps, ClaimStep, Goto, rows, recovery
  <1>3. ASSUME NEW w \in Workers, ClaimExecution(w) PROVE AuditsOwed'
    BY <1>3 DEF ClaimExecution, Leave, Goto, recovery
  <1>4. ASSUME NEW w \in Workers, ClaimNothing(w) \/ DedupPersist(w) \/ PersistOutput(w)
        PROVE  AuditsOwed'
    BY <1>1, <1>4 DEF ClaimNothing, DedupPersist, PersistOutput, UpdateStatus, PushAndAdvance,
       Leave, Goto, rows, recovery
  <1>5. ASSUME NEW w \in Workers, HandlerMove(w) PROVE AuditsOwed'
    <2>1. PICK label \in {"persist", "fail", "revert", "sent"} : pc' = [pc EXCEPT ![w] = label]
      BY <1>5, HandlerFacts
    <2>2. UNCHANGED <<execStatus, audits, rpc>>
      BY <1>5, HandlerFacts DEF rows, recovery
    <2> QED BY <1>1, <2>1, <2>2
  <1>6. ASSUME NEW w \in Workers, JiraApplies(w) \/ TechnicalFailure(w) \/ PersistError(w)
        PROVE  AuditsOwed'
    BY <1>1, <1>6 DEF JiraApplies, TechnicalFailure, PersistError, Goto, rows, recovery
  <1>7. ASSUME NEW w \in Workers, RevertStep(w) \/ FailStep(w) \/ ReadFinal(w) \/ AbortAttempt(w)
        PROVE  AuditsOwed'
    BY <1>1, <1>7 DEF RevertStep, FailStep, ReadFinal, AbortAttempt, UpdateStatus, Leave, Goto,
       rows, recovery
  <1>8. ASSUME NEW w \in Workers, FinishFailed(w) \/ FinishCompleted(w) PROVE AuditsOwed'
    BY <1>8 DEF FinishFailed, FinishCompleted, Goto, recovery
  <1>9. ASSUME NEW w \in Workers, AuditAndReturn(w) PROVE AuditsOwed'
    BY <1>9 DEF AuditAndReturn, Leave, Goto, rows, recovery, Ends
  <1>10. ASSUME NEW r \in Recoverers, CommitRecovery(r) PROVE AuditsOwed'
    BY <1>10 DEF CommitRecovery, GotoR, attempt
  <1>11. ASSUME NEW r \in Recoverers, AuditRecovery(r) PROVE AuditsOwed'
    BY <1>11 DEF AuditRecovery, LeaveR, GotoR, rows, attempt
  <1>12. ASSUME NEW r \in Recoverers,
                \/ FindStale(r) \/ ScanSteps(r) \/ LookupComment(r) \/ FailRunningSteps(r)
                \/ RollbackRecovery(r) \/ AbortRecovery(r)
         PROVE  AuditsOwed'
    BY <1>1, <1>12 DEF FindStale, ScanSteps, LookupComment, FailRunningSteps, RollbackRecovery,
       AbortRecovery, LeaveR, GotoR, rows, attempt
  <1>13. ASSUME NEW k \in Steps, ApplyOrphan(k) PROVE AuditsOwed'
    BY <1>1, <1>13 DEF ApplyOrphan, rows, attempt, recovery
  <1>14. CASE UNCHANGED vars
    BY <1>1, <1>14 DEF vars, rows, attempt, recovery
  <1> QED BY <1>2, <1>3, <1>4, <1>5, <1>6, <1>7, <1>8, <1>9, <1>10, <1>11, <1>12, <1>13, <1>14
     DEF Next, AttemptStep, RecoveryStep, HandlerMove

\* The audit trail tells at most one end, and that is the execution's, however many
\* attempts and recoveries compete for it (finalizeRunningExecution, failStaleRunning).
THEOREM OneEnd == Spec => []AuditTellsOneEnd
  <1>1. Init => AuditsOwed
    BY DEF Init, AuditsOwed, Auditing, AuditTellsOneEnd, Terminal
  <1>2. IInv /\ AuditsOwed /\ [Next]_vars => AuditsOwed'
    BY AuditsOwedStep
  <1>3. AuditsOwed => AuditTellsOneEnd
    BY DEF AuditsOwed
  <1> QED BY <1>1, <1>2, <1>3, Invariance, PTL DEF Spec

-----------------------------------------------------------------------------------
(* Outputs. *)

\* An id, once given by Jira, is evidence for good; every copy of one is a copy of
\* evidence.
LEMMA EvidenceStep ==
  ASSUME IInv, Evidence, [Next]_vars
  PROVE  Evidence'
  <1> USE OutputAssumption
      DEF IInv, TypeOK, RowsType, JiraType, AttemptType, RecoveryType, Outputs, Evidence, Proofs
  <1>1. ASSUME UNCHANGED <<stepOutput, effects>>,
               \A k \in Steps : stepStatus'[k] = "COMPLETED" => stepStatus[k] = "COMPLETED",
               \A w \in Workers, k \in Steps : snapOutput'[w][k] \in {NoOutput, snapOutput[w][k]},
               \A r \in Recoverers, k \in Steps : rfound'[r][k] \in {NoOutput, rfound[r][k]},
               \A w \in Workers : pc'[w] \in {"applied", "persist"} /\ at'[w] \in External =>
                  pc[w] \in {"applied", "persist"} /\ at'[w] = at[w] /\ reply'[w] = reply[w]
        PROVE  Evidence'
    BY <1>1 DEF External
  <1>leave. ASSUME NEW w \in Workers, NEW out, Leave(w, out)
        PROVE  /\ \A v \in Workers, k \in Steps : snapOutput'[v][k] \in {NoOutput, snapOutput[v][k]}
               /\ \A v \in Workers : pc'[v] \in {"applied", "persist"} =>
                     pc'[v] = pc[v] /\ at'[v] = at[v] /\ reply'[v] = reply[v]
    <2>1. \A v \in Workers : v # w =>
            pc'[v] = pc[v] /\ at'[v] = at[v] /\ reply'[v] = reply[v] /\ snapOutput'[v] = snapOutput[v]
      BY <1>leave DEF Leave, Goto
    <2>2. pc'[w] = "idle" /\ snapOutput'[w] = NoOutputs
      BY <1>leave DEF Leave, Goto
    <2> QED BY ZenonT(30), <2>1, <2>2 DEF NoOutputs
  <1>leaveR. ASSUME NEW r \in Recoverers, LeaveR(r)
        PROVE  \A q \in Recoverers, k \in Steps : rfound'[q][k] \in {NoOutput, rfound[q][k]}
    <2>1. \A q \in Recoverers : q # r => rfound'[q] = rfound[q]
      BY <1>leaveR DEF LeaveR
    <2>2. rfound'[r] = NoOutputs
      BY <1>leaveR DEF LeaveR
    <2> QED BY <2>1, <2>2 DEF NoOutputs
  <1>2. ASSUME NEW w \in Workers, BeginAttempt(w) \/ FinishFailed(w) \/ FinishCompleted(w)
        PROVE  Evidence'
    BY <1>1, <1>2 DEF BeginAttempt, FinishFailed, FinishCompleted, Goto, rows, jira, recovery
  <1>3. ASSUME NEW w \in Workers, LoadSteps(w) PROVE Evidence'
    BY <1>3 DEF LoadSteps, Goto, External, rows, jira, recovery
  <1>4. ASSUME NEW w \in Workers,
               ClaimExecution(w) \/ AuditAndReturn(w) \/ ReadFinal(w) \/ AbortAttempt(w)
        PROVE  Evidence'
    <2>1. UNCHANGED <<stepStatus, stepOutput, effects, rfound>>
      BY <1>4 DEF ClaimExecution, AuditAndReturn, ReadFinal, AbortAttempt, rows, jira, recovery
    <2>2. CASE \E out : Leave(w, out)
      BY <1>1, <1>leave, <2>1, <2>2
    <2>3. CASE ClaimExecution(w) /\ execStatus = "PENDING"
      BY <1>1, <2>1, <2>3 DEF ClaimExecution, Goto
    <2> QED BY <1>4, <2>2, <2>3 DEF ClaimExecution, AuditAndReturn, ReadFinal, AbortAttempt
  <1>5. ASSUME NEW w \in Workers, ClaimStep(w) PROVE Evidence'
    BY <1>5 DEF ClaimStep, Goto, External, Positions, jira, recovery
  <1>6. ASSUME NEW w \in Workers, ClaimNothing(w) PROVE Evidence'
    <2>1. UNCHANGED <<stepStatus, stepOutput, effects, rfound>>
      BY <1>6 DEF ClaimNothing, rows, jira, recovery
    <2>2. CASE Leave(w, "none")
      BY <1>1, <1>leave, <2>1, <2>2
    <2>3. CASE PushAndAdvance(w, snapOutput[w][at[w]])
      BY <1>1, <2>1, <2>3 DEF PushAndAdvance, Goto
    <2>4. CASE Goto(w, "finishFailed") /\ UNCHANGED <<at, snapOutput, reply>>
      BY <1>1, <2>1, <2>4 DEF Goto
    <2> QED BY <1>6, <2>2, <2>3, <2>4 DEF ClaimNothing
  <1>7. ASSUME NEW w \in Workers, DedupPersist(w) PROVE Evidence'
    BY <1>7 DEF DedupPersist, UpdateStatus, PushAndAdvance, Goto, External, Positions, jira, recovery
  <1>8. ASSUME NEW w \in Workers, PersistOutput(w) PROVE Evidence'
    BY <1>8 DEF PersistOutput, UpdateStatus, PushAndAdvance, Goto, External, Positions, jira, recovery
  <1>9. ASSUME NEW w \in Workers, RevertStep(w) \/ FailStep(w) PROVE Evidence'
    <2>1. UNCHANGED <<effects, rfound>> /\ stepOutput' = stepOutput
      BY <1>9 DEF RevertStep, FailStep, UpdateStatus, jira, recovery
    <2>2. \A k \in Steps : stepStatus'[k] = "COMPLETED" => stepStatus[k] = "COMPLETED"
      BY <1>9 DEF RevertStep, FailStep, UpdateStatus
    <2>3. CASE RevertStep(w)
      BY <1>1, <1>leave, <2>1, <2>2, <2>3 DEF RevertStep
    <2>4. CASE FailStep(w)
      BY <1>1, <2>1, <2>2, <2>4 DEF FailStep, Goto
    <2> QED BY <1>9, <2>3, <2>4
  <1>10. ASSUME NEW w \in Workers, HandlerMove(w) PROVE Evidence'
    BY <1>1, <1>10 DEF HandlerMove, HandleLocal, HandleBusinessFailure, HandleNotReady, SendRequest,
       JiraRejects, JiraReplies, Goto, rows, jira, recovery
  <1>11. ASSUME NEW w \in Workers, JiraApplies(w) PROVE Evidence'
    BY <1>11 DEF JiraApplies, Goto, External, Positions, rows, recovery
  <1>12. ASSUME NEW w \in Workers, TechnicalFailure(w) \/ PersistError(w) PROVE Evidence'
    BY <1>12 DEF TechnicalFailure, PersistError, Goto, External, rows, jira, recovery
  <1>13. ASSUME NEW r \in Recoverers, CommitRecovery(r) PROVE Evidence'
    BY <1>13 DEF CommitRecovery, External, jira, attempt
  <1>14. ASSUME NEW r \in Recoverers, LookupComment(r) PROVE Evidence'
    BY <1>14 DEF LookupComment, External, rows, jira, attempt
  <1>15. ASSUME NEW r \in Recoverers, FindStale(r) \/ ScanSteps(r) \/ FailRunningSteps(r)
         PROVE  Evidence'
    BY <1>1, <1>15 DEF FindStale, ScanSteps, FailRunningSteps, rows, jira, attempt
  <1>16. ASSUME NEW r \in Recoverers, RollbackRecovery(r) \/ AuditRecovery(r) \/ AbortRecovery(r)
         PROVE  Evidence'
    <2>1. LeaveR(r) /\ UNCHANGED <<rows, jira, attempt>>
      BY <1>16 DEF RollbackRecovery, AuditRecovery, AbortRecovery
    <2> QED BY <1>1, <1>leaveR, <2>1 DEF rows, jira, attempt
  <1>17. ASSUME NEW k \in Steps, ApplyOrphan(k) PROVE Evidence'
    BY <1>17 DEF ApplyOrphan, External, rows, attempt, recovery
  <1>18. CASE UNCHANGED vars
    BY <1>1, <1>18 DEF vars, rows, jira, attempt, recovery
  <1> QED BY <1>2, <1>3, <1>4, <1>5, <1>6, <1>7, <1>8, <1>9, <1>10, <1>11, <1>12, <1>13, <1>14,
     <1>15, <1>16, <1>17, <1>18 DEF Next, AttemptStep, RecoveryStep, HandlerMove

\* A COMPLETED external step carries the id of an operation Jira has applied,
\* whether an attempt, the dedup or the recovery wrote it (updateStatus).
THEOREM TrueEvidence == Spec => []OutputIsEvidence
  <1>1. Init => Evidence
    BY DEF Init, Evidence, Blank, NoOutputs, External
  <1>2. IInv /\ Evidence /\ [Next]_vars => Evidence'
    BY EvidenceStep
  <1>3. Evidence => OutputIsEvidence
    BY DEF Evidence, OutputIsEvidence, Proofs
  <1> QED BY <1>1, <1>2, <1>3, Invariance, PTL DEF Spec

===================================================================================
