--------------------------- MODULE ProcessingQueue_proofs --------------------------
(***************************************************************************)
(* Proofs about ProcessingQueue for any numbers of clients, workers,       *)
(* administrators and readers, any options of the job and any bounds.      *)
(*                                                                         *)
(* QueueInv is inductive.  Its parts are who has the lock of the job, what *)
(* an end tells of the execution, the workers that lost their lock, and    *)
(* the budget of attempts.                                                 *)
(***************************************************************************)
EXTENDS ProcessingQueue, FiniteSetTheorems, TLAPS

-----------------------------------------------------------------------------------
(* The invariant. *)

\* A lock is on the active job and its worker is at work; a job that is to be
\* attempted has an attempt left.
LocksInv ==
    /\ holder # Nobody => job = "active" /\ wpc[holder] # "idle"
    /\ job \in Live => made < Attempts + retries

\* A worker's end agrees with the execution, which has ended for good; and who has
\* seen a job misses it only after a deletion.
EndsInv ==
    /\ \A w \in Workers :
          /\ wpc[w] = "completed" => status = "COMPLETED"
          /\ wpc[w] = "failed" => status = "FAILED"
    /\ \A d \in Readers : dpc[d] # "idle" => job # "none" \/ removals > 0
    /\ JobEndIsTrue

\* The workers that go on without the lock: each has lost it to an expiry.
Orphans == {w \in Workers : wpc[w] # "idle" /\ holder # w}
OrphansInv == IsFiniteSet(Orphans) /\ Cardinality(Orphans) <= expiries

\* Of the retries, `own` were of the present job.  What the jobs before it used up is
\* paid for by their deletions and the other retries; the present one is at its limits.
Spent(own) ==
    /\ starts <= (Attempts + MaxStalled) * removals + (retries - own)
                   + made + stalls + (IF job = "active" THEN 1 ELSE 0)
    /\ job = "none" => made = 0 /\ stalls = 0
    /\ job \in Live =>
          /\ made < Attempts + own /\ stalls <= MaxStalled + own
          /\ made + stalls < Attempts + MaxStalled + own
    /\ job \in Finished =>
          /\ made <= Attempts + own /\ stalls <= MaxStalled + own + 1
          /\ made + stalls <= Attempts + MaxStalled + own
BudgetInv == \E own \in 0 .. retries : Spent(own)

QueueInv == TypeOK /\ LocksInv /\ EndsInv /\ OrphansInv /\ BudgetInv

-----------------------------------------------------------------------------------
(* Types and locks. *)

LEMMA TypesStep ==
  ASSUME TypeOK, LocksInv, Next
  PROVE  TypeOK' /\ LocksInv'
  <1> USE QueueAssumption
      DEF TypeOK, LocksInv, Statuses, Live, Finished, JobStates, Outcomes, jobVars, workerVars, tallies, callers
  <1>1. ASSUME NEW c \in Clients, CheckPending(c) PROVE TypeOK' /\ LocksInv'
    BY <1>1 DEF CheckPending
  <1>2. ASSUME NEW c \in Clients, AddJob(c) PROVE TypeOK' /\ LocksInv'
    BY <1>2 DEF AddJob
  <1>3. ASSUME NEW w \in Workers, TakeJob(w) PROVE TypeOK' /\ LocksInv'
    BY <1>3 DEF TakeJob
  <1>4. ASSUME NEW w \in Workers, ClaimExecution(w) PROVE TypeOK' /\ LocksInv'
    BY <1>4 DEF ClaimExecution
  <1>5. ASSUME NEW w \in Workers, AttemptReturns(w) PROVE TypeOK' /\ LocksInv'
    BY <1>5 DEF AttemptReturns
  <1>6. ASSUME NEW w \in Workers, Settle(w) PROVE TypeOK' /\ LocksInv'
    <2>1. CASE holder # w
      BY <1>6, <2>1 DEF Settle, Report
    <2>2. CASE holder = w
      BY <1>6, <2>2 DEF Settle, Report
    <2> QED BY <2>1, <2>2
  <1>7. ASSUME NEW w \in Workers, WorkerDies(w) PROVE TypeOK' /\ LocksInv'
    BY <1>7 DEF WorkerDies
  <1>8. CASE EndExecution
    BY <1>8 DEF EndExecution
  <1>9. CASE DelayElapses
    BY <1>9 DEF DelayElapses
  <1>10. CASE LockExpires
    BY <1>10 DEF LockExpires
  <1>11. CASE StalledCheck
    BY <1>11 DEF StalledCheck
  <1>12. ASSUME NEW a \in Admins, CheckFailed(a) \/ CheckDeletable(a) PROVE TypeOK' /\ LocksInv'
    BY <1>12 DEF CheckFailed, CheckDeletable
  <1>13. ASSUME NEW a \in Admins, RetryJob(a) PROVE TypeOK' /\ LocksInv'
    BY <1>13 DEF RetryJob
  <1>14. ASSUME NEW a \in Admins, DeleteJob(a) PROVE TypeOK' /\ LocksInv'
    BY <1>14 DEF DeleteJob
  <1>15. ASSUME NEW d \in Readers, GetJob(d) \/ GetState(d) \/ ListIds(d) \/ FetchJobs(d)
         PROVE  TypeOK' /\ LocksInv'
    BY <1>15 DEF GetJob, GetState, ListIds, FetchJobs
  <1>16. ASSUME NEW w \in Workers, ReadExecution(w) PROVE TypeOK' /\ LocksInv'
    BY <1>16 DEF ReadExecution
  <1> QED BY <1>1, <1>2, <1>3, <1>4, <1>5, <1>6, <1>7, <1>8, <1>9, <1>10, <1>11, <1>12, <1>13, <1>14, <1>15, <1>16
          DEF Next, WorkerStep

-----------------------------------------------------------------------------------
(* Ends. *)

\* An execution that has ended keeps its end.
LEMMA EndStays ==
  ASSUME TypeOK, Next, status \in Terminal
  PROVE  status' = status
  BY DEF Terminal, Next, WorkerStep, CheckPending, AddJob, TakeJob, ReadExecution, ClaimExecution, EndExecution,
     AttemptReturns, Settle, Report, DelayElapses, LockExpires, WorkerDies, StalledCheck, CheckFailed,
     RetryJob, CheckDeletable, DeleteJob, GetJob, GetState, ListIds, FetchJobs

LEMMA EndsStep ==
  ASSUME TypeOK, LocksInv, EndsInv, Next
  PROVE  EndsInv'
  <1> USE DEF TypeOK, LocksInv, EndsInv, JobEndIsTrue, Outcomes, jobVars, workerVars, tallies, callers
  <1>0. status \in Terminal => status' = status
    BY EndStays
  <1> USE DEF Terminal
  <1>1. ASSUME NEW c \in Clients, CheckPending(c) \/ AddJob(c) PROVE EndsInv'
    BY <1>1 DEF CheckPending, AddJob
  <1>2. ASSUME NEW w \in Workers, TakeJob(w) \/ ReadExecution(w) PROVE EndsInv'
    BY <1>2 DEF TakeJob, ReadExecution
  <1>3. ASSUME NEW w \in Workers, ClaimExecution(w) PROVE EndsInv'
    BY <1>0, <1>3 DEF ClaimExecution
  <1>4. ASSUME NEW w \in Workers, AttemptReturns(w) PROVE EndsInv'
    BY <1>4 DEF AttemptReturns
  <1>5. ASSUME NEW w \in Workers, Settle(w) PROVE EndsInv'
    <2>1. CASE holder # w
      BY <1>5, <2>1 DEF Settle, Report
    <2>2. CASE holder = w
      BY <1>5, <2>2 DEF Settle, Report
    <2> QED BY <2>1, <2>2
  <1>6. ASSUME NEW w \in Workers, WorkerDies(w) PROVE EndsInv'
    BY <1>6 DEF WorkerDies
  <1>7. CASE EndExecution
    BY <1>0, <1>7 DEF EndExecution
  <1>8. CASE DelayElapses \/ LockExpires \/ StalledCheck
    BY <1>8 DEF DelayElapses, LockExpires, StalledCheck
  <1>9. ASSUME NEW a \in Admins, CheckFailed(a) \/ CheckDeletable(a) PROVE EndsInv'
    BY <1>9 DEF CheckFailed, CheckDeletable
  <1>10. ASSUME NEW a \in Admins, RetryJob(a) PROVE EndsInv'
    BY <1>10 DEF RetryJob
  <1>11. ASSUME NEW a \in Admins, DeleteJob(a) PROVE EndsInv'
    BY <1>11 DEF DeleteJob
  <1>12. ASSUME NEW d \in Readers, GetJob(d) \/ GetState(d) \/ ListIds(d) \/ FetchJobs(d)
         PROVE  EndsInv'
    <2>1. /\ UNCHANGED <<status, job, why, wpc, removals>>
          /\ dpc' = [dpc EXCEPT ![d] = dpc'[d]] /\ report' = [report EXCEPT ![d] = report'[d]]
      BY <1>12 DEF GetJob, GetState, ListIds, FetchJobs
    <2>2. dpc'[d] # "idle" => job # "none"
      BY <1>12 DEF GetJob, GetState, ListIds, FetchJobs
    <2>3. \/ report'[d] \in {report[d], "not_found", "none", job}
          \/ job = "none" /\ dpc[d] # "idle"
      <3>1. CASE GetJob(d)
        BY <3>1 DEF GetJob
      <3>2. CASE GetState(d)
        BY <3>2 DEF GetState
      <3>3. CASE ListIds(d)
        BY <3>3 DEF ListIds
      <3>4. CASE FetchJobs(d)
        BY <3>4 DEF FetchJobs
      <3> QED BY <1>12, <3>1, <3>2, <3>3, <3>4
    <2>4. job \notin {"unknown", "error"}
      BY DEF JobStates, Live, Finished
    <2>5. report'[d] \in {"unknown", "error"} => removals > 0
      BY <2>3, <2>4
    <2>6. report'[d] = "completed" => status = "COMPLETED"
      BY <1>12 DEF GetJob, GetState, ListIds, FetchJobs
    <2> QED BY <2>1, <2>2, <2>5, <2>6
  <1> QED BY <1>1, <1>2, <1>3, <1>4, <1>5, <1>6, <1>7, <1>8, <1>9, <1>10, <1>11, <1>12
          DEF Next, WorkerStep

-----------------------------------------------------------------------------------
(* Orphans. *)

\* A worker that stops being at work, or takes the job, makes no orphan; whoever makes
\* one is counted.
LEMMA OrphansStep ==
  ASSUME TypeOK, LocksInv, OrphansInv, Next
  PROVE  OrphansInv'
  <1> USE DEF TypeOK, LocksInv, OrphansInv
  <1>1. ASSUME Orphans' \subseteq Orphans, expiries' >= expiries, expiries' \in Nat PROVE OrphansInv'
    <2>1. IsFiniteSet(Orphans') /\ Cardinality(Orphans') <= Cardinality(Orphans)
      BY <1>1, FS_Subset
    <2>2. Cardinality(Orphans) \in Nat /\ Cardinality(Orphans') \in Nat
      BY <2>1, FS_CardinalityType
    <2> QED BY <1>1, <2>1, <2>2
  <1>2. ASSUME NEW x, Orphans' \subseteq Orphans \cup {x}, expiries' = expiries + 1 PROVE OrphansInv'
    <2>1. IsFiniteSet(Orphans \cup {x}) /\ Cardinality(Orphans \cup {x}) <= Cardinality(Orphans) + 1
      <3>1. IsFiniteSet(Orphans) /\ Cardinality(Orphans) \in Nat
        BY FS_CardinalityType
      <3>2. /\ IsFiniteSet(Orphans \cup {x})
            /\ Cardinality(Orphans \cup {x}) =
                  IF x \in Orphans THEN Cardinality(Orphans) ELSE Cardinality(Orphans) + 1
        BY <3>1, FS_AddElement, Zenon
      <3> QED BY <3>1, <3>2
    <2>2. IsFiniteSet(Orphans') /\ Cardinality(Orphans') <= Cardinality(Orphans \cup {x})
      BY <1>2, <2>1, FS_Subset
    <2>3. Cardinality(Orphans) \in Nat /\ Cardinality(Orphans') \in Nat /\ Cardinality(Orphans \cup {x}) \in Nat
      BY <2>1, <2>2, FS_CardinalityType
    <2> QED BY <1>2, <2>1, <2>2, <2>3
  <1>3. ASSUME NEW w \in Workers, TakeJob(w) PROVE OrphansInv'
    <2>1. Orphans' \subseteq Orphans
      BY <1>3, QueueAssumption DEF TakeJob, Orphans
    <2> QED BY <1>1, <1>3, <2>1 DEF TakeJob
  <1>4. ASSUME NEW w \in Workers, WorkerStep(w) PROVE OrphansInv'
    <2>1. Orphans' \subseteq Orphans
      <3>1. CASE AttemptReturns(w)
        BY <3>1 DEF AttemptReturns, Orphans, jobVars
      <3>2. CASE Settle(w)
        BY <3>2, QueueAssumption DEF Settle, Report, Orphans, jobVars
      <3>3. CASE ReadExecution(w)
        BY <3>3 DEF ReadExecution, Orphans, jobVars
      <3> QED BY <1>4, <3>1, <3>2, <3>3 DEF WorkerStep
    <2>2. expiries' = expiries
      BY <1>4 DEF WorkerStep, ReadExecution, AttemptReturns, Settle, Report, tallies
    <2> QED BY <1>1, <2>1, <2>2
  <1>5. ASSUME NEW w \in Workers, WorkerDies(w) PROVE OrphansInv'
    <2>1. Orphans' \subseteq Orphans \cup {w}
      BY <1>5 DEF WorkerDies, Orphans
    <2> QED BY <1>2, <1>5, <2>1 DEF WorkerDies
  <1>6. CASE LockExpires
    <2>1. Orphans' \subseteq Orphans \cup {holder}
      BY <1>6 DEF LockExpires, Orphans, workerVars
    <2> QED BY <1>2, <1>6, <2>1 DEF LockExpires
  <1>7. CASE /\ UNCHANGED <<wpc, expiries>>
             /\ holder' # holder => holder' = Nobody /\ holder = Nobody
    BY <1>1, <1>7 DEF Orphans
  <1>8. ASSUME NEW c \in Clients, AddJob(c) PROVE OrphansInv'
    <2>1. job # "none" \/ holder = Nobody
      OBVIOUS
    <2> QED BY <1>7, <1>8, <2>1 DEF AddJob, workerVars, jobVars
  <1>9. ASSUME /\ ~ \E w \in Workers : TakeJob(w) \/ WorkerStep(w) \/ WorkerDies(w)
               /\ ~ LockExpires /\ ~ \E c \in Clients : AddJob(c)
        PROVE  UNCHANGED <<wpc, expiries, holder>>
    BY <1>9 DEF Next, CheckPending, ClaimExecution, EndExecution, DelayElapses, StalledCheck, CheckFailed,
       RetryJob, CheckDeletable, DeleteJob, GetJob, GetState, ListIds, FetchJobs, jobVars, workerVars, tallies,
       callers
  <1> QED BY <1>3, <1>4, <1>5, <1>6, <1>7, <1>8, <1>9

-----------------------------------------------------------------------------------
(* The budget of attempts. *)

\* Of the present job's retries none is left when it is deleted, and a new job starts
\* without any.
LEMMA BudgetStep ==
  ASSUME TypeOK, LocksInv, BudgetInv, Next
  PROVE  BudgetInv'
  <1> DEFINE paid == (Attempts + MaxStalled) * removals
  <1>1. PICK own \in 0 .. retries : Spent(own)
    BY DEF BudgetInv
  <1>2. /\ starts \in Nat /\ removals \in Nat /\ retries \in Nat /\ made \in Nat /\ stalls \in Nat
        /\ paid \in Nat /\ own \in Nat /\ own <= retries
        /\ Attempts \in Nat /\ Attempts > 0 /\ MaxStalled \in Nat
        /\ job \in JobStates
    BY QueueAssumption DEF TypeOK
  <1>3. /\ starts <= paid + (retries - own) + made + stalls + (IF job = "active" THEN 1 ELSE 0)
        /\ job = "none" => made = 0 /\ stalls = 0
        /\ job \in Live =>
              /\ made < Attempts + own /\ stalls <= MaxStalled + own
              /\ made + stalls < Attempts + MaxStalled + own
        /\ job \in Finished =>
              /\ made <= Attempts + own /\ stalls <= MaxStalled + own + 1
              /\ made + stalls <= Attempts + MaxStalled + own
    BY <1>1 DEF Spent
  <1> USE DEF Live, Finished
  <1>4. ASSUME UNCHANGED <<starts, removals, retries, job, made, stalls>> PROVE BudgetInv'
    BY <1>1, <1>4 DEF BudgetInv, Spent
  <1>5. ASSUME removals' = removals, NEW o \in 0 .. retries',
               starts' <= paid + (retries' - o) + made' + stalls' + (IF job' = "active" THEN 1 ELSE 0),
               job' = "none" => made' = 0 /\ stalls' = 0,
               job' \in Live => made' < Attempts + o /\ stalls' <= MaxStalled + o,
               job' \in Live => made' + stalls' < Attempts + MaxStalled + o,
               job' \in Finished => made' <= Attempts + o /\ stalls' <= MaxStalled + o + 1,
               job' \in Finished => made' + stalls' <= Attempts + MaxStalled + o
        PROVE  BudgetInv'
    BY <1>5 DEF BudgetInv, Spent
  <1> HIDE DEF paid
  <1>6. ASSUME NEW c \in Clients, AddJob(c) PROVE BudgetInv'
    <2>1. CASE job = "none"
      <3>1. /\ job' = "waiting" /\ made' = 0 /\ stalls' = 0 /\ UNCHANGED <<starts, removals, retries>>
        BY <1>6, <2>1 DEF AddJob
      <3>2. starts <= paid + retries /\ 0 \in 0 .. retries'
        BY <1>2, <1>3, <2>1, <3>1
      <3> QED BY <1>2, <1>5, <3>1, <3>2
    <2>2. CASE job # "none"
      BY <1>4, <1>6, <2>2 DEF AddJob, jobVars
    <2> QED BY <2>1, <2>2
  <1>7. ASSUME NEW w \in Workers, TakeJob(w) PROVE BudgetInv'
    <2>1. /\ job = "waiting" /\ job' = "active" /\ starts' = starts + 1
          /\ UNCHANGED <<made, stalls, removals, retries>>
      BY <1>7 DEF TakeJob
    <2> QED BY <1>2, <1>3, <1>5, <2>1
  <1>8. ASSUME NEW w \in Workers, Settle(w) PROVE BudgetInv'
    <2>1. UNCHANGED <<starts, removals, retries>>
      BY <1>8 DEF Settle, Report, tallies
    <2>2. CASE holder # w
      BY <1>4, <1>8, <2>1, <2>2 DEF Settle, Report, jobVars
    <2>3. CASE holder = w
      <3>1. job = "active"
        BY <2>3, QueueAssumption DEF LocksInv
      <3>2. /\ made' = made + 1 /\ stalls' = stalls
            /\ job' \in Finished \/ (job' = "delayed" /\ made' < Attempts)
        BY <1>8, <2>3 DEF Settle, Report
      <3>3. starts' <= paid + (retries' - own) + made' + stalls' + 0
        BY <1>2, <1>3, <2>1, <3>1, <3>2
      <3>4. CASE job' \in Finished
        BY <1>2, <1>3, <1>5, <2>1, <3>1, <3>2, <3>3, <3>4
      <3>5. CASE job' = "delayed" /\ made' < Attempts
        BY <1>2, <1>3, <1>5, <2>1, <3>1, <3>2, <3>3, <3>5
      <3> QED BY <3>2, <3>4, <3>5
    <2> QED BY <2>2, <2>3
  <1>9. CASE DelayElapses
    <2>1. job = "delayed" /\ job' = "waiting" /\ UNCHANGED <<starts, made, stalls, removals, retries>>
      BY <1>9 DEF DelayElapses, tallies
    <2> QED BY <1>2, <1>3, <1>5, <2>1
  <1>10. CASE StalledCheck
    <2>1. /\ job = "active" /\ stalls' = stalls + 1 /\ UNCHANGED <<starts, made, removals, retries>>
          /\ job' = "failed" \/ (job' = "waiting" /\ stalls' <= MaxStalled)
      BY <1>2, <1>10 DEF StalledCheck, tallies
    <2>2. starts' <= paid + (retries' - own) + made' + stalls' + 0
      BY <1>2, <1>3, <2>1
    <2>3. CASE job' = "failed"
      BY <1>2, <1>3, <1>5, <2>1, <2>2, <2>3
    <2>4. CASE job' = "waiting" /\ stalls' <= MaxStalled
      BY <1>2, <1>3, <1>5, <2>1, <2>2, <2>4
    <2> QED BY <2>1, <2>3, <2>4
  <1>11. ASSUME NEW a \in Admins, RetryJob(a) PROVE BudgetInv'
    <2>1. CASE job = "failed"
      <3>1. /\ job' = "waiting" /\ retries' = retries + 1
            /\ UNCHANGED <<starts, made, stalls, removals>>
        BY <1>11, <2>1 DEF RetryJob
      <3> DEFINE o == own + 1
      <3>2. o \in 0 .. retries' /\ retries' - o = retries - own /\ o \in Nat
        BY <1>2, <3>1
      <3>3. /\ made' < Attempts + o /\ stalls' <= MaxStalled + o
            /\ made' + stalls' < Attempts + MaxStalled + o
        BY <1>2, <1>3, <2>1, <3>1
      <3> HIDE DEF o
      <3>4. starts' <= paid + (retries' - o) + made' + stalls' + (IF job' = "active" THEN 1 ELSE 0)
        BY <1>2, <1>3, <2>1, <3>1, <3>2
      <3> QED BY <1>5, <3>1, <3>2, <3>3, <3>4
    <2>2. CASE job # "failed"
      BY <1>4, <1>11, <2>2 DEF RetryJob
    <2> QED BY <2>1, <2>2
  <1>12. ASSUME NEW a \in Admins, DeleteJob(a) PROVE BudgetInv'
    <2>1. CASE job' = "none" /\ job # "none"
      <3>1. /\ made' = 0 /\ stalls' = 0 /\ removals' = removals + 1 /\ UNCHANGED <<starts, retries>>
        BY <1>12, <2>1 DEF DeleteJob
      <3>2. made + stalls + (IF job = "active" THEN 1 ELSE 0) <= Attempts + MaxStalled + own
        BY <1>2, <1>3, <2>1 DEF JobStates
      <3>3. paid' = paid + Attempts + MaxStalled
        BY <1>2, <3>1 DEF paid
      <3>4. starts' <= paid' + (retries' - 0) + 0 + 0 + 0 /\ 0 \in 0 .. retries'
        BY <1>2, <1>3, <3>1, <3>2, <3>3
      <3>5. Spent(0)'
        BY <2>1, <3>1, <3>4 DEF Spent, paid
      <3> QED BY <3>4, <3>5 DEF BudgetInv
    <2>2. CASE ~ (job' = "none" /\ job # "none")
      BY <1>4, <1>12, <2>2 DEF DeleteJob
    <2> QED BY <2>1, <2>2
  <1>13. ASSUME /\ ~ \E c \in Clients : AddJob(c)
                /\ ~ \E w \in Workers : TakeJob(w) \/ Settle(w)
                /\ ~ DelayElapses /\ ~ StalledCheck
                /\ ~ \E a \in Admins : RetryJob(a) \/ DeleteJob(a)
         PROVE  UNCHANGED <<starts, removals, retries, job, made, stalls>>
    BY <1>13 DEF Next, WorkerStep, CheckPending, ReadExecution, ClaimExecution, EndExecution, AttemptReturns,
       LockExpires, WorkerDies, CheckFailed, CheckDeletable, GetJob, GetState, ListIds, FetchJobs, jobVars, workerVars,
       tallies, callers
  <1> QED BY <1>4, <1>6, <1>7, <1>8, <1>9, <1>10, <1>11, <1>12, <1>13

-----------------------------------------------------------------------------------
(* The theorems. *)

LEMMA QueueStart == Init => QueueInv
  <1> SUFFICES ASSUME Init PROVE QueueInv
    OBVIOUS
  <1> USE QueueAssumption DEF Init
  <1>1. TypeOK /\ LocksInv
    BY DEF TypeOK, LocksInv, Statuses, JobStates, Live, Finished, Outcomes
  <1>2. EndsInv
    BY DEF EndsInv, JobEndIsTrue
  <1>3. Orphans = {}
    BY DEF Orphans
  <1>4. OrphansInv
    BY <1>3, FS_EmptySet DEF OrphansInv
  <1>5. Spent(0) /\ 0 \in 0 .. retries
    BY DEF Spent, Live, Finished
  <1> QED BY <1>1, <1>2, <1>4, <1>5 DEF QueueInv, BudgetInv

LEMMA QueueStep == QueueInv /\ [Next]_vars => QueueInv'
  <1> SUFFICES ASSUME QueueInv, [Next]_vars PROVE QueueInv'
    OBVIOUS
  <1>1. CASE Next
    BY <1>1, TypesStep, EndsStep, OrphansStep, BudgetStep DEF QueueInv
  <1>2. CASE UNCHANGED vars
    <2> USE <1>2 DEF vars, jobVars, workerVars, tallies, callers, QueueInv
    <2>1. TypeOK' /\ LocksInv' /\ EndsInv'
      BY DEF TypeOK, LocksInv, EndsInv, JobEndIsTrue
    <2>2. UNCHANGED Orphans
      BY DEF Orphans
    <2>3. OrphansInv'
      BY <2>2 DEF OrphansInv
    <2>4. BudgetInv'
      BY DEF BudgetInv, Spent
    <2> QED BY <2>1, <2>3, <2>4
  <1> QED BY <1>1, <1>2

THEOREM QueueInvariance == Spec => []QueueInv
  <1> QED BY QueueStart, QueueStep, PTL DEF Spec

\* Each variable has its type, and no job is attempted beyond its options and the
\* retries an administrator gave it (the queue's defaultJobOptions, retryJob).
THEOREM QueueTypes == Spec => []TypeOK
  <1>1. QueueInv => TypeOK
    BY DEF QueueInv
  <1> QED BY <1>1, QueueInvariance, PTL

\* A job that ends tells the end of its execution, and so does whoever is told of it,
\* however many workers go on without their lock (createWorkflowProcessingWorker,
\* getWorkflowExecutionProcessingJobStatus, listJobs).
THEOREM TrueJobEnds == Spec => []JobEndIsTrue
  <1>1. QueueInv => JobEndIsTrue
    BY DEF QueueInv, EndsInv
  <1> QED BY <1>1, QueueInvariance, PTL

\* However often an execution is enqueued and its job stalls, is retried or deleted, it
\* is attempted at most as often as its jobs, stalls and retries pay for
\* (buildWorkflowProcessingJobId, the queue's defaultJobOptions).
THEOREM BoundedStarts == Spec => []StartsBounded
  <1>1. QueueInv => StartsBounded
    <2> SUFFICES ASSUME QueueInv PROVE StartsBounded
      OBVIOUS
    <2> DEFINE each == Attempts + MaxStalled
    <2>1. PICK own \in 0 .. retries : Spent(own)
      BY DEF QueueInv, BudgetInv
    <2>2. /\ starts \in Nat /\ removals \in Nat /\ retries \in Nat /\ made \in Nat /\ stalls \in Nat
          /\ each \in Nat /\ each * removals \in Nat /\ own \in Nat /\ own <= retries
          /\ job \in JobStates
      BY QueueAssumption DEF QueueInv, TypeOK
    <2>3. made + stalls + (IF job = "active" THEN 1 ELSE 0) <= each + own
      BY <2>1, <2>2 DEF Spent, JobStates, Live, Finished
    <2>4. starts <= each * removals + (retries - own) + made + stalls + (IF job = "active" THEN 1 ELSE 0)
      BY <2>1 DEF Spent
    <2>5. each * (1 + removals) = each + each * removals
      BY <2>2
    <2> HIDE DEF each
    <2>6. starts <= each * (1 + removals) + retries
      BY <2>2, <2>3, <2>4, <2>5
    <2> QED BY <2>6 DEF StartsBounded, each
  <1> QED BY <1>1, QueueInvariance, PTL

\* Two attempts run at once only after a lock expired: each worker beside the one that
\* holds the lock has lost its own (buildWorkflowProcessingJobId, concurrency 1).
THEOREM ExpiredOverlaps == Spec => []OverlapNeedsExpiry
  <1>1. QueueInv => OverlapNeedsExpiry
    <2> SUFFICES ASSUME QueueInv PROVE OverlapNeedsExpiry
      OBVIOUS
    <2> DEFINE busy == {w \in Workers : wpc[w] # "idle"}
    <2>1. IsFiniteSet(Orphans) /\ Cardinality(Orphans) \in Nat /\ Cardinality(Orphans) <= expiries
          /\ expiries \in Nat
      BY FS_CardinalityType DEF QueueInv, OrphansInv, TypeOK
    <2>2. /\ IsFiniteSet(Orphans \cup {holder})
          /\ Cardinality(Orphans \cup {holder}) =
                IF holder \in Orphans THEN Cardinality(Orphans) ELSE Cardinality(Orphans) + 1
      BY <2>1, FS_AddElement, Zenon
    <2>3. busy \subseteq Orphans \cup {holder}
      BY DEF Orphans
    <2>4. Cardinality(busy) <= Cardinality(Orphans \cup {holder}) /\ Cardinality(busy) \in Nat
      BY <2>2, <2>3, FS_Subset, FS_CardinalityType
    <2> HIDE DEF busy
    <2>5. Cardinality(busy) <= 1 + expiries
      BY <2>1, <2>2, <2>4
    <2> QED BY <2>5 DEF OverlapNeedsExpiry, busy
  <1> QED BY <1>1, QueueInvariance, PTL

===================================================================================
