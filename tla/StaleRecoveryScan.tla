----------------------------- MODULE StaleRecoveryScan ----------------------------
(***************************************************************************)
(* recoverStaleRunningExecutions over many executions: runs of the         *)
(* recovery scan for the RUNNING executions that are stale, oldest first,  *)
(* and end them one by one, while attempts go on with them and other runs  *)
(* scan the same ones.                                                     *)
(*                                                                         *)
(* What the attempts do with one execution is ExecutionLifecycle, which    *)
(* WorkflowProcessing implements; the recovery's transaction on one        *)
(* execution is one step, as RecoveryIsAtomic shows there.  What a search  *)
(* for a step's comment may find is in JiraService: here it finds any of   *)
(* the steps it looks for.                                                 *)
(***************************************************************************)
EXTENDS Naturals, FiniteSets

CONSTANTS
    Executions,
    Steps,      \* steps of each
    Runs,       \* recoveries that may be under way at a time
    MaxLimit,   \* bound: the limit of a scan, MAX_RECOVERY_LIMIT in the code
    MaxErrors   \* bound: recoveries that end with an error or with their process

ASSUME ScanAssumption ==
    /\ IsFiniteSet(Executions) /\ IsFiniteSet(Runs)
    /\ Steps \in Nat \ {0} /\ MaxLimit \in Nat \ {0} /\ MaxErrors \in Nat

VARIABLES
    status,   \* of each execution
    steps,    \* the status of its steps
    started,  \* started_at: each execution's place among those that were started, or 0
    pc,       \* each run: "idle", "loop", or "ending" once it has searched for comments
    todo,     \* the executions of its scan it has not come to
    scanned,  \* all of its scan
    found,    \* the steps of the oldest of them whose comment was found
    report,   \* recoveredExecutions
    ended,    \* how many times the recovery ended an execution
    told,     \* how many answers said so
    untold,   \* executions whose report was lost with its run
    errors    \* counter for the bound

rows  == <<status, steps, started>>
run   == <<pc, todo, scanned, found, report>>
after == <<ended, told, untold, errors>>
vars  == <<rows, run, after>>

Life(e) == INSTANCE ExecutionLifecycle WITH N <- Steps, status <- status[e], steps <- steps[e]

Statuses == {"PENDING", "RUNNING", "COMPLETED", "FAILED"}

Started == {e \in Executions : started[e] > 0}

\* Each variable has its type, and started_at is written once.
TypeOK ==
    /\ status \in [Executions -> Statuses]
    /\ steps \in [Executions -> [1 .. Steps -> Statuses]]
    /\ started \in [Executions -> Nat]
    /\ Started = {e \in Executions : status[e] # "PENDING"}
    /\ {started[e] : e \in Started} = 1 .. Cardinality(Started)
    /\ pc \in [Runs -> {"idle", "loop", "ending"}]
    /\ scanned \in [Runs -> SUBSET Executions] /\ \A r \in Runs : scanned[r] \subseteq Started
    /\ todo \in [Runs -> SUBSET Executions] /\ \A r \in Runs : todo[r] \subseteq scanned[r]
    /\ found \in [Runs -> SUBSET (1 .. Steps)]
    /\ report \in [Runs -> SUBSET Executions] /\ \A r \in Runs : report[r] \subseteq scanned[r] \ todo[r]
    /\ ended \in [Executions -> Nat] /\ told \in [Executions -> Nat]
    /\ untold \subseteq Executions
    /\ errors \in 0 .. MaxErrors

Init ==
    /\ status = [e \in Executions |-> "PENDING"]
    /\ steps = [e \in Executions |-> [k \in 1 .. Steps |-> "PENDING"]]
    /\ started = [e \in Executions |-> 0]
    /\ pc = [r \in Runs |-> "idle"]
    /\ todo = [r \in Runs |-> {}] /\ scanned = [r \in Runs |-> {}]
    /\ found = [r \in Runs |-> {}] /\ report = [r \in Runs |-> {}]
    /\ ended = [e \in Executions |-> 0] /\ told = [e \in Executions |-> 0]
    /\ untold = {} /\ errors = 0

-----------------------------------------------------------------------------------
\* started_at is written on every claim of a step (TypeOK).
AttemptRestamps(e) ==
    /\ \E s \in Statuses, row \in [1 .. Steps -> Statuses] :
          /\ status' = [status EXCEPT ![e] = s]
          /\ steps' = [steps EXCEPT ![e] = row]
          /\ Life(e)!Start \/ Life(e)!MoveStep \/ Life(e)!Complete \/ Life(e)!FailOnStep
    /\ started' = IF status'[e] = "RUNNING" THEN [started EXCEPT ![e] = Cardinality(Started) + 1] ELSE started
    /\ UNCHANGED <<run, after>>

\* An attempt moves an execution, in any way its lifecycle has but the recovery's; a
\* late write under a FAILED one is left out, as no scan comes back to it.
Attempt(e) ==
    /\ \E s \in Statuses, row \in [1 .. Steps -> Statuses] :
          /\ status' = [status EXCEPT ![e] = s]
          /\ steps' = [steps EXCEPT ![e] = row]
          /\ Life(e)!Start \/ Life(e)!MoveStep \/ Life(e)!Complete \/ Life(e)!FailOnStep
    /\ started' = IF status[e] = "PENDING" THEN [started EXCEPT ![e] = Cardinality(Started) + 1] ELSE started
    /\ UNCHANGED <<run, after>>

\* ORDER BY started_at ASC LIMIT.
Oldest(among, limit) ==
    {e \in among : Cardinality({f \in among : started[f] <= started[e]}) <= limit}

\* The query does not look at the status, and executions that ended long ago take up
\* the limit (StaleAreEnded).
FindStaleAnyStatus(old, limit) == Oldest({e \in Started : started[e] <= old}, limit)

\* findStaleRunning: of the executions old enough for this run's timeout, the oldest
\* that are RUNNING, up to its limit.
FindStaleRunning(old, limit) ==
    Oldest({e \in Started : started[e] <= old /\ status[e] = "RUNNING"}, limit)

Scan(r, old, limit) ==
    /\ pc[r] = "idle"
    /\ pc' = [pc EXCEPT ![r] = "loop"]
    /\ todo' = [todo EXCEPT ![r] = FindStaleRunning(old, limit)]
    /\ scanned' = [scanned EXCEPT ![r] = FindStaleRunning(old, limit)]
    /\ UNCHANGED <<rows, found, report, after>>

\* The execution the loop is at.
Turn(r, e) == e \in todo[r] /\ \A f \in todo[r] : started[e] <= started[f]

RunningSteps(e) == {k \in 1 .. Steps : steps[e][k] = "RUNNING"}

\* findRemoteRecoveredStepOutputsById reads the steps of the next execution and
\* looks for the comments of those that are RUNNING.
FindRemoteRecovered(r, e) ==
    /\ pc[r] = "loop" /\ Turn(r, e)
    /\ pc' = [pc EXCEPT ![r] = "ending"]
    /\ \E open \in SUBSET RunningSteps(e) : found' = [found EXCEPT ![r] = open]
    /\ UNCHANGED <<rows, todo, scanned, report, after>>

\* The loop takes the next execution.
Advance(r, e) ==
    /\ pc' = [pc EXCEPT ![r] = "loop"]
    /\ todo' = [todo EXCEPT ![r] = @ \ {e}]
    /\ found' = [found EXCEPT ![r] = {}]
    /\ UNCHANGED <<started, scanned, told, untold, errors>>

\* What the transaction writes once it finds the execution RUNNING.
EndExecution(r, e, ending) ==
    /\ status' = [status EXCEPT ![e] = "FAILED"]
    /\ steps' = [steps EXCEPT ![e] = [k \in 1 .. Steps |->
                     IF k \notin ending THEN @[k] ELSE IF k \in found[r] THEN "COMPLETED" ELSE "FAILED"]]
    /\ report' = [report EXCEPT ![r] = @ \cup {e}]
    /\ ended' = [ended EXCEPT ![e] = @ + 1]

\* The update is not guarded, and an execution that ended meanwhile is ended again
\* (ReportIsTrue).
FailStaleUnguarded(r, e) ==
    /\ pc[r] = "ending" /\ Turn(r, e)
    /\ EndExecution(r, e, RunningSteps(e))
    /\ Advance(r, e)

\* The steps whose comment was found are completed whatever they are by now
\* (RecoveryKeepsLifecycle).
FailStaleOldFound(r, e) ==
    /\ pc[r] = "ending" /\ Turn(r, e)
    /\ status[e] = "RUNNING"
    /\ EndExecution(r, e, RunningSteps(e) \cup found[r])
    /\ Advance(r, e)

\* The transaction: the RUNNING steps are failed, those whose comment was found are
\* completed, and failStaleRunning ends the execution, which is then reported.
FailStaleRunning(r, e) ==
    /\ pc[r] = "ending" /\ Turn(r, e)
    /\ status[e] = "RUNNING"
    /\ EndExecution(r, e, RunningSteps(e))
    /\ Advance(r, e)

\* StaleRecoveryRaceLost: everything is rolled back and the loop goes on.
RaceLost(r, e) ==
    /\ pc[r] = "ending" /\ Turn(r, e)
    /\ status[e] # "RUNNING"
    /\ Advance(r, e)
    /\ UNCHANGED <<status, steps, report, ended>>

EndRun(r) ==
    /\ pc' = [pc EXCEPT ![r] = "idle"]
    /\ todo' = [todo EXCEPT ![r] = {}]
    /\ scanned' = [scanned EXCEPT ![r] = {}]
    /\ found' = [found EXCEPT ![r] = {}]
    /\ report' = [report EXCEPT ![r] = {}]
    /\ UNCHANGED <<rows, ended>>

\* The answer with recoveredExecutions.
Finish(r) ==
    /\ pc[r] = "loop" /\ todo[r] = {}
    /\ told' = [e \in Executions |-> IF e \in report[r] THEN told[e] + 1 ELSE told[e]]
    /\ EndRun(r)
    /\ UNCHANGED <<untold, errors>>

\* Any other error ends the loop with a 500, and a crash ends it without an answer:
\* what was ended stays ended, but nobody is told.
RunBreaks(r) ==
    /\ pc[r] # "idle"
    /\ errors < MaxErrors
    /\ errors' = errors + 1
    /\ untold' = untold \cup report[r]
    /\ EndRun(r)
    /\ UNCHANGED told

RunSteps(r) ==
    \/ \E e \in Executions : FindRemoteRecovered(r, e) \/ FailStaleRunning(r, e) \/ RaceLost(r, e)
    \/ Finish(r)

Next ==
    \/ \E e \in Executions : Attempt(e)
    \/ \E r \in Runs :
          \/ \E old \in 1 .. Cardinality(Started), limit \in 1 .. MaxLimit : Scan(r, old, limit)
          \/ RunSteps(r) \/ RunBreaks(r)

Spec == Init /\ [][Next]_vars

\* A run under way goes on; and somebody goes on asking for recoveries, with any limit,
\* so that again and again one is asked for when every execution started so far has
\* become stale: whatever the timeout, time passes (strong, as shorter runs come
\* between).
FairSpec ==
    /\ Spec
    /\ \A r \in Runs :
          /\ SF_vars(\E limit \in 1 .. MaxLimit : Scan(r, Cardinality(Started), limit))
          /\ WF_vars(RunSteps(r))

-----------------------------------------------------------------------------------
(* What holds in every state. *)

\* What an administrator is told is so, whatever runs beside: a run's report has
\* only executions that this run ended, none is ended or reported twice, when the
\* loop is through nothing it scanned is RUNNING any more, and only a run that broke
\* leaves an ended execution unreported (recoverStaleRunningExecutions).
ReportIsTrue ==
    /\ \A e \in Executions :
          /\ ended[e] <= 1
          /\ ended[e] = 1 => status[e] = "FAILED"
          /\ told[e] + Cardinality({r \in Runs : e \in report[r]})
               + (IF e \in untold THEN 1 ELSE 0) = ended[e]
    /\ \A r \in Runs : \A e \in scanned[r] \ todo[r] : status[e] # "RUNNING"

\* Every step the recovery takes is one that ExecutionLifecycle allows: nothing an
\* attempt or another run wrote meanwhile is undone by an older scan
\* (StaleRecoveryRaceLost).
RecoveryKeepsLifecycle ==
    [][ \A e \in Executions : ended'[e] > ended[e] => Life(e)!FailByRecovery ]_vars

\* No execution stays RUNNING for good though the limit is one and some runs break:
\* an execution that ends frees the place of the next in the scan
\* (findStaleRunning, oldest first).
StaleAreEnded ==
    \A e \in Executions : status[e] = "RUNNING" ~> status[e] # "RUNNING"

===================================================================================
