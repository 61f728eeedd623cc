-------------------------- MODULE StaleRecoveryScan_proofs ------------------------
(***************************************************************************)
(* Proofs about StaleRecoveryScan, for any executions with any number of   *)
(* steps, any number of recoveries beside each other and any limit: what   *)
(* is reported is so, and the recovery moves an execution only as its      *)
(* lifecycle allows.                                                       *)
(*                                                                         *)
(* Most of it is a count.  Whoever ends an execution holds its report      *)
(* until the report is told or lost, and an execution is ended only while  *)
(* it is RUNNING, so that nobody has a report of it.                       *)
(***************************************************************************)
EXTENDS StaleRecoveryScan, FiniteSetTheorems, TLAPS

Reporting(e) == {r \in Runs : e \in report[r]}

Untold(e) == IF e \in untold THEN 1 ELSE 0

\* ReportIsTrue, of one execution.
Counted(e) ==
    /\ ended[e] <= 1
    /\ ended[e] = 1 => status[e] = "FAILED"
    /\ told[e] + Cardinality(Reporting(e)) + Untold(e) = ended[e]

CountInv == \A e \in Executions : Counted(e)

\* Nothing the loop has behind it is RUNNING any more.
BehindInv == \A r \in Runs : \A e \in scanned[r] \ todo[r] : status[e] # "RUNNING"

\* A run that has not begun reports nothing.
IdleInv == \A r \in Runs : pc[r] = "idle" => report[r] = {}

ScanInv == TypeOK /\ CountInv /\ BehindInv /\ IdleInv

-----------------------------------------------------------------------------------
(* Sets and counts. *)

\* A report is with finitely many runs, and those that have one are counted.
LEMMA ReportingCounts ==
    ASSUME TypeOK, NEW e \in Executions
    PROVE  /\ IsFiniteSet(Reporting(e))
           /\ Cardinality(Reporting(e)) \in Nat
           /\ Cardinality(Reporting(e)) = 0 <=> Reporting(e) = {}
  <1>1. IsFiniteSet(Reporting(e))
    BY FS_Subset, ScanAssumption DEF Reporting
  <1> QED BY <1>1, FS_CardinalityType, FS_EmptySet

\* The executions that were started are finitely many.
LEMMA StartedCounts ==
    IsFiniteSet(Started) /\ Cardinality(Started) \in Nat
  <1>1. IsFiniteSet(Started)
    BY FS_Subset, ScanAssumption DEF Started
  <1> QED BY <1>1, FS_CardinalityType

\* The oldest of some executions are some of them.
LEMMA OldestAmong ==
    ASSUME NEW among, NEW limit
    PROVE  Oldest(among, limit) \subseteq among
  BY DEF Oldest

-----------------------------------------------------------------------------------
(* What an attempt does. *)

\* An attempt starts a PENDING execution, moves a RUNNING one, and leaves one that
\* ended as it is (claimPendingExecution, finalizeRunningExecution).
LEMMA AttemptMoves ==
    ASSUME TypeOK, NEW e \in Executions, Attempt(e)
    PROVE  /\ status' \in [Executions -> Statuses]
           /\ steps' \in [Executions -> [1 .. Steps -> Statuses]]
           /\ status[e] \in {"PENDING", "RUNNING"}
           /\ status[e] = "PENDING" => status'[e] = "RUNNING"
           /\ status[e] = "RUNNING" => status'[e] # "PENDING"
           /\ \A f \in Executions \ {e} : status'[f] = status[f]
  <1>1. PICK s \in Statuses, row \in [1 .. Steps -> Statuses] :
          /\ status' = [status EXCEPT ![e] = s]
          /\ steps' = [steps EXCEPT ![e] = row]
          /\ Life(e)!Start \/ Life(e)!MoveStep \/ Life(e)!Complete \/ Life(e)!FailOnStep
    BY Zenon DEF Attempt
  <1>2. status[e] \in Statuses /\ status'[e] = s /\ \A f \in Executions \ {e} : status'[f] = status[f]
    BY <1>1 DEF TypeOK
  <1>3. status' \in [Executions -> Statuses] /\ steps' \in [Executions -> [1 .. Steps -> Statuses]]
    BY <1>1 DEF TypeOK
  <1>4. \/ status[e] = "PENDING" /\ status'[e] = "RUNNING"
        \/ status[e] = "RUNNING" /\ status'[e] \in {"RUNNING", "COMPLETED", "FAILED"}
    BY <1>1 DEF Life!Start, Life!MoveStep, Life!Complete, Life!FailOnStep
  <1> QED BY <1>2, <1>3, <1>4

\* An execution that starts takes the place after those started before it.
LEMMA StartTakesPlace ==
    ASSUME TypeOK, NEW e \in Executions, Attempt(e), status[e] = "PENDING"
    PROVE  /\ started' \in [Executions -> Nat]
           /\ Started' = Started \cup {e}
           /\ {started[f] : f \in Started}' = (1 .. Cardinality(Started))'
  <1> DEFINE n == Cardinality(Started)
  <1>1. n \in Nat /\ IsFiniteSet(Started)
    BY StartedCounts
  <1>2. started \in [Executions -> Nat] /\ e \notin Started
    BY DEF TypeOK
  <1>3. started' = [started EXCEPT ![e] = n + 1]
    BY DEF Attempt
  <1> HIDE DEF n
  <1>4. started' \in [Executions -> Nat] /\ started'[e] = n + 1
          /\ \A f \in Executions \ {e} : started'[f] = started[f]
    BY <1>1, <1>2, <1>3
  <1>5. Started' = Started \cup {e}
    BY <1>1, <1>4 DEF Started
  <1>6. Cardinality(Started)' = n + 1
    <2>1. Cardinality(Started \cup {e}) = n + 1
      BY <1>1, <1>2, FS_AddElement DEF n
    <2> QED BY <1>5, <2>1
  <1>7. {started[f] : f \in Started}' = {started[f] : f \in Started} \cup {n + 1}
    BY <1>2, <1>4, <1>5 DEF Started
  <1>8. {started[f] : f \in Started} = 1 .. n
    BY DEF TypeOK, n
  <1>9. (1 .. n) \cup {n + 1} = 1 .. n + 1
    BY <1>1
  <1> QED BY <1>4, <1>5, <1>6, <1>7, <1>8, <1>9

LEMMA AttemptKeeps ==
    ASSUME ScanInv, NEW e \in Executions, Attempt(e)
    PROVE  ScanInv'
  <1>1. TypeOK /\ UNCHANGED <<run, after>>
    BY DEF ScanInv, Attempt
  <1>2. /\ status' \in [Executions -> Statuses]
        /\ steps' \in [Executions -> [1 .. Steps -> Statuses]]
        /\ status[e] \in {"PENDING", "RUNNING"}
        /\ status[e] = "PENDING" => status'[e] = "RUNNING"
        /\ status[e] = "RUNNING" => status'[e] # "PENDING"
        /\ \A f \in Executions \ {e} : status'[f] = status[f]
    BY <1>1, AttemptMoves
  <1>3. /\ started' \in [Executions -> Nat]
        /\ Started' = {f \in Executions : status'[f] # "PENDING"}
        /\ {started[f] : f \in Started}' = (1 .. Cardinality(Started))'
        /\ Started \subseteq Started'
    <2>1. CASE status[e] = "PENDING"
      <3>1. Started = {f \in Executions : status[f] # "PENDING"}
        BY <1>1 DEF TypeOK
      <3>2. Started' = Started \cup {e}
        BY <1>1, <2>1, StartTakesPlace
      <3>3. Started \cup {e} = {f \in Executions : status'[f] # "PENDING"}
        BY <1>2, <2>1, <3>1
      <3> QED BY <1>1, <2>1, <3>2, <3>3, StartTakesPlace
    <2>2. CASE status[e] # "PENDING"
      <3>1. started' = started /\ Started' = Started
        BY <2>2 DEF Attempt, Started
      <3>2. Started = {f \in Executions : status[f] # "PENDING"}
        BY <1>1 DEF TypeOK
      <3>3. {f \in Executions : status[f] # "PENDING"}
               = {f \in Executions : status'[f] # "PENDING"}
        BY <1>2, <2>2
      <3>4. started \in [Executions -> Nat]
            /\ {started[f] : f \in Started} = 1 .. Cardinality(Started)
        BY <1>1 DEF TypeOK
      <3>5. {started[f] : f \in Started}' = (1 .. Cardinality(Started))'
        BY <3>1, <3>4
      <3> QED BY <3>1, <3>2, <3>3, <3>4, <3>5
    <2> QED BY <2>1, <2>2
  <1>4. TypeOK'
    <2>1. /\ \A r \in Runs : scanned'[r] \subseteq Started'
      BY <1>1, <1>3 DEF TypeOK, run
    <2> QED BY <1>1, <1>2, <1>3, <2>1 DEF TypeOK, run, after
  <1>5. CountInv'
    BY <1>1, <1>2 DEF ScanInv, CountInv, Counted, Reporting, Untold, run, after
  <1>6. BehindInv'
    <2> SUFFICES ASSUME NEW r \in Runs, NEW f \in scanned[r] \ todo[r]
                 PROVE  status'[f] # "RUNNING"
      BY <1>1 DEF BehindInv, run
    <2>1. f \in Executions /\ status[f] \notin {"PENDING", "RUNNING"}
      BY <1>1 DEF ScanInv, BehindInv, TypeOK, Started
    <2> QED BY <1>2, <2>1
  <1>7. IdleInv'
    BY <1>1 DEF ScanInv, IdleInv, run
  <1> QED BY <1>4, <1>5, <1>6, <1>7 DEF ScanInv

-----------------------------------------------------------------------------------
(* What a run does. *)

LEMMA ScanKeeps ==
    ASSUME ScanInv, NEW r \in Runs, NEW old, NEW limit, Scan(r, old, limit)
    PROVE  ScanInv'
  <1> DEFINE stale == FindStaleRunning(old, limit)
  <1>1. stale \subseteq Started
    BY OldestAmong DEF FindStaleRunning
  <1>2. /\ UNCHANGED <<rows, found, report, after>>
        /\ pc' = [pc EXCEPT ![r] = "loop"]
        /\ todo' = [todo EXCEPT ![r] = stale]
        /\ scanned' = [scanned EXCEPT ![r] = stale]
        /\ pc[r] = "idle"
    BY DEF Scan
  <1> HIDE DEF stale
  <1>3. Started' = Started /\ Started \subseteq Executions
    BY <1>2 DEF Started, rows
  <1>4. TypeOK'
    <2>1. report[r] = {}
      BY <1>2 DEF ScanInv, TypeOK, IdleInv
    <2>2. todo' \in [Runs -> SUBSET Executions] /\ scanned' \in [Runs -> SUBSET Executions]
      BY <1>1, <1>2, <1>3 DEF ScanInv, TypeOK
    <2>3. \A q \in Runs :
             scanned'[q] \subseteq Started' /\ todo'[q] \subseteq scanned'[q]
               /\ report[q] \subseteq scanned'[q] \ todo'[q]
      BY <1>1, <1>2, <1>3, <2>1 DEF ScanInv, TypeOK
    <2>4. pc' \in [Runs -> {"idle", "loop", "ending"}]
      BY <1>2 DEF ScanInv, TypeOK
    <2>5. /\ UNCHANGED <<status, steps, started, found, report, ended, told, untold, errors>>
          /\ {started[f] : f \in Started}' = (1 .. Cardinality(Started))'
      BY <1>2, <1>3 DEF ScanInv, TypeOK, rows, after
    <2> QED BY <1>3, <2>2, <2>3, <2>4, <2>5 DEF ScanInv, TypeOK
  <1>5. CountInv'
    BY <1>2 DEF ScanInv, CountInv, Counted, Reporting, Untold, rows, after
  <1>6. BehindInv'
    BY <1>2 DEF ScanInv, TypeOK, BehindInv, rows
  <1>7. IdleInv'
    BY <1>2 DEF ScanInv, TypeOK, IdleInv
  <1> QED BY <1>4, <1>5, <1>6, <1>7 DEF ScanInv

LEMMA FindRemoteRecoveredKeeps ==
    ASSUME ScanInv, NEW r \in Runs, NEW e \in Executions, FindRemoteRecovered(r, e)
    PROVE  ScanInv'
  <1>1. /\ pc' = [pc EXCEPT ![r] = "ending"]
        /\ UNCHANGED <<rows, todo, scanned, report, after>>
        /\ found' \in [Runs -> SUBSET (1 .. Steps)]
    BY DEF FindRemoteRecovered, RunningSteps, ScanInv, TypeOK
  <1>2. Started' = Started
    BY <1>1 DEF Started, rows
  <1>3. TypeOK'
    BY <1>1, <1>2 DEF ScanInv, TypeOK, rows, after
  <1>4. CountInv'
    BY <1>1 DEF ScanInv, CountInv, Counted, Reporting, Untold, rows, after
  <1>5. BehindInv' /\ IdleInv'
    BY <1>1 DEF ScanInv, TypeOK, BehindInv, IdleInv, rows
  <1> QED BY <1>3, <1>4, <1>5 DEF ScanInv

\* The loop goes on without the execution it was at, whose turn was taken.
LEMMA RaceLostKeeps ==
    ASSUME ScanInv, NEW r \in Runs, NEW e \in Executions, RaceLost(r, e)
    PROVE  ScanInv'
  <1>1. /\ e \in todo[r] /\ status[e] # "RUNNING" /\ pc[r] = "ending"
        /\ pc' = [pc EXCEPT ![r] = "loop"]
        /\ todo' = [todo EXCEPT ![r] = todo[r] \ {e}]
        /\ found' = [found EXCEPT ![r] = {}]
        /\ UNCHANGED <<started, scanned, told, untold, errors, status, steps, report, ended>>
    BY DEF RaceLost, Turn, Advance
  <1>2. Started' = Started
    BY <1>1 DEF Started
  <1>3. TypeOK'
    BY <1>1, <1>2 DEF ScanInv, TypeOK
  <1>4. CountInv'
    BY <1>1 DEF ScanInv, CountInv, Counted, Reporting, Untold
  <1>5. BehindInv'
    BY <1>1 DEF ScanInv, TypeOK, BehindInv
  <1>6. IdleInv'
    BY <1>1 DEF ScanInv, TypeOK, IdleInv
  <1> QED BY <1>3, <1>4, <1>5, <1>6 DEF ScanInv

\* An execution that is RUNNING was not ended, and nobody has a report of it.
LEMMA RunningIsUnreported ==
    ASSUME ScanInv, NEW e \in Executions, status[e] = "RUNNING"
    PROVE  ended[e] = 0 /\ told[e] = 0 /\ Reporting(e) = {} /\ e \notin untold
  <1>1. /\ Cardinality(Reporting(e)) \in Nat
        /\ Cardinality(Reporting(e)) = 0 <=> Reporting(e) = {}
    BY ReportingCounts DEF ScanInv
  <1>2. ended[e] \in Nat /\ told[e] \in Nat /\ ended[e] <= 1 /\ ended[e] # 1
    BY DEF ScanInv, TypeOK, CountInv, Counted
  <1>3. told[e] + Cardinality(Reporting(e)) + Untold(e) = 0 /\ Untold(e) \in Nat
    BY <1>2 DEF ScanInv, CountInv, Counted, Untold
  <1>4. told[e] = 0 /\ Cardinality(Reporting(e)) = 0 /\ Untold(e) = 0
    BY <1>1, <1>2, <1>3
  <1> QED BY <1>1, <1>2, <1>4 DEF Untold

LEMMA FailStaleRunningKeeps ==
    ASSUME ScanInv, NEW r \in Runs, NEW e \in Executions, FailStaleRunning(r, e)
    PROVE  ScanInv'
  <1>1. /\ e \in todo[r] /\ status[e] = "RUNNING"
        /\ pc' = [pc EXCEPT ![r] = "loop"]
        /\ todo' = [todo EXCEPT ![r] = todo[r] \ {e}]
        /\ found' = [found EXCEPT ![r] = {}]
        /\ UNCHANGED <<started, scanned, told, untold, errors>>
        /\ status' = [status EXCEPT ![e] = "FAILED"]
        /\ report' = [report EXCEPT ![r] = report[r] \cup {e}]
        /\ ended' = [ended EXCEPT ![e] = ended[e] + 1]
    BY DEF FailStaleRunning, Turn, Advance, EndExecution
  <1>2. TypeOK
    BY DEF ScanInv
  <1>3. /\ status'[e] = "FAILED" /\ \A f \in Executions \ {e} : status'[f] = status[f]
        /\ report'[r] = report[r] \cup {e} /\ \A q \in Runs \ {r} : report'[q] = report[q]
        /\ ended'[e] = ended[e] + 1 /\ \A f \in Executions \ {e} : ended'[f] = ended[f]
        /\ todo'[r] = todo[r] \ {e} /\ \A q \in Runs \ {r} : todo'[q] = todo[q]
    BY <1>1, <1>2 DEF TypeOK
  <1>4. Started' = Started
    BY <1>1 DEF Started
  <1>5. TypeOK'
    <2>1. steps' \in [Executions -> [1 .. Steps -> Statuses]]
      <3> DEFINE row == [k \in 1 .. Steps |-> IF k \notin RunningSteps(e) THEN steps[e][k]
                                             ELSE IF k \in found[r] THEN "COMPLETED" ELSE "FAILED"]
      <3>1. steps' = [steps EXCEPT ![e] = row]
        BY DEF FailStaleRunning, EndExecution
      <3>2. row \in [1 .. Steps -> Statuses]
        <4> HIDE DEF row
        <4>0. steps \in [Executions -> [1 .. Steps -> Statuses]]
          BY <1>2 DEF TypeOK
        <4>1. \A k \in 1 .. Steps : steps[e][k] \in Statuses
          BY <4>0
        <4>2. "COMPLETED" \in Statuses /\ "FAILED" \in Statuses
          BY DEF Statuses
        <4> QED BY <4>1, <4>2 DEF row
      <3> QED BY <1>2, <3>1, <3>2 DEF TypeOK
    <2>2. status' \in [Executions -> Statuses] /\ ended' \in [Executions -> Nat]
      BY <1>1, <1>2 DEF TypeOK, Statuses
    <2>3. Started = {f \in Executions : status'[f] # "PENDING"}
      BY <1>1, <1>2, <1>3 DEF TypeOK
    <2>4. /\ todo' \in [Runs -> SUBSET Executions] /\ report' \in [Runs -> SUBSET Executions]
          /\ \A q \in Runs : todo'[q] \subseteq scanned[q] /\ report'[q] \subseteq scanned[q] \ todo'[q]
      BY <1>1, <1>2, <1>3 DEF TypeOK
    <2>5. pc' \in [Runs -> {"idle", "loop", "ending"}] /\ found' \in [Runs -> SUBSET (1 .. Steps)]
      BY <1>1, <1>2 DEF TypeOK
    <2>6. {started[f] : f \in Started}' = (1 .. Cardinality(Started))'
      BY <1>1, <1>2, <1>4 DEF TypeOK
    <2>7. /\ started' \in [Executions -> Nat] /\ told' \in [Executions -> Nat]
          /\ scanned' \in [Runs -> SUBSET Executions] /\ \A q \in Runs : scanned'[q] \subseteq Started'
          /\ untold' \subseteq Executions /\ errors' \in 0 .. MaxErrors /\ scanned' = scanned
      BY <1>1, <1>2, <1>4 DEF TypeOK
    <2> QED BY <1>4, <2>1, <2>2, <2>3, <2>4, <2>5, <2>6, <2>7 DEF TypeOK
  <1>6. CountInv'
    <2>1. Counted(e)'
      <3>1. ended[e] = 0 /\ told[e] = 0 /\ Reporting(e) = {} /\ e \notin untold
        BY <1>1, RunningIsUnreported
      <3>2. Reporting(e)' = {} \cup {r}
        BY <1>3, <3>1 DEF Reporting
      <3>3. Cardinality(Reporting(e)') = 1
        <4>1. IsFiniteSet({}) /\ Cardinality({}) = 0 /\ r \notin {}
          BY FS_EmptySet
        <4>2. Cardinality({} \cup {r}) = IF r \in {} THEN Cardinality({}) ELSE Cardinality({}) + 1
          BY <4>1, FS_AddElement, Zenon
        <4>3. Cardinality({} \cup {r}) = 1
          BY <4>1, <4>2
        <4> QED BY <3>2, <4>3
      <3>4. ended'[e] = 1 /\ told'[e] = 0 /\ Untold(e)' = 0
        BY <1>1, <1>3, <3>1 DEF Untold
      <3>5. Cardinality(Reporting(e))' = 1
        BY <3>3
      <3> QED BY <1>3, <3>4, <3>5 DEF Counted
    <2>2. ASSUME NEW f \in Executions \ {e} PROVE Counted(f)'
      <3>1. Reporting(f)' = Reporting(f)
        BY <1>3 DEF Reporting
      <3> QED BY <1>1, <1>3, <3>1 DEF ScanInv, CountInv, Counted, Untold
    <2>3. \A f \in Executions : Counted(f)'
      BY <2>1, <2>2, Zenon
    <2> QED BY <2>3 DEF CountInv
  <1>7. BehindInv'
    BY <1>1, <1>2, <1>3 DEF ScanInv, TypeOK, BehindInv
  <1>8. IdleInv'
    BY <1>1, <1>2, <1>3 DEF ScanInv, TypeOK, IdleInv
  <1> QED BY <1>5, <1>6, <1>7, <1>8 DEF ScanInv

\* What ends a run leaves the rows as they are, and one report less.
LEMMA EndRunKeeps ==
    ASSUME ScanInv, NEW r \in Runs, EndRun(r),
           told' \in [Executions -> Nat], untold' \subseteq Executions, errors' \in 0 .. MaxErrors
    PROVE  /\ TypeOK' /\ BehindInv' /\ IdleInv'
           /\ \A e \in Executions :
                 /\ ended'[e] = ended[e] /\ status'[e] = status[e]
                 /\ Cardinality(Reporting(e))' = Cardinality(Reporting(e)) - (IF e \in report[r] THEN 1 ELSE 0)
  <1>1. TypeOK
    BY DEF ScanInv
  <1>2. /\ UNCHANGED <<status, steps, started, ended>>
        /\ pc' = [pc EXCEPT ![r] = "idle"]
        /\ todo' = [todo EXCEPT ![r] = {}] /\ scanned' = [scanned EXCEPT ![r] = {}]
        /\ found' = [found EXCEPT ![r] = {}] /\ report' = [report EXCEPT ![r] = {}]
    BY DEF EndRun, rows
  <1>3. Started' = Started
    BY <1>2 DEF Started
  <1>4. /\ report'[r] = {} /\ \A q \in Runs \ {r} : report'[q] = report[q]
        /\ todo'[r] = {} /\ \A q \in Runs \ {r} : todo'[q] = todo[q]
        /\ scanned'[r] = {} /\ \A q \in Runs \ {r} : scanned'[q] = scanned[q]
    BY <1>1, <1>2 DEF TypeOK
  <1>5. TypeOK'
    <2>1. /\ todo' \in [Runs -> SUBSET Executions] /\ scanned' \in [Runs -> SUBSET Executions]
          /\ report' \in [Runs -> SUBSET Executions] /\ found' \in [Runs -> SUBSET (1 .. Steps)]
          /\ pc' \in [Runs -> {"idle", "loop", "ending"}]
      BY <1>1, <1>2 DEF TypeOK
    <2>2. \A q \in Runs : scanned'[q] \subseteq Started' /\ todo'[q] \subseteq scanned'[q]
                            /\ report'[q] \subseteq scanned'[q] \ todo'[q]
      BY <1>1, <1>3, <1>4 DEF TypeOK
    <2>3. {started[f] : f \in Started}' = (1 .. Cardinality(Started))'
      BY <1>1, <1>2, <1>3 DEF TypeOK
    <2> QED BY <1>1, <1>2, <1>3, <2>1, <2>2, <2>3 DEF TypeOK
  <1>6. BehindInv' /\ IdleInv'
    <2>1. BehindInv'
      BY <1>2, <1>4 DEF ScanInv, BehindInv
    <2>2. IdleInv'
      BY <1>1, <1>2, <1>4 DEF ScanInv, IdleInv, TypeOK
    <2> QED BY <2>1, <2>2
  <1>7. ASSUME NEW e \in Executions
        PROVE  Cardinality(Reporting(e))' = Cardinality(Reporting(e)) - (IF e \in report[r] THEN 1 ELSE 0)
    <2>1. Reporting(e)' = Reporting(e) \ {r}
      BY <1>4 DEF Reporting
    <2>2. /\ IsFiniteSet(Reporting(e)) /\ Cardinality(Reporting(e)) \in Nat
          /\ r \in Reporting(e) <=> e \in report[r]
      BY <1>1, ReportingCounts DEF Reporting
    <2>3. Cardinality(Reporting(e) \ {r})
            = IF r \in Reporting(e) THEN Cardinality(Reporting(e)) - 1 ELSE Cardinality(Reporting(e))
      BY <2>2, FS_RemoveElement
    <2>4. Cardinality(Reporting(e)') = Cardinality(Reporting(e) \ {r})
      BY <2>1
    <2>5. Cardinality(Reporting(e)') = Cardinality(Reporting(e)) - (IF e \in report[r] THEN 1 ELSE 0)
      BY <2>2, <2>3, <2>4
    <2> QED BY <2>5
  <1> QED BY <1>2, <1>5, <1>6, <1>7

LEMMA FinishKeeps ==
    ASSUME ScanInv, NEW r \in Runs, Finish(r)
    PROVE  ScanInv'
  <1>1. /\ EndRun(r) /\ UNCHANGED <<untold, errors>>
        /\ told' = [e \in Executions |-> IF e \in report[r] THEN told[e] + 1 ELSE told[e]]
    BY DEF Finish
  <1>2. told \in [Executions -> Nat] /\ untold \subseteq Executions /\ errors \in 0 .. MaxErrors
    BY DEF ScanInv, TypeOK
  <1>3. told' \in [Executions -> Nat]
    BY <1>1, <1>2
  <1>4. /\ TypeOK' /\ BehindInv' /\ IdleInv'
        /\ \A e \in Executions :
              /\ ended'[e] = ended[e] /\ status'[e] = status[e]
              /\ Cardinality(Reporting(e))' = Cardinality(Reporting(e)) - (IF e \in report[r] THEN 1 ELSE 0)
    BY <1>1, <1>2, <1>3, EndRunKeeps
  <1>5. ASSUME NEW e \in Executions PROVE Counted(e)'
    <2>1. Cardinality(Reporting(e)) \in Nat /\ Untold(e) \in Nat /\ Untold(e)' = Untold(e)
      BY <1>1, ReportingCounts DEF ScanInv, Untold
    <2>2. told'[e] = told[e] + (IF e \in report[r] THEN 1 ELSE 0) /\ told[e] \in Nat
      BY <1>1, <1>2
    <2>3. told'[e] + Cardinality(Reporting(e))' + Untold(e)' = told[e] + Cardinality(Reporting(e)) + Untold(e)
      BY <1>4, <2>1, <2>2
    <2> QED BY <1>4, <2>3 DEF ScanInv, CountInv, Counted
  <1>6. CountInv'
    <2>1. \A e \in Executions : Counted(e)'
      BY <1>5, Zenon
    <2> QED BY <2>1 DEF CountInv
  <1> QED BY <1>4, <1>6 DEF ScanInv

LEMMA RunBreaksKeeps ==
    ASSUME ScanInv, NEW r \in Runs, RunBreaks(r)
    PROVE  ScanInv'
  <1>1. /\ EndRun(r) /\ told' = told /\ untold' = untold \cup report[r]
        /\ errors < MaxErrors /\ errors' = errors + 1
    BY DEF RunBreaks
  <1>2. /\ told \in [Executions -> Nat] /\ untold \subseteq Executions /\ errors \in 0 .. MaxErrors
        /\ report[r] \subseteq Executions /\ MaxErrors \in Nat
    BY ScanAssumption DEF ScanInv, TypeOK
  <1>3. told' \in [Executions -> Nat] /\ untold' \subseteq Executions /\ errors' \in 0 .. MaxErrors
    BY <1>1, <1>2
  <1>4. /\ TypeOK' /\ BehindInv' /\ IdleInv'
        /\ \A e \in Executions :
              /\ ended'[e] = ended[e] /\ status'[e] = status[e]
              /\ Cardinality(Reporting(e))' = Cardinality(Reporting(e)) - (IF e \in report[r] THEN 1 ELSE 0)
    BY <1>1, <1>3, EndRunKeeps
  <1>5. ASSUME NEW e \in Executions PROVE Counted(e)'
    <2>1. Cardinality(Reporting(e)) \in Nat /\ Untold(e) \in Nat /\ told[e] \in Nat /\ ended[e] \in Nat
      BY ReportingCounts DEF ScanInv, TypeOK, Untold
    <2>2. /\ ended[e] <= 1
          /\ ended[e] = 1 => status[e] = "FAILED"
          /\ told[e] + Cardinality(Reporting(e)) + Untold(e) = ended[e]
      BY DEF ScanInv, CountInv, Counted
    <2>3. CASE e \in report[r]
      <3>1. Cardinality(Reporting(e)) # 0
        BY <2>3, ReportingCounts DEF ScanInv, Reporting
      <3>2. Untold(e) = 0
        BY <2>1, <2>2, <3>1
      <3>3. Untold(e)' = 1
        BY <1>1, <2>3 DEF Untold
      <3>4. told'[e] + Cardinality(Reporting(e))' + Untold(e)' = ended[e]
        BY <1>1, <1>4, <2>1, <2>2, <2>3, <3>2, <3>3
      <3> QED BY <1>4, <2>2, <3>4 DEF Counted
    <2>4. CASE e \notin report[r]
      <3>1. Untold(e)' = Untold(e)
        BY <1>1, <2>4 DEF Untold
      <3>2. told'[e] + Cardinality(Reporting(e))' + Untold(e)' = ended[e]
        BY <1>1, <1>4, <2>1, <2>2, <2>4, <3>1
      <3> QED BY <1>4, <2>2, <3>2 DEF Counted
    <2> QED BY <2>3, <2>4
  <1>6. CountInv'
    <2>1. \A e \in Executions : Counted(e)'
      BY <1>5, Zenon
    <2> QED BY <2>1 DEF CountInv
  <1> QED BY <1>4, <1>6 DEF ScanInv

-----------------------------------------------------------------------------------
(* The invariant and the theorems. *)

LEMMA ScanStart == Init => ScanInv
  <1> SUFFICES ASSUME Init PROVE ScanInv
    OBVIOUS
  <1>1. Started = {}
    BY DEF Init, Started
  <1>2. IsFiniteSet({}) /\ Cardinality({}) = 0
    BY FS_EmptySet
  <1>3. TypeOK
    <2>1. /\ {started[e] : e \in Started} = {} /\ 1 .. Cardinality(Started) = {}
      BY <1>1, <1>2
    <2>2. Started = {e \in Executions : status[e] # "PENDING"}
      BY <1>1 DEF Init
    <2>3. steps \in [Executions -> [1 .. Steps -> Statuses]] /\ status \in [Executions -> Statuses]
      BY DEF Init, Statuses
    <2>4. errors \in 0 .. MaxErrors
      BY ScanAssumption DEF Init
    <2> QED BY <2>1, <2>2, <2>3, <2>4 DEF Init, TypeOK
  <1>4. CountInv
    <2> SUFFICES ASSUME NEW e \in Executions PROVE Counted(e)
      BY DEF CountInv
    <2>1. Reporting(e) = {}
      BY DEF Init, Reporting
    <2> QED BY <1>2, <2>1 DEF Init, Counted, Untold
  <1>5. BehindInv /\ IdleInv
    BY DEF Init, BehindInv, IdleInv
  <1> QED BY <1>3, <1>4, <1>5 DEF ScanInv

LEMMA ScanStep == ScanInv /\ [Next]_vars => ScanInv'
  <1> SUFFICES ASSUME ScanInv, [Next]_vars PROVE ScanInv'
    OBVIOUS
  <1>1. ASSUME NEW e \in Executions, Attempt(e) PROVE ScanInv'
    BY <1>1, AttemptKeeps
  <1>2. ASSUME NEW r \in Runs, NEW old \in 1 .. Cardinality(Started), NEW limit \in 1 .. MaxLimit, Scan(r, old, limit)
        PROVE  ScanInv'
    BY <1>2, ScanKeeps
  <1>3. ASSUME NEW r \in Runs, RunSteps(r) PROVE ScanInv'
    BY <1>3, FindRemoteRecoveredKeeps, FailStaleRunningKeeps, RaceLostKeeps, FinishKeeps DEF RunSteps
  <1>4. ASSUME NEW r \in Runs, RunBreaks(r) PROVE ScanInv'
    BY <1>4, RunBreaksKeeps
  <1>5. CASE UNCHANGED vars
    <2>1. /\ UNCHANGED <<status, steps, started, pc, todo, scanned, found, report, ended, told, untold, errors>>
      BY <1>5 DEF vars, rows, run, after
    <2>2. Started' = Started
      BY <2>1 DEF Started
    <2>3. TypeOK'
      BY <2>1, <2>2 DEF ScanInv, TypeOK
    <2>4. CountInv'
      BY <2>1 DEF ScanInv, CountInv, Counted, Reporting, Untold
    <2>5. BehindInv' /\ IdleInv'
      BY <2>1 DEF ScanInv, BehindInv, IdleInv
    <2> QED BY <2>3, <2>4, <2>5 DEF ScanInv
  <1> QED BY <1>1, <1>2, <1>3, <1>4, <1>5, Zenon DEF Next

\* The inductive invariant, whatever attempts and recoveries run beside each other.
THEOREM ScanInvariance == Spec => []ScanInv
  <1> QED BY ScanStart, ScanStep, PTL DEF Spec

\* Each variable has its type, and started_at is written once
\* (claimPendingExecution, findStaleRunning).
THEOREM ScanTypes == Spec => []TypeOK
  <1>1. ScanInv => TypeOK
    BY DEF ScanInv
  <1> QED BY <1>1, ScanInvariance, PTL

\* What an administrator is told is so, whatever runs beside: none is ended or reported
\* twice, and only a run that broke leaves an ended one unreported
\* (recoverStaleRunningExecutions).
THEOREM TrueReports == Spec => []ReportIsTrue
  <1>1. ScanInv => ReportIsTrue
    BY DEF ScanInv, CountInv, Counted, Reporting, Untold, BehindInv, ReportIsTrue
  <1> QED BY <1>1, ScanInvariance, PTL

\* The recovery ends an execution as its lifecycle allows, and no other
\* (StaleRecoveryRaceLost).
LEMMA RecoveryStep ==
  ASSUME ScanInv, NEW r \in Runs, NEW e \in Executions, FailStaleRunning(r, e)
  PROVE  Life(e)!FailByRecovery /\ \A f \in Executions : f # e => ended'[f] = ended[f]
  <1> DEFINE open == RunningSteps(e)
             row == [k \in 1 .. Steps |->
                        IF k \in open \cap found[r] THEN "COMPLETED"
                        ELSE IF k \in open THEN "FAILED" ELSE steps[e][k]]
  <1>1. TypeOK /\ ended \in [Executions -> Nat]
    BY DEF ScanInv, TypeOK
  <1>2. \A f \in Executions : f # e => ended'[f] = ended[f]
    BY <1>1 DEF FailStaleRunning, EndExecution
  <1>3. status[e] = "RUNNING" /\ status'[e] = "FAILED"
    BY <1>1 DEF FailStaleRunning, EndExecution, TypeOK
  <1>4. steps'[e] = row
    BY <1>1 DEF FailStaleRunning, EndExecution, TypeOK
  <1>5. open = {k \in 1 .. Steps : steps[e][k] = "RUNNING"}
    BY DEF RunningSteps
  <1> HIDE DEF open
  <1>6. Life(e)!FailByRecovery
    <2> DEFINE done == open \cap found[r]
    <2>1. /\ open \in SUBSET {k \in 1 .. Steps : steps[e][k] = "RUNNING"}
          /\ done \in SUBSET open
      BY <1>5
    <2>2. steps'[e] = [k \in 1 .. Steps |-> IF k \in done THEN "COMPLETED"
                                           ELSE IF k \in open THEN "FAILED" ELSE steps[e][k]]
      BY <1>4
    <2> HIDE DEF row, done
    <2> QED BY <1>3, <2>1, <2>2, Zenon DEF Life!FailByRecovery
  <1> QED BY <1>2, <1>6

\* Every step the recovery takes is one that ExecutionLifecycle allows
\* (StaleRecoveryRaceLost).
THEOREM KeptLifecycle == Spec => RecoveryKeepsLifecycle
  <1> DEFINE Allowed == \A e \in Executions : ended'[e] > ended[e] => Life(e)!FailByRecovery
  <1>1. ASSUME ScanInv, NEW r \in Runs, NEW e \in Executions, FailStaleRunning(r, e)
        PROVE  Allowed
    <2>1. Life(e)!FailByRecovery /\ \A f \in Executions : f # e => ended'[f] = ended[f]
      BY <1>1, RecoveryStep
    <2>2. \A f \in Executions : ended[f] \in Nat
      BY <1>1 DEF ScanInv, TypeOK
    <2> QED BY <2>1, <2>2
  <1>2. ASSUME ScanInv, ended' = ended PROVE Allowed
    BY <1>2 DEF ScanInv, TypeOK
  <1>3. ScanInv /\ [Next]_vars => [Allowed]_vars
    <2> SUFFICES ASSUME ScanInv, [Next]_vars PROVE Allowed
      OBVIOUS
    <2> HIDE DEF Allowed
    <2>1. CASE \E r \in Runs, e \in Executions : FailStaleRunning(r, e)
      BY <1>1, <2>1
    <2>2. CASE ended' = ended
      BY <1>2, <2>2
    <2>3. \/ \E r \in Runs, e \in Executions : FailStaleRunning(r, e)
          \/ ended' = ended
      BY DEF Next, RunSteps, Attempt, Scan, FindRemoteRecovered, RaceLost, Finish, RunBreaks, EndRun, vars, after
    <2> QED BY <2>1, <2>2, <2>3
  <1> QED BY <1>3, ScanInvariance, PTL DEF Spec, RecoveryKeepsLifecycle

-----------------------------------------------------------------------------------
(* Every execution lives its lifecycle, whatever recoveries run over it. *)

\* What an attempt or a recovery does to the rows of one execution is a step of its
\* lifecycle, and those of the others stay.
LEMMA LifecycleStep ==
  ASSUME ScanInv, [Next]_vars, NEW e \in Executions
  PROVE  [Life(e)!Next]_(Life(e)!lifecycleVars)
  <1> USE DEF Life!lifecycleVars
  <1>1. ASSUME NEW f \in Executions, Attempt(f) PROVE [Life(e)!Next]_(Life(e)!lifecycleVars)
    <2>1. CASE f = e
      <3>1. Life(e)!Start \/ Life(e)!MoveStep \/ Life(e)!Complete \/ Life(e)!FailOnStep
        BY <1>1, <2>1 DEF Attempt
      <3> QED BY <3>1 DEF Life!Next
    <2>2. CASE f # e
      <3>1. status'[e] = status[e] /\ steps'[e] = steps[e]
        BY <1>1, <2>2 DEF Attempt, ScanInv, TypeOK
      <3> QED BY <3>1
    <2> QED BY <2>1, <2>2
  <1>2. ASSUME NEW r \in Runs, NEW f \in Executions, FailStaleRunning(r, f)
        PROVE  [Life(e)!Next]_(Life(e)!lifecycleVars)
    <2>1. CASE f = e
      <3>1. Life(e)!FailByRecovery
        BY <1>2, <2>1, RecoveryStep
      <3> QED BY <3>1 DEF Life!Next
    <2>2. CASE f # e
      <3>1. status'[e] = status[e] /\ steps'[e] = steps[e]
        BY <1>2, <2>2 DEF FailStaleRunning, EndExecution, ScanInv, TypeOK
      <3> QED BY <3>1
    <2> QED BY <2>1, <2>2
  <1>3. CASE status' = status /\ steps' = steps
    BY <1>3
  <1>4. \/ \E f \in Executions : Attempt(f)
        \/ \E r \in Runs, f \in Executions : FailStaleRunning(r, f)
        \/ status' = status /\ steps' = steps
    BY DEF Next, RunSteps, Scan, FindRemoteRecovered, RaceLost, Finish, RunBreaks, EndRun, vars, rows
  <1> QED BY <1>1, <1>2, <1>3, <1>4

\* Each of the executions that attempts and recoveries share implements
\* ExecutionLifecycle, as WorkflowProcessing shows of one
\* (recoverStaleRunningExecutions, processWorkflowExecution).
THEOREM SharedLifecycles ==
  ASSUME NEW e \in Executions
  PROVE  Spec => Life(e)!Spec
  <1>1. Init => Life(e)!Init
    BY DEF Init, Life!Init
  <1>2. ScanInv /\ [Next]_vars => [Life(e)!Next]_(Life(e)!lifecycleVars)
    BY LifecycleStep
  <1> QED BY <1>1, <1>2, ScanInvariance, PTL DEF Spec, Life!Spec

\* What the statuses of an execution and its steps say of each other: before the
\* execution is claimed its steps are untouched, until it failed no step was touched
\* before those ahead of it were COMPLETED, and COMPLETED means all of it.
LifecycleKept(e) ==
  /\ status[e] \in Statuses /\ steps[e] \in [1 .. Steps -> Statuses]
  /\ status[e] = "PENDING" => \A k \in 1 .. Steps : steps[e][k] = "PENDING"
  /\ status[e] = "COMPLETED" => \A k \in 1 .. Steps : steps[e][k] = "COMPLETED"
  /\ status[e] # "FAILED" => \A k \in 1 .. Steps : \A j \in 1 .. k - 1 :
                                steps[e][j] = "COMPLETED" \/ steps[e][k] = "PENDING"

\* The lifecycle alone promises it.
LEMMA LifecyclePromise ==
  ASSUME NEW e \in Executions
  PROVE  Life(e)!Spec => []LifecycleKept(e)
  <1> USE DEF Life!Statuses, Statuses
  <1>1. Life(e)!Init => LifecycleKept(e)
    <2> SUFFICES ASSUME Life(e)!Init PROVE LifecycleKept(e)
      OBVIOUS
    <2> QED BY ScanAssumption DEF Life!Init, LifecycleKept
  <1>2. LifecycleKept(e) /\ [Life(e)!Next]_(Life(e)!lifecycleVars) => LifecycleKept(e)'
    <2> SUFFICES ASSUME LifecycleKept(e), [Life(e)!Next]_(Life(e)!lifecycleVars)
                 PROVE  LifecycleKept(e)'
      OBVIOUS
    <2>1. CASE Life(e)!Start
      BY <2>1 DEF Life!Start, LifecycleKept
    <2>2. CASE Life(e)!MoveStep
      <3>1. PICK k \in 1 .. Steps, s \in Statuses :
               /\ \A j \in 1 .. k - 1 : steps[e][j] = "COMPLETED"
               /\ <<steps[e][k], s>> \in Life(e)!StepMoves
               /\ steps'[e] = [steps[e] EXCEPT ![k] = s]
        BY <2>2 DEF Life!MoveStep
      <3>2. status[e] = "RUNNING" /\ status'[e] = "RUNNING"
        BY <2>2 DEF Life!MoveStep
      <3>3. steps[e][k] # "COMPLETED"
        BY <3>1 DEF Life!StepMoves
      <3>4. steps'[e] \in [1 .. Steps -> Statuses]
        BY <3>1 DEF LifecycleKept
      <3>5. \A i \in 1 .. Steps : steps'[e][i] = IF i = k THEN s ELSE steps[e][i]
        BY <3>1 DEF LifecycleKept
      <3>6. \A i \in 1 .. Steps : \A j \in 1 .. i - 1 :
               steps'[e][j] = "COMPLETED" \/ steps'[e][i] = "PENDING"
        <4>1. TAKE i \in 1 .. Steps
        <4>2. TAKE j \in 1 .. i - 1
        <4>3. j \in 1 .. Steps /\ i # j
          BY ScanAssumption
        <4>4. steps[e][j] = "COMPLETED" \/ steps[e][i] = "PENDING"
          BY <3>2 DEF LifecycleKept
        <4>5. CASE j = k
          BY <3>3, <3>5, <4>3, <4>4, <4>5
        <4>6. CASE i = k
          BY <3>1, <3>5, <4>3, <4>6
        <4>7. CASE i # k /\ j # k
          BY <3>5, <4>3, <4>4, <4>7
        <4> QED BY <4>5, <4>6, <4>7
      <3> QED BY <3>2, <3>4, <3>6 DEF LifecycleKept
    <2>3. CASE Life(e)!Complete
      BY <2>3 DEF Life!Complete, LifecycleKept
    <2>4. CASE Life(e)!FailOnStep
      BY <2>4 DEF Life!FailOnStep, LifecycleKept
    <2>5. CASE Life(e)!FailByRecovery
      <3>1. status'[e] = "FAILED"
        BY <2>5 DEF Life!FailByRecovery
      <3>2. steps'[e] \in [1 .. Steps -> Statuses]
        BY <2>5 DEF Life!FailByRecovery, LifecycleKept
      <3> QED BY <3>1, <3>2 DEF LifecycleKept
    <2>6. CASE Life(e)!WriteLate
      <3>1. status'[e] = "FAILED"
        BY <2>6 DEF Life!WriteLate
      <3>2. steps'[e] \in [1 .. Steps -> Statuses]
        BY <2>6 DEF Life!WriteLate, LifecycleKept
      <3> QED BY <3>1, <3>2 DEF LifecycleKept
    <2>7. CASE UNCHANGED Life(e)!lifecycleVars
      BY <2>7 DEF Life!lifecycleVars, LifecycleKept
    <2> QED BY <2>1, <2>2, <2>3, <2>4, <2>5, <2>6, <2>7 DEF Life!Next
  <1> QED BY <1>1, <1>2, PTL DEF Life!Spec

\* A COMPLETED execution is whole and steps are taken in order, whatever recoveries scan
\* them (finalizeRunningExecution, failStaleRunning).
THEOREM KeptLives ==
  ASSUME NEW e \in Executions
  PROVE  Spec => []LifecycleKept(e)
  <1> QED BY SharedLifecycles, LifecyclePromise, PTL

===================================================================================
