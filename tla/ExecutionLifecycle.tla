---------------------------- MODULE ExecutionLifecycle ----------------------------
(***************************************************************************)
(* What a reader of the API is promised about one workflow execution and   *)
(* its steps: how their statuses may evolve together, with no mention of   *)
(* attempts, snapshots, Jira or row locks.  WorkflowProcessing implements  *)
(* it.                                                                     *)
(***************************************************************************)
EXTENDS Naturals

CONSTANT N  \* number of steps

VARIABLES status, steps

lifecycleVars == <<status, steps>>

Statuses == {"PENDING", "RUNNING", "COMPLETED", "FAILED"}

\* What a step under a RUNNING execution may do: be claimed, be put back for a
\* retry, or end.
StepMoves == {<<"PENDING", "RUNNING">>, <<"RUNNING", "PENDING">>,
              <<"RUNNING", "COMPLETED">>, <<"RUNNING", "FAILED">>}

Init ==
    /\ status = "PENDING"
    /\ steps = [k \in 1 .. N |-> "PENDING"]

Start ==
    /\ status = "PENDING"
    /\ status' = "RUNNING"
    /\ UNCHANGED steps

\* Steps are taken in order: the one that moves has only COMPLETED ones before it.
MoveStep ==
    /\ status = "RUNNING"
    /\ \E k \in 1 .. N, s \in Statuses :
          /\ \A j \in 1 .. k - 1 : steps[j] = "COMPLETED"
          /\ <<steps[k], s>> \in StepMoves
          /\ steps' = [steps EXCEPT ![k] = s]
    /\ UNCHANGED status

Complete ==
    /\ status = "RUNNING"
    /\ \A k \in 1 .. N : steps[k] = "COMPLETED"
    /\ status' = "COMPLETED"
    /\ UNCHANGED steps

FailOnStep ==
    /\ status = "RUNNING"
    /\ \E k \in 1 .. N : steps[k] = "FAILED"
    /\ status' = "FAILED"
    /\ UNCHANGED steps

\* The recovery ends the execution and, with it, steps that were RUNNING.
FailByRecovery ==
    /\ status = "RUNNING"
    /\ status' = "FAILED"
    /\ \E ended \in SUBSET {k \in 1 .. N : steps[k] = "RUNNING"} :
       \E found \in SUBSET ended :
          steps' = [k \in 1 .. N |-> IF k \in found THEN "COMPLETED"
                                     ELSE IF k \in ended THEN "FAILED" ELSE steps[k]]

\* Under a FAILED execution, and only there, an attempt that came too late may
\* still write its step.
WriteLate ==
    /\ status = "FAILED"
    /\ \E k \in 1 .. N, s \in Statuses : steps' = [steps EXCEPT ![k] = s]
    /\ UNCHANGED status

Next == Start \/ MoveStep \/ Complete \/ FailOnStep \/ FailByRecovery \/ WriteLate

Spec == Init /\ [][Next]_lifecycleVars

===================================================================================
