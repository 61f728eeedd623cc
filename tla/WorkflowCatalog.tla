------------------------------ MODULE WorkflowCatalog -----------------------------
(***************************************************************************)
(* The workflows, their steps and the executions made from them: requests  *)
(* that create a workflow, activate or deactivate it, add a step, duplicate *)
(* it and start an execution of it, each in its own connection to a READ   *)
(* COMMITTED PostgreSQL.                                                   *)
(*                                                                         *)
(* A row is what the requests tell apart: a workflow is active or not, a   *)
(* step has its order and its is_active.  No request deletes a row or      *)
(* changes a step.  A transaction keeps its rows in `tx` until it commits; *)
(* what it reads is what the others have committed when it reads.  Of a    *)
(* body there is the verdict of RequestInput.  The callers may see every   *)
(* workflow (see Listing for those who may not), and departments are left  *)
(* out.                                                                    *)
(***************************************************************************)
EXTENDS Naturals, FiniteSets, RequestInput

CONSTANTS
    Workflows, \* ids of workflows
    First,     \* the workflow that exists at the start
    NoId,      \* no workflow, or no request
    Orders,    \* the step orders in use
    Requests,  \* requests to the API; each is made once
    MaxOdd     \* bound: requests whose body is refused, by a validator or the database

ASSUME CatalogAssumption ==
    /\ First \in Workflows /\ NoId \notin Workflows \cup Requests
    /\ Orders \subseteq Nat /\ Orders # {} /\ MaxOdd \in Nat

\* A step is told apart from another of the same order by the request that made it;
\* a copy keeps the title and the rest of its source, so it keeps this too.  `runs`
\* says whether the handler of its action takes its configuration.
Step  == [order : Orders, active : BOOLEAN, by : Requests \cup {NoId}, runs : BOOLEAN]
Given == {s \in Step : s.by = NoId /\ s.runs}

Kinds == {"create", "toggle", "addStep", "execute", "duplicate"}

VARIABLES
    workflows,  \* each workflow: "absent", "active" or "inactive"
    steps,      \* the workflow_steps of each workflow
    executions, \* workflow_executions with their workflow_execution_steps
    pc,         \* where each request stands
    req,        \* what it asks for
    tx,         \* the rows of its open transaction
    answer,     \* its HTTP status
    past,       \* the sets of steps each workflow has had
    seen,       \* the states of its workflow since the request arrived
    excused     \* the requests that may be told 500

tables  == <<workflows, steps, executions>>
request == <<pc, req, tx, answer>>
history == <<past, seen, excused>>
vars    == <<tables, request, history>>

\* What a request that has not arrived asks for.
Nothing == [kind |-> "create", target |-> First, step |-> CHOOSE s \in Given : s.active, verdict |-> Plain]
NoRows  == [copy |-> NoId, rest |-> {}, held |-> {}]

Answers == {"none", "200", "201", "400", "404", "409", "500", "lost"}

\* Each variable has its type, and the foreign keys hold.
TypeOK ==
    /\ workflows \in [Workflows -> {"absent", "active", "inactive"}]
    /\ steps \in [Workflows -> SUBSET Step]
    /\ executions \subseteq [request : Requests, workflow : Workflows, steps : SUBSET Step]
    /\ pc \in [Requests -> {"new", "arrived", "checked", "begun", "writing", "done"}]
    /\ req \in [Requests -> [kind : Kinds, target : Workflows, step : Step, verdict : Verdicts]]
    /\ tx \in [Requests -> [copy : Workflows \cup {NoId}, rest : SUBSET Step, held : SUBSET Step]]
    /\ answer \in [Requests -> Answers]
    /\ past \in [Workflows -> SUBSET SUBSET Step]
    /\ seen \in [Requests -> SUBSET {"absent", "active", "inactive"}]
    /\ excused \subseteq Requests
    /\ \A w \in Workflows : steps[w] # {} => workflows[w] # "absent"
    /\ \A e \in executions : workflows[e.workflow] # "absent"

\* One workflow with any steps, no two of them of the same order.  An inactive
\* step is not made by the API, but the code provides for it.
Init ==
    /\ \E status \in {"active", "inactive"} :
          workflows = [w \in Workflows |-> IF w = First THEN status ELSE "absent"]
    /\ \E rows \in SUBSET Given :
          /\ \A s, t \in rows : s.order = t.order => s = t
          /\ steps = [w \in Workflows |-> IF w = First THEN rows ELSE {}]
    /\ executions = {}
    /\ pc = [r \in Requests |-> "new"]
    /\ req = [r \in Requests |-> Nothing]
    /\ tx = [r \in Requests |-> NoRows]
    /\ answer = [r \in Requests |-> "none"]
    /\ past = [w \in Workflows |-> {steps[w]}]
    /\ seen = [r \in Requests |-> {}]
    /\ excused = {}

-----------------------------------------------------------------------------------
(* Requests and their answers. *)

Target(r) == req[r].target

Misfit(r) == req[r].verdict.misfit

Goto(r, place) == pc' = [pc EXCEPT ![r] = place] /\ UNCHANGED req

\* The handler ends: its transaction, if it has one, is over.  What was asked for
\* is only remembered where the answer speaks of it.
Answer(r, code) ==
    /\ pc' = [pc EXCEPT ![r] = "done"]
    /\ answer' = [answer EXCEPT ![r] = code]
    /\ tx' = [tx EXCEPT ![r] = NoRows]
    /\ req' = IF code \in {"400", "500", "lost"} THEN [req EXCEPT ![r] = Nothing] ELSE req

\* A row of a workflow changes: every open request for it lives through the change.
SetWorkflow(w, status) ==
    /\ workflows' = [workflows EXCEPT ![w] = status]
    /\ seen' = [r \in Requests |->
                  IF pc[r] \notin {"new", "done"} /\ Target(r) = w
                  THEN seen[r] \cup {status} ELSE seen[r]]

\* The steps of a workflow become these.
SetSteps(w, rows) ==
    /\ steps' = [steps EXCEPT ![w] = rows]
    /\ past' = [past EXCEPT ![w] = @ \cup {rows}]

\* An id gen_random_uuid() has not given out.
Fresh(w) == workflows[w] = "absent" /\ \A r \in Requests : tx[r].copy # w

\* A body that is no good changes nothing, so a few at a time are enough.
Expected(verdict) ==
    verdict = Plain \/ Cardinality({q \in Requests : req[q].verdict # Plain}) < MaxOdd

\* A body the validators refuse is answered before anything is read; the name of a
\* copy is looked at later (BeginCopy).
ArriveRefused(r, kind, verdict) ==
    /\ pc[r] = "new"
    /\ kind # "duplicate" /\ ~ verdict.accepted /\ Expected(verdict)
    /\ Answer(r, "400")
    /\ UNCHANGED <<tables, history>>

\* Any other request; creating a workflow names none, for which First stands.
Arrive(r, kind, w, s, verdict) ==
    /\ pc[r] = "new"
    /\ kind # "duplicate" => verdict.accepted
    /\ Expected(verdict)
    /\ pc' = [pc EXCEPT ![r] = "arrived"]
    /\ kind = "create" => w = First
    /\ req' = [req EXCEPT ![r] = [kind |-> kind, target |-> w, verdict |-> verdict,
                                 step |-> IF kind = "addStep" THEN [s EXCEPT !.runs = verdict.runs] ELSE s]]
    /\ seen' = [seen EXCEPT ![r] = {workflows[w]}]
    /\ UNCHANGED <<tables, tx, answer, past, excused>>

\* A write succeeds and is answered so; or it is in, but the connection is lost
\* before the code hears of it (a 500), or the process before the caller does.
Written(r, code) ==
    \/ Answer(r, code) /\ UNCHANGED excused
    \/ \E other \in {"500", "lost"} : Answer(r, other) /\ excused' = excused \cup {r}

Handles(r, kind, place) == pc[r] = place /\ req[r].kind = kind

\* createWorkflow: the new row is active.
CreateWorkflow(r) ==
    /\ Handles(r, "create", "arrived")
    /\ Misfit(r) = "none"
    /\ \E w \in Workflows : Fresh(w) /\ SetWorkflow(w, "active")
    /\ Written(r, "201")
    /\ UNCHANGED <<steps, executions, past>>

\* findById at the head of the other handlers.
FindMissing(r) ==
    /\ pc[r] = "arrived" /\ req[r].kind # "create"
    /\ workflows[Target(r)] = "absent"
    /\ Answer(r, "404")
    /\ UNCHANGED <<tables, history>>

\* updateWorkflow after its findById: workflows are only ever made, so the row is
\* still there.
UpdateWorkflow(r) ==
    /\ Handles(r, "toggle", "arrived")
    /\ workflows[Target(r)] # "absent"
    /\ \E status \in {"active", "inactive"} : SetWorkflow(Target(r), status)
    /\ Written(r, "200")
    /\ UNCHANGED <<steps, executions, past>>

-----------------------------------------------------------------------------------
(* createWorkflowStep. *)

Taken(w, order) == \E s \in steps[w] : s.order = order

\* The workflow is not looked up, and no foreign key catches it (TypeOK).
CheckStepOrderSlip(r) ==
    /\ Handles(r, "addStep", "arrived")
    /\ IF Taken(Target(r), req[r].step.order)
       THEN Answer(r, "409")
       ELSE Goto(r, "checked") /\ UNCHANGED <<tx, answer>>
    /\ UNCHANGED <<tables, history>>

\* findById and findByWorkflowIdAndStepOrder.
CheckStepOrder(r) ==
    /\ Handles(r, "addStep", "arrived")
    /\ workflows[Target(r)] # "absent"
    /\ Misfit(r) # "order"
    /\ IF Taken(Target(r), req[r].step.order)
       THEN Answer(r, "409")
       ELSE Goto(r, "checked") /\ UNCHANGED <<tx, answer>>
    /\ UNCHANGED <<tables, history>>

\* Without the constraint in the database the check before the INSERT is all there
\* is (StepOrderIsUnique).
InsertStepUnconstrained(r) ==
    /\ Handles(r, "addStep", "checked")
    /\ SetSteps(Target(r), steps[Target(r)] \cup {req[r].step})
    /\ Written(r, "201")
    /\ UNCHANGED <<workflows, executions, seen>>

\* The catch does not know 23505 (AnswerIsTrue).
InsertStepUncaught(r) ==
    /\ Handles(r, "addStep", "checked")
    /\ IF Taken(Target(r), req[r].step.order)
       THEN Answer(r, "500") /\ UNCHANGED <<steps, past, excused>>
       ELSE SetSteps(Target(r), steps[Target(r)] \cup {req[r].step}) /\ Written(r, "201")
    /\ UNCHANGED <<workflows, executions, seen>>

\* The INSERT: UNIQUE (workflow_id, step_order) refuses the later of two racing
\* requests, and the catch answers 409 for its 23505.
InsertStep(r) ==
    /\ Handles(r, "addStep", "checked")
    /\ Misfit(r) = "none"
    /\ IF Taken(Target(r), req[r].step.order)
       THEN Answer(r, "409") /\ UNCHANGED <<steps, past, excused>>
       ELSE SetSteps(Target(r), steps[Target(r)] \cup {req[r].step}) /\ Written(r, "201")
    /\ UNCHANGED <<workflows, executions, seen>>

-----------------------------------------------------------------------------------
(* createWorkflowExecution. *)

\* is_active and a missing workflow are not looked at, and no foreign key
\* catches it (ExecutionIsASnapshot).
CheckActiveSlip(r) ==
    /\ Handles(r, "execute", "arrived")
    /\ Goto(r, "checked")
    /\ UNCHANGED <<tables, tx, answer, history>>

\* The check of is_active, before the transaction.
CheckActive(r) ==
    /\ Handles(r, "execute", "arrived")
    /\ workflows[Target(r)] # "absent"
    /\ IF workflows[Target(r)] = "inactive"
       THEN Answer(r, "409")
       ELSE Goto(r, "checked") /\ UNCHANGED <<tx, answer>>
    /\ UNCHANGED <<tables, history>>

\* Inactive steps are executed too (ExecutionIsASnapshot).
ReadActiveStepsSlip(r) ==
    /\ Handles(r, "execute", "checked")
    /\ IF steps[Target(r)] = {}
       THEN Answer(r, "409")
       ELSE /\ Goto(r, "writing")
            /\ tx' = [tx EXCEPT ![r].held = steps[Target(r)]]
            /\ UNCHANGED answer
    /\ UNCHANGED <<tables, history>>

\* BEGIN, the INSERT of the execution and findActiveByWorkflowId: without an
\* active step the AppError rolls the execution back.
ReadActiveSteps(r) ==
    /\ Handles(r, "execute", "checked")
    /\ Misfit(r) = "none"
    /\ LET found == {s \in steps[Target(r)] : s.active}
       IN IF found = {}
          THEN Answer(r, "409")
          ELSE /\ Goto(r, "writing")
               /\ tx' = [tx EXCEPT ![r].held = found]
               /\ UNCHANGED answer
    /\ UNCHANGED <<tables, history>>

NewExecution(r) == [request |-> r, workflow |-> Target(r), steps |-> tx[r].held]

\* createMany and COMMIT.
CommitExecution(r) ==
    /\ Handles(r, "execute", "writing")
    /\ executions' = executions \cup {NewExecution(r)}
    /\ Written(r, "201")
    /\ UNCHANGED <<workflows, steps, past, seen>>

-----------------------------------------------------------------------------------
(* duplicateWorkflow. *)

\* findById, the check of the copy's name, BEGIN and the INSERT of its row.
BeginCopy(r) ==
    /\ Handles(r, "duplicate", "arrived")
    /\ workflows[Target(r)] # "absent"
    /\ Misfit(r) = "none"
    /\ IF ~ req[r].verdict.accepted
       THEN Answer(r, "400")
       ELSE /\ \E w \in Workflows : Fresh(w) /\ tx' = [tx EXCEPT ![r].copy = w]
            /\ Goto(r, "begun")
            /\ UNCHANGED answer
    /\ UNCHANGED <<tables, history>>

\* findActiveByWorkflowId instead: inactive steps are lost (CopyIsASnapshot).
ReadSourceStepsActive(r) ==
    /\ Handles(r, "duplicate", "begun")
    /\ tx' = [tx EXCEPT ![r].rest = {s \in steps[Target(r)] : s.active}]
    /\ Goto(r, "writing")
    /\ UNCHANGED <<tables, answer, history>>

\* findByWorkflowId: every step, the inactive ones too.
ReadSourceSteps(r) ==
    /\ Handles(r, "duplicate", "begun")
    /\ tx' = [tx EXCEPT ![r].rest = steps[Target(r)]]
    /\ Goto(r, "writing")
    /\ UNCHANGED <<tables, answer, history>>

\* One turn of the loop, in step order.
CopyStep(r) ==
    /\ Handles(r, "duplicate", "writing")
    /\ \E s \in tx[r].rest :
          /\ \A t \in tx[r].rest : s.order <= t.order
          /\ tx' = [tx EXCEPT ![r].rest = @ \ {s}, ![r].held = @ \cup {s}]
    /\ UNCHANGED <<tables, pc, req, answer, history>>

\* COMMIT: the copy appears, inactive, with its steps.
CommitCopy(r) ==
    /\ Handles(r, "duplicate", "writing")
    /\ tx[r].rest = {}
    /\ SetWorkflow(tx[r].copy, "inactive")
    /\ SetSteps(tx[r].copy, tx[r].held)
    /\ Written(r, "201")
    /\ UNCHANGED executions

\* The database refuses a body that was let through: a step's order in the look-up,
\* anything else in the INSERT.  No validator looks for an order above INTEGER or for
\* U+0000, which excuses the 500; a text that is too wide would not be excused.
DatabaseRefuses(r) ==
    /\ \/ Misfit(r) = "order" /\ Handles(r, "addStep", "arrived")
       \/ /\ Misfit(r) \in {"width", "text"}
          /\ \/ Handles(r, "create", "arrived") \/ Handles(r, "duplicate", "arrived")
             \/ Handles(r, "addStep", "checked") \/ Handles(r, "execute", "checked")
    /\ workflows[Target(r)] # "absent"
    /\ Answer(r, "500")
    /\ excused' = IF Misfit(r) = "width" THEN excused ELSE excused \cup {r}
    /\ UNCHANGED <<tables, past, seen>>

\* A statement fails, or the process dies: an open transaction is rolled back.
RequestBreaks(r) ==
    /\ pc[r] \notin {"new", "done"}
    /\ \E code \in {"500", "lost"} : Answer(r, code)
    /\ excused' = excused \cup {r}
    /\ UNCHANGED <<tables, past, seen>>

\* A step made by the API is active; other requests bring no step.
Asked(r, kind) ==
    IF kind = "addStep" THEN {s \in Step : s.active /\ s.by = r /\ s.runs} ELSE {req[r].step}

\* The verdicts on the bodies of each kind of request.
Bodies(kind) ==
    CASE kind = "create"  -> CreateWorkflowVerdicts
      [] kind = "toggle"  -> UpdateWorkflowVerdicts
      [] kind = "addStep" -> StepVerdicts
      [] kind = "execute" -> ExecutionVerdicts
      [] kind = "duplicate" -> DuplicateVerdicts

Next ==
    \E r \in Requests :
        \/ \E kind \in Kinds : \E v \in Bodies(kind) :
              \/ ArriveRefused(r, kind, v)
              \/ \E w \in Workflows, s \in Asked(r, kind) : Arrive(r, kind, w, s, v)
        \/ CreateWorkflow(r) \/ FindMissing(r) \/ UpdateWorkflow(r)
        \/ CheckStepOrder(r) \/ InsertStep(r)
        \/ CheckActive(r) \/ ReadActiveSteps(r) \/ CommitExecution(r)
        \/ BeginCopy(r) \/ ReadSourceSteps(r) \/ CopyStep(r) \/ CommitCopy(r)
        \/ DatabaseRefuses(r) \/ RequestBreaks(r)

Spec == Init /\ [][Next]_vars
-----------------------------------------------------------------------------------
(* What holds in every state. *)

\* No workflow has two steps of the same order, whoever raced to add them and
\* however it was copied: the order in which an execution runs is never ambiguous
\* (createWorkflowStep, duplicate).
StepOrderIsUnique ==
    \A w \in Workflows : \A s, t \in steps[w] : s.order = t.order => s = t

\* An execution is whole from the moment others can see it: it has steps, and they
\* are the active steps its workflow had at one instant, whatever was added or
\* broke meanwhile; and the workflow was active, if only at some moment of the
\* request (createWorkflowExecution).
ExecutionIsASnapshot ==
    \A e \in executions :
        /\ e.steps # {}
        /\ "active" \in seen[e.request]
        /\ \E rows \in past[e.workflow] : e.steps = {s \in rows : s.active}

\* A copy appears at once, with the steps its source had at one instant, none of
\* them lost or activated, although its rows are written one by one (duplicate).
CopyIsASnapshot ==
    [][ \A w \in Workflows :
            workflows[w] = "absent" /\ steps'[w] # {} =>
                \E r \in Requests :
                    /\ req[r].kind = "duplicate" /\ tx[r].copy = w
                    /\ workflows'[w] = "inactive"
                    /\ steps'[w] \in past[Target(r)] ]_vars

\* What a caller is told is so: a 201 is there to stay, and its step will not fail
\* for its configuration when it runs; a 409 was earned, a 404 was about a workflow
\* that was missing.  A 500 is a failing database or one of the two kinds of input
\* no validator looks at, an order above INTEGER and U+0000: every text let through
\* fits its column, and two requests that race for a step order are never told 500
\* (createWorkflowStep, createWorkflowExecution, duplicateWorkflow, the validators).
AnswerIsTrue ==
    \A r \in Requests : LET w == Target(r) IN
        /\ answer[r] = "201" =>
               CASE req[r].kind = "addStep"   -> req[r].step \in steps[w] /\ req[r].step.runs
                 [] req[r].kind = "execute"   -> \E e \in executions : e.request = r
                 [] OTHER -> TRUE
        /\ answer[r] = "409" =>
               CASE req[r].kind = "addStep" -> Taken(w, req[r].step.order)
                 [] req[r].kind = "execute" ->
                        \/ "inactive" \in seen[r]
                        \/ \E rows \in past[w] : \A s \in rows : ~ s.active
                 [] OTHER -> FALSE
        /\ answer[r] = "404" => "absent" \in seen[r]
        /\ answer[r] = "500" => r \in excused

===================================================================================
