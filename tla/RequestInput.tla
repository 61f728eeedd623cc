------------------------------- MODULE RequestInput -------------------------------
(***************************************************************************)
(* What the validators let through, and what PostgreSQL makes of it.       *)
(*                                                                         *)
(* A body is a record of values, and a value is what the validators and    *)
(* the columns look at: its type, its size in UTF-16 units as it came and  *)
(* trimmed (a number is its own size) and in lower case, which may be      *)
(* longer, whether it has the form asked of it (a UUID, a role, an issue   *)
(* key, an integer...), whether it holds the character U+0000, which       *)
(* JavaScript and JSON allow and PostgreSQL does not, and whether, as a    *)
(* number, it fits an INTEGER column.                                      *)
(*                                                                         *)
(* A body gets a verdict: it is refused, or it is stored, or the database  *)
(* refuses what was let through.                                           *)
(***************************************************************************)
EXTENDS Naturals

Missing  == [type |-> "missing", size |-> 0, trimmed |-> 0, lower |-> 0,
             formed |-> FALSE, nul |-> FALSE, fits |-> TRUE]
TextOf(n)   == [Missing EXCEPT !.type = "text", !.size = n, !.trimmed = n, !.lower = n, !.formed = n > 0]
NumberOf(n) == [Missing EXCEPT !.type = "number", !.size = n, !.formed = TRUE]
ObjectValue == [Missing EXCEPT !.type = "object"]
ArrayValue  == [Missing EXCEPT !.type = "array"]
FlagValue   == [Missing EXCEPT !.type = "boolean"]

Misfits  == {"none", "width", "order", "key", "text", "email"}
Verdicts == [accepted : BOOLEAN, misfit : Misfits, runs : BOOLEAN]
Refused  == [accepted |-> FALSE, misfit |-> "none", runs |-> TRUE]
Plain    == [accepted |-> TRUE, misfit |-> "none", runs |-> TRUE]

\* What the database finds wrong with a body that was let through: a value longer
\* than its column ("width"), a step order above INTEGER ("order"), U+0000 in what is
\* looked up first ("key") or in what is only stored ("text"), or an email that grew
\* in lower case ("email").
Stored(widths, values) ==
    IF \E pair \in widths : pair[1].trimmed > pair[2] THEN "width"
    ELSE IF \E v \in values : v.nul THEN "text" ELSE "none"

Verdict(accepted, misfit, runs) ==
    IF accepted THEN [accepted |-> TRUE, misfit |-> misfit, runs |-> runs] ELSE Refused

\* The good body, and every body that differs from it in one field.
Variations(good, samples) ==
    {good} \cup UNION {{[good EXCEPT ![f] = v] : v \in samples[f]} : f \in DOMAIN samples}

\* Values on both sides of a limit, padded with blanks or not, and of other types.
Odd == {Missing, TextOf(0), [TextOf(3) EXCEPT !.trimmed = 0, !.formed = FALSE],
        NumberOf(1), ObjectValue, ArrayValue, FlagValue}
Around(max) == Odd \cup {TextOf(max), TextOf(max + 1), [TextOf(max + 2) EXCEPT !.trimmed = max],
                         [TextOf(max) EXCEPT !.nul = TRUE]}
Formed(max) == Around(max) \cup {[TextOf(max) EXCEPT !.formed = FALSE]}

-----------------------------------------------------------------------------------
(* The checks the validators share. *)

Present(v, max)  == v.type = "text" /\ v.trimmed > 0 /\ v.size <= max
Optional(v, max) == v.type = "missing" \/ (v.type = "text" /\ v.size <= max)
Chosen(v)        == v.type = "text" /\ v.formed
ChosenIfAny(v)   == v.type = "missing" \/ (v.type = "text" /\ (v.size = 0 \/ v.formed))
ObjectIfAny(v)   == v.type \in {"missing", "object"}

-----------------------------------------------------------------------------------
(* POST /workflows, PATCH /workflows/:id and POST /workflows/:id/duplicate. *)

\* The limit is a round figure above the column's (AnswerIsTrue).
CreateWorkflowWide(p) ==
    /\ Present(p.name, 255) /\ Optional(p.description, 1000)
    /\ ChosenIfAny(p.departmentId)

ValidateCreateWorkflow(p) ==
    /\ Present(p.name, 150) /\ Optional(p.description, 1000)
    /\ ChosenIfAny(p.departmentId)

CreateWorkflowVerdicts ==
    {Verdict(ValidateCreateWorkflow(p), Stored({<<p.name, 150>>}, {p.name, p.description}), TRUE) :
        p \in Variations([name |-> TextOf(1), description |-> Missing, departmentId |-> Missing],
                         [name |-> Around(150), description |-> Around(1000), departmentId |-> Formed(36)])}

ValidateUpdateWorkflow(isActive) == isActive.type = "boolean"

UpdateWorkflowVerdicts ==
    {Verdict(ValidateUpdateWorkflow(v), "none", TRUE) : v \in Odd}

\* The name given, or the source's with " (copy)" behind it.
DuplicateName(name, source) ==
    IF name.type = "text" /\ name.trimmed > 0 THEN [name EXCEPT !.size = name.trimmed] ELSE TextOf(source + 7)

DuplicateVerdicts ==
    {LET name == DuplicateName(v, source)
     IN Verdict(Present(name, 150), Stored({<<name, 150>>}, {name}), TRUE) :
        v \in Around(150), source \in {1, 143, 144, 150}}

-----------------------------------------------------------------------------------
(* POST /workflows/:workflowId/steps. *)

ActionTypes == {"MANUAL", "NOTIFICATION", "JIRA_COMMENT", "JIRA_TRANSITION"}

ValidateStepOrder(v) == v.type = "number" /\ v.formed /\ v.size > 0

JiraIssueKey(v) == v.type = "text" /\ v.trimmed \in 1 .. 100 /\ v.formed

ValidateJiraCommentFields(p) ==
    /\ p.configuration.type # "missing"
    /\ p.configuration.type = "object" => JiraIssueKey(p.issueKey) /\ Present(p.comment, 5000)

ValidateJiraTransitionFields(p) ==
    /\ p.configuration.type # "missing"
    /\ p.configuration.type = "object" =>
           JiraIssueKey(p.issueKey) /\ Present(p.transitionId, 50) /\ p.transitionId.formed

ValidateActionConfiguration(p) ==
    /\ p.actionType = "JIRA_COMMENT" => ValidateJiraCommentFields(p)
    /\ p.actionType = "JIRA_TRANSITION" => ValidateJiraTransitionFields(p)

\* The action's own fields are left to the handler (AnswerIsTrue).
CreateStepUnchecked(p) ==
    /\ Present(p.name, 150) /\ Optional(p.description, 1000)
    /\ ValidateStepOrder(p.stepOrder)
    /\ p.actionType \in ActionTypes
    /\ ObjectIfAny(p.configuration)

ValidateCreateWorkflowStep(p) ==
    /\ Present(p.name, 150) /\ Optional(p.description, 1000)
    /\ ValidateStepOrder(p.stepOrder)
    /\ p.actionType \in ActionTypes
    /\ ObjectIfAny(p.configuration)
    /\ ValidateActionConfiguration(p)

\* What the handlers ask of a stored step before they call Jira: they validate the
\* configuration again, and read its fields as texts.
HandlerAccepts(p) ==
    CASE p.actionType = "JIRA_COMMENT" ->
             p.configuration.type = "object" /\ p.issueKey.type = "text" /\ ValidateJiraCommentFields(p)
      [] p.actionType = "JIRA_TRANSITION" ->
             p.configuration.type = "object" /\ p.issueKey.type = "text" /\ ValidateJiraTransitionFields(p)
      [] OTHER -> p.actionType \in ActionTypes

GoodStep(action) ==
    [name |-> TextOf(1), description |-> Missing, stepOrder |-> NumberOf(1), actionType |-> action,
     configuration |-> ObjectValue, issueKey |-> TextOf(5), comment |-> TextOf(1), transitionId |-> TextOf(2)]

StepBodies ==
    UNION {Variations(GoodStep(action),
              [name |-> Around(150), description |-> Around(1000),
               stepOrder |-> Odd \cup {NumberOf(0), [NumberOf(1) EXCEPT !.fits = FALSE],
                                       [NumberOf(1) EXCEPT !.formed = FALSE]},
               actionType |-> {"", "none", "lower"}, configuration |-> Odd,
               issueKey |-> Formed(100), comment |-> Around(5000), transitionId |-> Formed(50)]) :
           action \in ActionTypes}

\* step_order is compared in the look-up already, so it is what fails first.
StepVerdicts ==
    {Verdict(ValidateCreateWorkflowStep(p),
             IF ~ p.stepOrder.fits THEN "order"
             ELSE Stored({<<p.name, 150>>},
                         {p.name, p.description} \cup
                         IF p.configuration.type = "object" THEN {p.issueKey, p.comment, p.transitionId} ELSE {}),
             HandlerAccepts(p)) : p \in StepBodies}

-----------------------------------------------------------------------------------
(* POST /workflows/:workflowId/executions: any object, and U+0000 anywhere in it. *)

ValidateInput(input) == ObjectIfAny(input)

ExecutionVerdicts ==
    {Verdict(ValidateInput(v), Stored({}, {v}), TRUE) : v \in Odd \cup {[ObjectValue EXCEPT !.nul = TRUE]}}

-----------------------------------------------------------------------------------
(* POST /users, POST /departments, POST /audit-logs and POST /auth/login. *)

ValidateEmail(v) == v.type = "text" /\ v.trimmed \in 1 .. 255 /\ v.formed

\* A password by its UTF-16 units, its bytes (in `lower`) and whether it has the four classes
\* of characters; what is stored is its hash.
ValidatePassword(v) == v.type = "text" /\ v.size >= 12 /\ v.lower <= 72 /\ v.formed

Passwords == Odd \cup {TextOf(11), TextOf(12), TextOf(72), TextOf(73), [TextOf(12) EXCEPT !.formed = FALSE],
                       [TextOf(40) EXCEPT !.lower = 80]}

ValidateCreateUser(p) ==
    /\ Present(p.name, 150) /\ ValidateEmail(p.email) /\ ValidatePassword(p.password)
    /\ Chosen(p.role) /\ ChosenIfAny(p.departmentId)

\* The email is stored in lower case, where U+0130 takes two characters for one.
UserVerdicts ==
    {Verdict(ValidateCreateUser(p),
             IF p.email.nul THEN "key"
             ELSE IF p.email.lower > 255 THEN "email"
             ELSE Stored({<<p.name, 150>>, <<p.email, 255>>}, {p.name}), TRUE) :
        p \in Variations([name |-> TextOf(1), email |-> TextOf(9), password |-> TextOf(12),
                          role |-> TextOf(5), departmentId |-> Missing],
                         [name |-> Around(150),
                          email |-> Formed(255) \cup {[TextOf(200) EXCEPT !.lower = 256]},
                          password |-> Passwords, role |-> Formed(8), departmentId |-> Formed(36)])}

ValidateCreateDepartment(p) == Present(p.name, 100) /\ Optional(p.description, 500)

DepartmentVerdicts ==
    {Verdict(ValidateCreateDepartment(p),
             IF p.name.nul THEN "key" ELSE Stored({<<p.name, 100>>}, {p.description}), TRUE) :
        p \in Variations([name |-> TextOf(1), description |-> Missing],
                         [name |-> Around(100), description |-> Around(500)])}

ValidateCreateManualAuditLog(p) ==
    /\ Chosen(p.action) /\ Present(p.entity, 100) /\ Optional(p.entityId, 100)
    /\ ObjectIfAny(p.metadata)

AuditVerdicts ==
    {Verdict(ValidateCreateManualAuditLog(p),
             Stored({<<p.entity, 100>>, <<p.entityId, 100>>}, {p.entity, p.entityId, p.metadata}), TRUE) :
        p \in Variations([action |-> TextOf(13), entity |-> TextOf(1), entityId |-> Missing, metadata |-> Missing],
                         [action |-> Formed(15), entity |-> Around(100), entityId |-> Around(100),
                          metadata |-> Odd \cup {[ObjectValue EXCEPT !.nul = TRUE]}])}

ValidateLogin(p) ==
    /\ p.email.type = "text" /\ p.email.trimmed > 0 /\ p.email.formed
    /\ p.password.type = "text" /\ p.password.size > 0

\* The email is compared with a column, at any length; the password only with a hash.
LoginVerdicts ==
    {Verdict(ValidateLogin(p), IF p.email.nul THEN "key" ELSE "none", TRUE) :
        p \in Variations([email |-> TextOf(9), password |-> TextOf(12)],
                         [email |-> Formed(255), password |-> Passwords])}

===================================================================================
