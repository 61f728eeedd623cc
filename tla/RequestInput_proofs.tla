---------------------------- MODULE RequestInput_proofs ---------------------------
(***************************************************************************)
(* Proofs about RequestInput: of the bodies it has of each kind, none is   *)
(* let through with a text that its column cannot hold, and every step     *)
(* that is let through is taken by the handler of its action.              *)
(***************************************************************************)
EXTENDS RequestInput, TLAPS

-----------------------------------------------------------------------------------
(* The values. *)

\* Only a text has something left when it is trimmed, and never more than it had.
Sane(v) ==
    /\ v.size \in Nat /\ v.trimmed \in Nat /\ v.trimmed <= v.size
    /\ v.trimmed > 0 => v.type = "text"

LEMMA SaneText == ASSUME NEW n \in Nat PROVE Sane(TextOf(n)) /\ Sane(NumberOf(n))
  <1>1. TextOf(n).size = n /\ TextOf(n).trimmed = n /\ TextOf(n).type = "text"
    BY DEF TextOf, Missing
  <1>2. NumberOf(n).size = n /\ NumberOf(n).trimmed = 0
    BY DEF NumberOf, Missing
  <1> QED BY <1>1, <1>2 DEF Sane

LEMMA SaneMissing == Sane(Missing)
  BY DEF Sane, Missing

LEMMA SaneOdd == \A v \in Odd : Sane(v)
  <1>1. Sane([TextOf(3) EXCEPT !.trimmed = 0, !.formed = FALSE])
    BY DEF Sane, TextOf, Missing
  <1>2. Sane(ObjectValue)
    BY DEF Sane, ObjectValue, Missing
  <1>3. Sane(ArrayValue) /\ Sane(FlagValue)
    BY DEF Sane, ArrayValue, FlagValue, Missing
  <1> QED BY <1>1, <1>2, <1>3, SaneText, SaneMissing DEF Odd

LEMMA SaneAround ==
  ASSUME NEW n \in Nat
  PROVE  (\A v \in Around(n) : Sane(v)) /\ (\A v \in Formed(n) : Sane(v))
  <1>1. Sane([TextOf(n) EXCEPT !.nul = TRUE])
    BY DEF Sane, TextOf, Missing
  <1>2. Sane([TextOf(n + 2) EXCEPT !.trimmed = n])
    BY DEF Sane, TextOf, Missing
  <1>3. Sane([TextOf(n) EXCEPT !.formed = FALSE])
    BY DEF Sane, TextOf, Missing
  <1>4. Sane(TextOf(n)) /\ Sane(TextOf(n + 1))
    BY SaneText
  <1>5. \A v \in Around(n) : Sane(v)
    BY <1>1, <1>2, <1>4, SaneOdd DEF Around
  <1> QED BY <1>3, <1>5 DEF Formed

\* A field of a body is the good one's or one of its samples.
LEMMA SaneVariation ==
  ASSUME NEW good, NEW samples, NEW p \in Variations(good, samples), DOMAIN good = DOMAIN samples,
         NEW f \in DOMAIN good, Sane(good[f]), \A v \in samples[f] : Sane(v)
  PROVE  Sane(p[f])
  <1> HIDE DEF Sane
  <1>1. p = good \/ \E g \in DOMAIN samples : \E v \in samples[g] : p = [good EXCEPT ![g] = v]
    BY DEF Variations
  <1>2. p[f] = good[f] \/ p[f] \in samples[f]
    BY <1>1
  <1> QED BY <1>2

-----------------------------------------------------------------------------------
(* The verdicts. *)

LEMMA StoredTyped ==
  ASSUME NEW widths, NEW values
  PROVE  /\ Stored(widths, values) \in {"none", "text", "width"}
         /\ Stored(widths, values) = "width" => \E pair \in widths : pair[1].trimmed > pair[2]
  BY DEF Stored

LEMMA VerdictTyped ==
  ASSUME NEW accepted \in BOOLEAN, NEW misfit \in Misfits, NEW runs \in BOOLEAN
  PROVE  /\ Verdict(accepted, misfit, runs) \in Verdicts
         /\ (accepted => misfit # "width") => Verdict(accepted, misfit, runs).misfit # "width"
         /\ (accepted => runs) => Verdict(accepted, misfit, runs).runs
  BY DEF Verdict, Verdicts, Refused, Misfits

LEMMA OneColumn ==
  ASSUME NEW v, NEW max, NEW values, ~ (v.trimmed > max)
  PROVE  Stored({<<v, max>>}, values) \in {"none", "text"}
  BY DEF Stored

LEMMA TwoColumns ==
  ASSUME NEW v, NEW max, NEW w, NEW limit, NEW values, ~ (v.trimmed > max), ~ (w.trimmed > limit)
  PROVE  Stored({<<v, max>>, <<w, limit>>}, values) \in {"none", "text"}
  BY DEF Stored

\* A text that is there, and is not longer than its limit, fits a column of that width.
LEMMA PresentFits ==
  ASSUME NEW v, Sane(v), NEW max \in Nat
  PROVE  /\ Present(v, max) \in BOOLEAN /\ Optional(v, max) \in BOOLEAN
         /\ Present(v, max) \/ Optional(v, max) => ~ (v.trimmed > max)
  BY DEF Present, Optional, Sane

LEMMA WorkflowFits == \A v \in CreateWorkflowVerdicts : v \in Verdicts /\ v.misfit # "width" /\ v.runs
  <1> DEFINE good == [name |-> TextOf(1), description |-> Missing, departmentId |-> Missing]
             samples == [name |-> Around(150), description |-> Around(1000), departmentId |-> Formed(36)]
             of(p) == Verdict(ValidateCreateWorkflow(p), Stored({<<p.name, 150>>}, {p.name, p.description}), TRUE)
  <1>1. ASSUME NEW p \in Variations(good, samples)
        PROVE  of(p) \in Verdicts /\ of(p).misfit # "width" /\ of(p).runs
    <2>1. Sane(p.name)
      BY SaneVariation, SaneText, SaneAround
    <2>2. ValidateCreateWorkflow(p) \in BOOLEAN /\ (ValidateCreateWorkflow(p) => Present(p.name, 150))
      BY DEF ValidateCreateWorkflow
    <2>3. ValidateCreateWorkflow(p) => Stored({<<p.name, 150>>}, {p.name, p.description}) # "width"
      BY <2>1, <2>2, PresentFits, OneColumn
    <2>4. Stored({<<p.name, 150>>}, {p.name, p.description}) \in Misfits
      BY StoredTyped DEF Misfits
    <2> QED BY ZenonT(30), <2>2, <2>3, <2>4, VerdictTyped
  <1>2. CreateWorkflowVerdicts = {of(p) : p \in Variations(good, samples)}
    BY Zenon DEF CreateWorkflowVerdicts
  <1> HIDE DEF of, good, samples
  <1> QED BY <1>1, <1>2

LEMMA DuplicateFits == \A v \in DuplicateVerdicts : v \in Verdicts /\ v.misfit # "width" /\ v.runs
  <1> DEFINE of(name) == Verdict(Present(name, 150), Stored({<<name, 150>>}, {name}), TRUE)
  <1>1. ASSUME NEW v \in Around(150), NEW source \in {1, 143, 144, 150}
        PROVE  Sane(DuplicateName(v, source))
    <2>1. Sane(v)
      BY SaneAround
    <2>2. Sane([v EXCEPT !.size = v.trimmed])
      BY <2>1 DEF Sane
    <2>3. Sane(TextOf(source + 7))
      BY SaneText
    <2> QED BY <2>2, <2>3 DEF DuplicateName
  <1>2. ASSUME NEW name, Sane(name) PROVE of(name) \in Verdicts /\ of(name).misfit # "width" /\ of(name).runs
    <2>1. Present(name, 150) => Stored({<<name, 150>>}, {name}) # "width"
      BY SMTT(30), <1>2, PresentFits, OneColumn
    <2>2. Stored({<<name, 150>>}, {name}) \in Misfits
      BY StoredTyped DEF Misfits
    <2>3. Present(name, 150) \in BOOLEAN
      BY DEF Present
    <2> QED BY ZenonT(30), <2>1, <2>2, <2>3, VerdictTyped
  <1>3. DuplicateVerdicts = {of(DuplicateName(v, source)) : v \in Around(150), source \in {1, 143, 144, 150}}
    BY DEF DuplicateVerdicts
  <1> HIDE DEF of
  <1> QED BY <1>1, <1>2, <1>3

LEMMA UpdateFits == \A v \in UpdateWorkflowVerdicts : v \in Verdicts /\ v.misfit # "width" /\ v.runs
  <1>1. \A v : ValidateUpdateWorkflow(v) \in BOOLEAN
    BY DEF ValidateUpdateWorkflow
  <1>2. \A v \in Odd : LET w == Verdict(ValidateUpdateWorkflow(v), "none", TRUE)
                      IN w \in Verdicts /\ w.misfit # "width" /\ w.runs
    BY <1>1, VerdictTyped DEF Misfits
  <1> QED BY <1>2 DEF UpdateWorkflowVerdicts

LEMMA ExecutionFits == \A v \in ExecutionVerdicts : v \in Verdicts /\ v.misfit # "width" /\ v.runs
  <1>1. \A v : ValidateInput(v) \in BOOLEAN /\ Stored({}, {v}) \in {"none", "text"}
    BY DEF ValidateInput, ObjectIfAny, Stored
  <1>2. \A v : LET w == Verdict(ValidateInput(v), Stored({}, {v}), TRUE)
               IN w \in Verdicts /\ w.misfit # "width" /\ w.runs
    BY <1>1, VerdictTyped DEF Misfits
  <1> QED BY <1>2 DEF ExecutionVerdicts

\* What the validator of a step lets through, the handler of its action takes.
LEMMA StepFits == \A v \in StepVerdicts : v \in Verdicts /\ v.misfit # "width" /\ v.runs
  <1> DEFINE misfit(p) == IF ~ p.stepOrder.fits THEN "order"
                          ELSE Stored({<<p.name, 150>>},
                                  {p.name, p.description} \cup
                                  IF p.configuration.type = "object"
                                  THEN {p.issueKey, p.comment, p.transitionId} ELSE {})
             of(p) == Verdict(ValidateCreateWorkflowStep(p), misfit(p), HandlerAccepts(p))
             samples == [name |-> Around(150), description |-> Around(1000),
                         stepOrder |-> Odd \cup {NumberOf(0), [NumberOf(1) EXCEPT !.fits = FALSE],
                                                 [NumberOf(1) EXCEPT !.formed = FALSE]},
                         actionType |-> {"", "none", "lower"}, configuration |-> Odd,
                         issueKey |-> Formed(100), comment |-> Around(5000), transitionId |-> Formed(50)]
             fields == {"name", "description", "stepOrder", "actionType", "configuration", "issueKey",
                        "comment", "transitionId"}
  <1>1. DOMAIN samples = fields
    OBVIOUS
  <1>2. ASSUME NEW action \in ActionTypes
        PROVE  /\ DOMAIN GoodStep(action) = fields
               /\ GoodStep(action)["name"] = TextOf(1) /\ GoodStep(action)["issueKey"] = TextOf(5)
    BY DEF GoodStep
  <1>3. samples["name"] = Around(150) /\ samples["issueKey"] = Formed(100)
    OBVIOUS
  <1>4. StepBodies = UNION {Variations(GoodStep(action), samples) : action \in ActionTypes}
    BY Zenon DEF StepBodies
  <1> HIDE DEF samples
  <1>5. ASSUME NEW action \in ActionTypes, NEW p \in Variations(GoodStep(action), samples)
        PROVE  of(p) \in Verdicts /\ of(p).misfit # "width" /\ of(p).runs
    <2>1. "name" \in DOMAIN GoodStep(action) /\ "issueKey" \in DOMAIN GoodStep(action)
      BY <1>2
    <2>2. Sane(p.name)
      BY <1>1, <1>2, <1>3, <2>1, SaneText, SaneAround, SaneVariation
    <2>3. Sane(p.issueKey)
      BY <1>1, <1>2, <1>3, <2>1, SaneText, SaneAround, SaneVariation
    <2>4. ValidateCreateWorkflowStep(p) \in BOOLEAN /\ HandlerAccepts(p) \in BOOLEAN
      <3>1. ValidateJiraCommentFields(p) \in BOOLEAN /\ ValidateJiraTransitionFields(p) \in BOOLEAN
        BY DEF ValidateJiraCommentFields, ValidateJiraTransitionFields
      <3>2. HandlerAccepts(p) \in BOOLEAN
        <4>1. CASE p.actionType = "JIRA_COMMENT"
          BY <3>1, <4>1 DEF HandlerAccepts
        <4>2. CASE p.actionType = "JIRA_TRANSITION"
          BY <3>1, <4>2 DEF HandlerAccepts
        <4>3. CASE p.actionType \notin {"JIRA_COMMENT", "JIRA_TRANSITION"}
          <5>1. HandlerAccepts(p) = (p.actionType \in ActionTypes)
            BY <4>3 DEF HandlerAccepts
          <5> QED BY <5>1
        <4> QED BY <4>1, <4>2, <4>3
      <3>3. ValidateCreateWorkflowStep(p) \in BOOLEAN
        BY DEF ValidateCreateWorkflowStep
      <3> QED BY <3>2, <3>3
    <2>5. ValidateCreateWorkflowStep(p) => HandlerAccepts(p)
      <3>1. JiraIssueKey(p.issueKey) => p.issueKey.type = "text"
        BY <2>3 DEF JiraIssueKey, Sane
      <3> QED BY <3>1 DEF ValidateCreateWorkflowStep, ObjectIfAny, ValidateActionConfiguration, HandlerAccepts,
                 ValidateJiraCommentFields, ValidateJiraTransitionFields, ActionTypes
    <2>6. misfit(p) \in Misfits /\ (ValidateCreateWorkflowStep(p) => misfit(p) # "width")
      <3>1. ValidateCreateWorkflowStep(p) => ~ (p.name.trimmed > 150)
        BY <2>2, PresentFits DEF ValidateCreateWorkflowStep
      <3> QED BY <3>1, StoredTyped DEF Misfits
    <2> HIDE DEF misfit
    <2> QED BY <2>4, <2>5, <2>6, VerdictTyped
  <1>6. StepVerdicts = {of(p) : p \in StepBodies}
    BY Zenon DEF StepVerdicts
  <1> HIDE DEF of
  <1> QED BY <1>4, <1>5, <1>6

LEMMA UserFits == \A v \in UserVerdicts : v \in Verdicts /\ v.misfit # "width"
  <1> DEFINE good == [name |-> TextOf(1), email |-> TextOf(9), password |-> TextOf(12),
                      role |-> TextOf(5), departmentId |-> Missing]
             samples == [name |-> Around(150),
                         email |-> Formed(255) \cup {[TextOf(200) EXCEPT !.lower = 256]},
                         password |-> Passwords, role |-> Formed(8), departmentId |-> Formed(36)]
             stored(p) == Stored({<<p.name, 150>>, <<p.email, 255>>}, {p.name})
             misfit(p) == IF p.email.nul THEN "key" ELSE IF p.email.lower > 255 THEN "email" ELSE stored(p)
             of(p) == Verdict(ValidateCreateUser(p), misfit(p), TRUE)
  <1>1. Sane([TextOf(200) EXCEPT !.lower = 256])
    BY DEF Sane, TextOf, Missing
  <1>2. ASSUME NEW p \in Variations(good, samples) PROVE of(p) \in Verdicts /\ of(p).misfit # "width"
    <2>1. Sane(p.name)
      BY SaneVariation, SaneText, SaneAround
    <2>2. Sane(p.email)
      BY <1>1, SaneVariation, SaneText, SaneAround
    <2>3. ValidateCreateUser(p) \in BOOLEAN
      BY DEF ValidateCreateUser
    <2>4. ValidateCreateUser(p) => ~ (p.name.trimmed > 150) /\ ~ (p.email.trimmed > 255)
      BY <2>1, <2>2, PresentFits DEF ValidateCreateUser, ValidateEmail
    <2>5. stored(p) \in {"none", "text", "width"}
      BY StoredTyped
    <2>6. ValidateCreateUser(p) => stored(p) # "width"
      <3>1. ASSUME ValidateCreateUser(p)
            PROVE  Stored({<<p.name, 150>>, <<p.email, 255>>}, {p.name}) \in {"none", "text"}
        BY <2>4, <3>1 DEF Stored
      <3> QED BY <3>1
    <2> HIDE DEF stored
    <2>7. misfit(p) \in Misfits /\ (ValidateCreateUser(p) => misfit(p) # "width")
      BY <2>5, <2>6 DEF Misfits
    <2> QED BY <2>3, <2>7, VerdictTyped
  <1>3. UserVerdicts = {of(p) : p \in Variations(good, samples)}
    BY Zenon DEF UserVerdicts
  <1> HIDE DEF of, good, samples
  <1> QED BY <1>2, <1>3

LEMMA DepartmentFits == \A v \in DepartmentVerdicts : v \in Verdicts /\ v.misfit # "width"
  <1> DEFINE good == [name |-> TextOf(1), description |-> Missing]
             samples == [name |-> Around(100), description |-> Around(500)]
             stored(p) == Stored({<<p.name, 100>>}, {p.description})
             misfit(p) == IF p.name.nul THEN "key" ELSE stored(p)
             of(p) == Verdict(ValidateCreateDepartment(p), misfit(p), TRUE)
  <1>1. ASSUME NEW p \in Variations(good, samples) PROVE of(p) \in Verdicts /\ of(p).misfit # "width"
    <2>1. Sane(p.name)
      BY SaneVariation, SaneText, SaneAround
    <2>2. /\ ValidateCreateDepartment(p) \in BOOLEAN
          /\ ValidateCreateDepartment(p) => ~ (p.name.trimmed > 100)
      BY <2>1, PresentFits DEF ValidateCreateDepartment
    <2>3. stored(p) \in {"none", "text", "width"} /\ (ValidateCreateDepartment(p) => stored(p) # "width")
      BY <2>2, StoredTyped, OneColumn
    <2> HIDE DEF stored
    <2>4. misfit(p) \in Misfits /\ (ValidateCreateDepartment(p) => misfit(p) # "width")
      BY <2>3 DEF Misfits
    <2> QED BY <2>2, <2>4, VerdictTyped
  <1>2. DepartmentVerdicts = {of(p) : p \in Variations(good, samples)}
    BY Zenon DEF DepartmentVerdicts
  <1> HIDE DEF of, good, samples
  <1> QED BY <1>1, <1>2

LEMMA AuditFits == \A v \in AuditVerdicts : v \in Verdicts /\ v.misfit # "width"
  <1> DEFINE good == [action |-> TextOf(13), entity |-> TextOf(1), entityId |-> Missing, metadata |-> Missing]
             samples == [action |-> Formed(15), entity |-> Around(100), entityId |-> Around(100),
                         metadata |-> Odd \cup {[ObjectValue EXCEPT !.nul = TRUE]}]
             stored(p) == Stored({<<p.entity, 100>>, <<p.entityId, 100>>}, {p.entity, p.entityId, p.metadata})
             of(p) == Verdict(ValidateCreateManualAuditLog(p), stored(p), TRUE)
  <1>1. ASSUME NEW p \in Variations(good, samples) PROVE of(p) \in Verdicts /\ of(p).misfit # "width"
    <2>1. Sane(p.entity) /\ Sane(p.entityId)
      BY SaneVariation, SaneText, SaneMissing, SaneAround
    <2>2. ValidateCreateManualAuditLog(p) \in BOOLEAN
      BY DEF ValidateCreateManualAuditLog
    <2>3. ValidateCreateManualAuditLog(p) => ~ (p.entity.trimmed > 100) /\ ~ (p.entityId.trimmed > 100)
      BY <2>1, PresentFits DEF ValidateCreateManualAuditLog
    <2>4. stored(p) \in Misfits /\ (ValidateCreateManualAuditLog(p) => stored(p) # "width")
      BY <2>3, StoredTyped, TwoColumns DEF Misfits
    <2> HIDE DEF stored
    <2> QED BY <2>2, <2>4, VerdictTyped
  <1>2. AuditVerdicts = {of(p) : p \in Variations(good, samples)}
    BY Zenon DEF AuditVerdicts
  <1> HIDE DEF of, good, samples
  <1> QED BY <1>1, <1>2

LEMMA LoginFits == \A v \in LoginVerdicts : v \in Verdicts /\ v.misfit # "width"
  <1> DEFINE misfit(p) == IF p.email.nul THEN "key" ELSE "none"
             of(p) == Verdict(ValidateLogin(p), misfit(p), TRUE)
  <1>1. ASSUME NEW p PROVE of(p) \in Verdicts /\ of(p).misfit # "width"
    <2>1. ValidateLogin(p) \in BOOLEAN /\ misfit(p) \in Misfits /\ misfit(p) # "width"
      BY DEF ValidateLogin, Misfits
    <2> QED BY <2>1, VerdictTyped
  <1> HIDE DEF misfit
  <1> QED BY <1>1 DEF LoginVerdicts, misfit

===================================================================================
