------------------------------ MODULE JiraIntegration -----------------------------
(***************************************************************************)
(* One Jira step as its attempts run it, from the handler's checks to what *)
(* becomes of the step: which errors reach the processor, which of them it *)
(* retries, and what the connection test answers over HTTP.                *)
(*                                                                         *)
(* A failed HTTP call is a record of what normalizeJiraError looks at: the *)
(* status of the response (0 when there is none) and whether the error     *)
(* carries a code.  The client is axios, which gives every error a code,   *)
(* ERR_BAD_REQUEST for a 4xx (tests/jira/jira-errors.test.js has one).     *)
(***************************************************************************)
EXTENDS Naturals

CONSTANTS
    Rejected,  \* the 4xx statuses Jira may answer, 408 and 429 included
    Broken,    \* the 5xx statuses Jira may answer
    Attempts   \* attempts of the job, 3 in the queue's options

ASSUME StatusesAssumption == Rejected \subseteq 400 .. 499 /\ Broken \subseteq 500 .. 599
ASSUME AttemptsAssumption == Attempts \in Nat \ {0}

Calls == {"JIRA_COMMENT", "JIRA_TRANSITION", "TEST_CONNECTION"}

\* What Jira makes of a request: whether it is applied, and the error the client
\* raises, if any.  A rejected request is not applied; one that times out or breaks
\* may be.
Success  == [ok |-> TRUE, applied |-> TRUE, status |-> 200, code |-> FALSE]
Failures == [ok : {FALSE}, applied : {FALSE}, status : Rejected, code : {TRUE}]
              \cup [ok : {FALSE}, applied : BOOLEAN, status : Broken \cup {0}, code : {TRUE}]
Answers  == {Success} \cup Failures

VARIABLES
    call,      \* what is asked of Jira
    enabled,   \* JIRA_ENABLED; the boot refuses TRUE without the other settings
    valid,     \* the step's configuration passes its validation
    simulate,  \* its configuration says shouldFail
    stage,     \* where the call stands
    error,     \* the error on its way up
    last,      \* Jira's last answer
    fate,      \* the step's status after the attempt
    http,      \* the HTTP status of the connection test's answer
    runs,      \* attempts begun
    posts,     \* requests sent to Jira
    applied    \* how many of them were applied

inputs == <<call, enabled, valid, simulate>>
vars   == <<inputs, stage, error, last, fate, http, runs, posts, applied>>

\* The errors, by the flags that are read of them.
NoError        == [kind |-> "none", status |-> 0, operational |-> FALSE, retryable |-> FALSE]
PlainError     == [kind |-> "Error", status |-> 0, operational |-> FALSE, retryable |-> FALSE]
AppError(s)    == [kind |-> "AppError", status |-> s, operational |-> TRUE, retryable |-> FALSE]
JiraBusinessError(s) == [kind |-> "Business", status |-> s, operational |-> TRUE, retryable |-> FALSE]
JiraTechnicalError   == [kind |-> "Technical", status |-> 0, operational |-> FALSE, retryable |-> TRUE]

TypeOK ==
    /\ call \in Calls /\ enabled \in BOOLEAN /\ valid \in BOOLEAN /\ simulate \in BOOLEAN
    /\ stage \in {"idle", "configured", "ready", "answered", "raised", "done"}
    /\ error \in {NoError, PlainError, JiraTechnicalError}
                   \cup {AppError(s) : s \in 400 .. 599} \cup {JiraBusinessError(s) : s \in 400 .. 499}
    /\ last \in Answers \cup {NoError}
    /\ fate \in {"PENDING", "RUNNING", "COMPLETED", "FAILED"}
    /\ http \in {0, 200} \cup 400 .. 599
    /\ runs \in 0 .. Attempts /\ posts \in 0 .. runs
    /\ applied \in 0 .. posts

Init ==
    /\ call \in Calls /\ enabled \in BOOLEAN /\ valid \in BOOLEAN /\ simulate \in BOOLEAN
    /\ stage = "idle" /\ error = NoError /\ last = NoError
    /\ fate = "PENDING" /\ http = 0
    /\ runs = 0 /\ posts = 0 /\ applied = 0

-----------------------------------------------------------------------------------
Raise(e) == stage' = "raised" /\ error' = e

Retryable4xx == {408, 429}
MappedStatuses == {400, 401, 403, 404}

\* Whatever is not retryable is a rejection, an answer that never came too (TypeOK).
NormalizeRetryableOnly(f) ==
    IF f.status \in Retryable4xx \/ f.status >= 500 THEN JiraTechnicalError
    ELSE JiraBusinessError(f.status)

\* Every 4xx is taken for a rejection, 408 and 429 too (FateIsJustified).
NormalizeNoCarveOut(f) ==
    IF f.status \in 400 .. 499 THEN JiraBusinessError(f.status) ELSE JiraTechnicalError

\* The code is looked at before the mapped statuses (MappedRejectionIsFinal).
NormalizeCodeFirst(f) ==
    IF f.status \in Retryable4xx \/ f.status >= 500 \/ f.code \/ f.status = 0
    THEN JiraTechnicalError
    ELSE JiraBusinessError(f.status)

\* The branches of normalizeJiraError, first match first: a code alone makes an
\* error technical, whatever its status.
NormalizeJiraError(f) ==
    IF f.status \in MappedStatuses THEN JiraBusinessError(f.status)
    ELSE IF f.status \in Retryable4xx \/ f.status >= 500 \/ f.code \/ f.status = 0
    THEN JiraTechnicalError
    ELSE JiraBusinessError(f.status)

\* handleWorkflowStepWithContext: the simulated failure, then the validation of the
\* configuration.  The connection test has neither.
CheckConfiguration ==
    /\ stage = "idle"
    /\ fate = "PENDING"
    /\ runs < Attempts
    /\ runs' = runs + 1
    /\ \/ call = "TEST_CONNECTION" /\ stage' = "configured" /\ UNCHANGED error
       \/ call # "TEST_CONNECTION" /\ simulate /\ Raise(PlainError)
       \/ call # "TEST_CONNECTION" /\ ~ simulate /\ ~ valid /\ Raise(JiraBusinessError(400))
       \/ call # "TEST_CONNECTION" /\ ~ simulate /\ valid /\ stage' = "configured" /\ UNCHANGED error
    /\ UNCHANGED <<inputs, last, fate, http, posts, applied>>

\* assertJiraIntegrationReady, or the checks of testConnection; after the boot's
\* own check only "disabled" is left of the three reasons.
AssertReady ==
    /\ stage = "configured"
    /\ IF enabled THEN stage' = "ready" /\ UNCHANGED error
       ELSE Raise(IF call = "TEST_CONNECTION" THEN AppError(400) ELSE JiraBusinessError(400))
    /\ UNCHANGED <<inputs, last, fate, http, runs, posts, applied>>

\* The request is sent and answered: a POST for a step, a GET for the test.
CallJira(answer) ==
    /\ stage = "ready"
    /\ last' = answer
    /\ IF answer.ok THEN stage' = "answered" /\ UNCHANGED error
                    ELSE Raise(NormalizeJiraError(answer))
    /\ posts' = posts + 1
    /\ applied' = applied + IF answer.applied /\ call # "TEST_CONNECTION" THEN 1 ELSE 0
    /\ UNCHANGED <<inputs, fate, http, runs>>

\* The handler returns its output and the processor's UPDATE completes the step; the
\* test answers 200.
Succeed ==
    /\ stage = "answered"
    /\ IF call = "TEST_CONNECTION"
       THEN stage' = "done" /\ http' = 200 /\ UNCHANGED fate
       ELSE stage' = "done" /\ fate' = "COMPLETED" /\ UNCHANGED http
    /\ UNCHANGED <<inputs, error, last, runs, posts, applied>>

\* That UPDATE throws: it is in the same try as the handler, so the catch takes a plain
\* error of the database for one of the step's, after Jira has applied the request.
RecordingFails ==
    /\ stage = "answered" /\ call # "TEST_CONNECTION"
    /\ Raise(PlainError)
    /\ UNCHANGED <<inputs, last, fate, http, runs, posts, applied>>

\* The processor's catch: a retryable error puts the step back to PENDING for the
\* job's next attempt, any other fails it for good.
CatchInProcessor ==
    /\ stage = "raised" /\ call # "TEST_CONNECTION"
    /\ IF error.retryable
       THEN stage' = "idle" /\ fate' = "PENDING"
       ELSE stage' = "done" /\ fate' = "FAILED"
    /\ error' = NoError
    /\ UNCHANGED <<inputs, last, http, runs, posts, applied>>

\* The process dies within the attempt, or the catch's own UPDATE throws: the step stays
\* RUNNING, no attempt can claim it again, and only the recovery settles it.
LeftRunning ==
    /\ stage \notin {"idle", "done"} /\ call # "TEST_CONNECTION"
    /\ stage' = "done" /\ fate' = "RUNNING" /\ error' = NoError
    /\ UNCHANGED <<inputs, last, http, runs, posts, applied>>

\* A technical error's own view of the status is passed on (FateIsJustified).
AnswerErrorSlip ==
    /\ stage = "raised" /\ call = "TEST_CONNECTION"
    /\ stage' = "done"
    /\ http' = IF last # NoError THEN IF last.status = 0 THEN 500 ELSE last.status ELSE error.status
    /\ error' = NoError
    /\ UNCHANGED <<inputs, last, fate, runs, posts, applied>>

\* errorMiddleware: only an operational error decides the status.
AnswerError ==
    /\ stage = "raised" /\ call = "TEST_CONNECTION"
    /\ stage' = "done"
    /\ http' = IF error.operational THEN error.status ELSE 500
    /\ error' = NoError
    /\ UNCHANGED <<inputs, last, fate, runs, posts, applied>>

Next ==
    \/ CheckConfiguration \/ AssertReady
    \/ \E answer \in Answers : CallJira(answer)
    \/ Succeed \/ RecordingFails \/ CatchInProcessor \/ LeftRunning \/ AnswerError

Spec == Init /\ [][Next]_vars

-----------------------------------------------------------------------------------
(* What holds in every state. *)

\* A step is failed for good by its own configuration, by a disabled integration, by an
\* answer with which Jira rejects the request and is not merely slow or busy
\* (normalizeJiraError, 408 and 429 carved out, then the processor's isRetryable), or
\* because the database did not take the record of a request that Jira had applied, and
\* then its effect is on the issue.  The connection test tells the administrator a
\* 4xx exactly when the fault is on this side and final: the integration is off, or
\* Jira rejected the credentials or the request; every passing trouble is a 500 (testConnection, errorMiddleware).
FateIsJustified ==
    /\ fate = "FAILED" =>
           \/ simulate \/ ~ valid \/ ~ enabled
           \/ last.status \in 400 .. 499 /\ last.status \notin {408, 429}
           \/ last = Success /\ applied > 0
    /\ stage = "done" /\ call = "TEST_CONNECTION" =>
           CASE ~ enabled -> http = 400
             [] enabled /\ last.ok -> http = 200
             [] enabled /\ last.status \in {400, 401, 403, 404} -> http = last.status
             [] enabled /\ last.status \in {0, 408, 429} \cup Broken -> http = 500
             [] OTHER -> TRUE

\* A request Jira rejected with one of the mapped statuses is never sent again,
\* though the error carries a code like a network failure does (normalizeJiraError).
MappedRejectionIsFinal ==
    [][ posts' > posts => last = NoError \/ last.status \notin {400, 401, 403, 404} ]_vars

(* What the documentation says and the code does not do. *)

\* docs/jira-errors.md and the comment in normalizeJiraError: any 4xx but 408 and
\* 429 is final; a rejected request is not sent again.
RejectionIsFinal ==
    [][ posts' > posts => last = NoError \/ last.status \notin (400 .. 499) \ {408, 429} ]_vars

===================================================================================
