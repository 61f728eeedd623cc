-------------------------------- MODULE JiraService -------------------------------
(***************************************************************************)
(* The two users of jira.service that meet on one issue: the attempts of a *)
(* JIRA_COMMENT step, whose requests put comments on it, some of them      *)
(* unbeknown to the program, and the recovery's search for the step's      *)
(* marker among them, which may begin before, between or after.            *)
(***************************************************************************)
EXTENDS JiraIntegration

CONSTANTS PageSize, MaxPages, MaxComments, MaxMoves

ASSUME PagesAssumption == PageSize \in Nat \ {0} /\ MaxPages \in Nat \ {0}
ASSUME CommentsAssumption == MaxComments \in Nat /\ MaxMoves \in Nat

VARIABLES total, own, pc, page, startAt, result, depth, newer, upset, moves

Lookup == INSTANCE CommentLookup

lookup  == <<total, own, pc, page, startAt, result, depth, newer, upset, moves>>
service == <<vars, lookup>>

\* Each variable has its type.
ServiceTypeOK == TypeOK /\ Lookup!TypeOK

ServiceInit == Init /\ Lookup!Init

-----------------------------------------------------------------------------------
\* A step's request: what Jira applies of a comment is on the issue from then on,
\* whether or not the answer comes back.
StepCalls(answer) ==
    /\ CallJira(answer)
    /\ IF answer.applied /\ call = "JIRA_COMMENT"
       THEN Lookup!AddComment(TRUE) /\ UNCHANGED moves
       ELSE UNCHANGED lookup

\* The other steps of the attempt are between the program and itself.
StepRuns ==
    /\ \/ CheckConfiguration \/ AssertReady \/ Succeed \/ RecordingFails
       \/ CatchInProcessor \/ LeftRunning \/ AnswerError
    /\ UNCHANGED lookup

\* The recovery's search, of a comment step that has been begun.
SearchBegins == call = "JIRA_COMMENT" /\ runs > 0 /\ Lookup!Begin(enabled) /\ UNCHANGED vars
SearchReads  == (Lookup!FetchPage \/ Lookup!FetchFails) /\ UNCHANGED vars

\* Other people use the issue.
OthersComment ==
    /\ pc # "done" /\ moves < MaxMoves
    /\ \/ Lookup!AddComment(FALSE)
       \/ \E k \in 1 .. total : Lookup!DeleteComment(k)
    /\ moves' = moves + 1
    /\ UNCHANGED vars

ServiceNext ==
    \/ \E answer \in Answers : StepCalls(answer)
    \/ StepRuns \/ SearchBegins \/ SearchReads \/ OthersComment

ServiceSpec == ServiceInit /\ [][ServiceNext]_service

-----------------------------------------------------------------------------------
(* What holds of the two together. *)

\* The recovery completes a step only if Jira applied one of its requests.  And when
\* the search answers null although one had been applied before it began, the
\* integration was off, a page failed, a comment was deleted, or the comment was, with
\* those added meanwhile, beyond the pages it may read: what is posted during the
\* search, by a late attempt or by anybody else, never lets it step over the one it
\* looks for (findCommentByExecutionStepMarker, recoverStaleRunningExecutions).
SearchIsExplained ==
    /\ result => applied > 0
    /\ pc = "done" /\ ~ result /\ depth # 0 /\ ~ upset => depth + newer > PageSize * MaxPages

===================================================================================
