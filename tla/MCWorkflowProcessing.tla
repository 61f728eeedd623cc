--------------------------- MODULE MCWorkflowProcessing ---------------------------
(***************************************************************************)
(* Small instances of WorkflowProcessing for TLC.                          *)
(***************************************************************************)
EXTENDS WorkflowInvariants, TLC

OneComment      == <<"JIRA_COMMENT">>
CommentThenMove == <<"JIRA_COMMENT", "JIRA_TRANSITION">>
CommentThenNote == <<"JIRA_COMMENT", "NOTIFICATION">>

\* Workers are interchangeable, and so are recoveries; for safety runs only.
ActorSymmetry == Permutations(Workers) \cup Permutations(Recoverers)

===================================================================================
