------------------------------- MODULE CommentLookup ------------------------------
(***************************************************************************)
(* findCommentByExecutionStepMarker: the recovery's search for the comment *)
(* that carries a step's marker, page after page, while people and late    *)
(* requests add comments to the issue and delete them.  JiraService puts   *)
(* it beside the requests of the step (JiraIntegration).                   *)
(*                                                                         *)
(* The issue lists its comments newest first, so a comment is known by its *)
(* position: 1 is the newest.  Whose text contains the marker is the set   *)
(* `own`, and nothing else about a comment matters to the search.          *)
(***************************************************************************)
EXTENDS Naturals

CONSTANTS
    PageSize,    \* COMMENT_LOOKUP_PAGE_SIZE
    MaxPages,    \* COMMENT_LOOKUP_MAX_PAGES
    MaxComments, \* bound: comments of other people on the issue at first
    MaxMoves     \* bound: comments other people add or delete

VARIABLES
    total,    \* comments on the issue
    own,      \* positions of those that carry the step's marker
    pc,       \* "idle", "search" between two pages, "done"
    page,     \* pages read
    startAt,  \* the offset of the next page
    result,   \* TRUE when a match was returned, FALSE for null
    depth,    \* where the newest comment of the step stood when the search began
    newer,    \* comments added since
    upset,    \* Jira could not be asked, a page failed, or a comment was deleted since
    moves     \* counter for the bound

issue  == <<total, own>>
search == <<pc, page, startAt, result>>
since  == <<depth, newer, upset, moves>>
vars   == <<issue, search, since>>

TypeOK ==
    /\ total \in Nat
    /\ own \subseteq 1 .. total
    /\ pc \in {"idle", "search", "done"}
    /\ page \in 0 .. MaxPages
    /\ startAt \in Nat
    /\ result \in BOOLEAN
    /\ depth \in Nat /\ newer \in Nat /\ upset \in BOOLEAN /\ moves \in Nat

\* Other people may have commented on the issue before.
Init ==
    /\ total \in 0 .. MaxComments
    /\ own = {}
    /\ pc = "idle" /\ page = 0 /\ startAt = 0 /\ result = FALSE
    /\ depth = 0 /\ newer = 0 /\ upset = FALSE /\ moves = 0

-----------------------------------------------------------------------------------
\* The positions of the page at an offset, and how many comments it has.
PageAt(offset) == {i \in 1 .. total : offset < i /\ i <= offset + PageSize}
PageLength(offset) ==
    IF total <= offset THEN 0 ELSE IF total - offset < PageSize THEN total - offset ELSE PageSize

Newest(positions) == IF positions = {} THEN 0 ELSE CHOOSE i \in positions : \A j \in positions : i <= j

\* isJiraReady: without it the answer is null at once.
Begin(ready) ==
    /\ pc = "idle"
    /\ pc' = IF ready THEN "search" ELSE "done"
    /\ upset' = ~ ready
    /\ depth' = Newest(own)
    /\ UNCHANGED <<issue, page, startAt, result, newer, moves>>

\* The cap on the pages is forgotten (TypeOK).
FetchPageUncapped ==
    /\ pc = "search"
    /\ page' = page + 1
    /\ IF PageAt(startAt) \cap own # {}
       THEN pc' = "done" /\ result' = TRUE /\ UNCHANGED startAt
       ELSE /\ startAt' = startAt + PageLength(startAt)
            /\ UNCHANGED result
            /\ pc' = IF PageLength(startAt) < PageSize \/ startAt' >= total
                     THEN "done" ELSE "search"
    /\ UNCHANGED <<issue, since>>

\* The offset of the next page is counted in pages from one (SearchIsExplained).
FetchPageSkips ==
    /\ pc = "search"
    /\ page' = page + 1
    /\ IF PageAt(startAt) \cap own # {}
       THEN pc' = "done" /\ result' = TRUE /\ UNCHANGED startAt
       ELSE /\ startAt' = (page + 2) * PageSize
            /\ UNCHANGED result
            /\ pc' = IF PageLength(startAt) < PageSize \/ startAt' >= total \/ page' = MaxPages
                     THEN "done" ELSE "search"
    /\ UNCHANGED <<issue, since>>

\* Any comment of GovFlow's is taken for the step's (SearchIsExplained).
FetchPageAny ==
    /\ pc = "search"
    /\ page' = page + 1
    /\ IF PageAt(startAt) # {}
       THEN pc' = "done" /\ result' = TRUE /\ UNCHANGED startAt
       ELSE pc' = "done" /\ UNCHANGED <<startAt, result>>
    /\ UNCHANGED <<issue, since>>

\* One page: a match ends the search; so do the last page, a page that is not
\* full, and the end of the list.
FetchPage ==
    /\ pc = "search"
    /\ page' = page + 1
    /\ IF PageAt(startAt) \cap own # {}
       THEN pc' = "done" /\ result' = TRUE /\ UNCHANGED startAt
       ELSE /\ startAt' = startAt + PageLength(startAt)
            /\ UNCHANGED result
            /\ pc' = IF \/ PageLength(startAt) < PageSize
                        \/ startAt' >= total
                        \/ page' = MaxPages
                     THEN "done" ELSE "search"
    /\ UNCHANGED <<issue, since>>

\* Jira is unreachable or answers with an error: the catch returns null.
FetchFails ==
    /\ pc = "search"
    /\ pc' = "done"
    /\ upset' = TRUE
    /\ UNCHANGED <<issue, page, startAt, result, depth, newer, moves>>

\* A comment is added, with the marker or without it.
AddComment(mine) ==
    /\ total' = total + 1
    /\ own' = {i \in 1 .. total' : i - 1 \in own} \cup (IF mine THEN {1} ELSE {})
    /\ newer' = IF pc = "search" THEN newer + 1 ELSE newer
    /\ UNCHANGED <<search, depth, upset>>

\* A comment is deleted and the older ones move up.
DeleteComment(k) ==
    /\ total' = total - 1
    /\ own' = {i \in 1 .. total - 1 : IF i < k THEN i \in own ELSE i + 1 \in own}
    /\ upset' = (upset \/ pc = "search")
    /\ UNCHANGED <<search, depth, newer>>

===================================================================================
