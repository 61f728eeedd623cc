---------------------------------- MODULE Listing ---------------------------------
(***************************************************************************)
(* A caller who reads one of the five lists of the API page after page,    *)
(* GET /workflows, /workflow-executions, /users, /departments or           *)
(* /audit-logs, while rows join it and change.  The five services are one  *)
(* handler but for their filters and their scope: it validates, narrows    *)
(* the filters to what the caller may see, and makes its answer from two   *)
(* queries at once.                                                        *)
(*                                                                         *)
(* Each row of the table has a place in the order of the list.  A new row  *)
(* may get any: departments are ordered by name, the others by created_at, *)
(* the start of a transaction, and the row is seen when that commits.  A   *)
(* name is unique; a created_at is not, the two audit logs of the seeds    *)
(* have one, and nothing else is in the ORDER BY: rows that share a place  *)
(* come in any order, in another for each query.  No row is deleted or     *)
(* changes its department; `flag` says whether it has the status, the      *)
(* is_active, or whatever else the query may ask for besides.  Both are    *)
(* kept only for walks that look at them.                                  *)
(***************************************************************************)
EXTENDS Integers, FiniteSets

CONSTANTS
    Rows,         \* ids of rows
    Departments,
    NoDept,       \* a NULL department_id, or no filter on it
    DefaultLimit, \* 20 in the code
    MaxLimit,     \* 100 in the code
    Limits,       \* bound: the limits asked for, 0 when it is absent or no number
    MaxStart,     \* bound: the rows that are there at the start
    MaxChanges    \* bound: rows that join or leave what is listed during the walk

ASSUME ListingAssumption ==
    /\ IsFiniteSet(Rows) /\ NoDept \notin Departments
    /\ DefaultLimit \in 1 .. MaxLimit /\ MaxLimit \in Nat
    /\ Limits \subseteq Int /\ MaxStart \in Nat /\ MaxChanges \in Nat

Lists == {"workflows", "executions", "users", "departments", "audits"}

VARIABLES
    list,      \* the list that is read
    place,     \* the place of each row in its order, 0 when the row is not there
    dept,      \* the department of each row, of an execution that of its workflow
    flag,      \* whether each row has what the query may ask for
    requester, \* req.user: role and department_id
    asked,     \* the query string
    page,      \* the page the caller is at
    pc,        \* "new", "ask", "queries" while the answer is made, "done"
    code,      \* the HTTP status of the last answer
    items,     \* what findAll returned for the answer
    total,     \* what countAll returned
    owed,      \* which of the two queries are still out
    seen,      \* every row the caller was shown
    alone,     \* how often a row was shown again that had its place to itself
    tied,      \* how often one that shared it
    since      \* what happened during the walk, see NoHistory

rows   == <<list, place, dept, flag>>
caller == <<requester, asked>>
answer == <<page, pc, code, items, total, owed>>
walk   == <<seen, alone, tied>>
vars   == <<rows, caller, answer, walk, since>>

MaybeDept == Departments \cup {NoDept}
\* The department of an ADMIN is never looked at.
Requester == [role : {"ADMIN", "MANAGER"}, department : MaybeDept]
Admin == [role |-> "ADMIN", department |-> NoDept]

\* A filter on the department, in the spelling of the database or in upper case, which
\* a UUID may have too; one on the flag, "other" when it is none of the known values;
\* and the limit, 0 when it is absent or no number.
Query == [department : MaybeDept, upper : BOOLEAN, flag : {"any", "yes", "no", "other"},
          limit : Limits]

\* The rows the walk owes the caller: those it was allowed and asked for, all along;
\* how many rows joined and which left them; whether one joined between an answer's
\* count and its rows.
NoHistory == [owes |-> {}, joined |-> 0, left |-> {}, split |-> FALSE]

\* The rows of the table, and its order.
Table == {r \in Rows : place[r] > 0}

Places == {place[r] : r \in Table}

\* No two departments have one name.
Arranged == list = "departments" => \A r, q \in Table : place[r] = place[q] => r = q

\* Each variable has its type, a row that is not in the table has no properties yet, and
\* no answer is larger than the limit allows.
TypeOK ==
    /\ list \in Lists
    /\ place \in [Rows -> Nat] /\ Arranged
    /\ dept \in [Rows -> MaybeDept] /\ flag \in [Rows -> BOOLEAN]
    /\ \A r \in Rows \ Table : dept[r] = NoDept /\ ~ flag[r]
    /\ requester \in Requester
    /\ pc # "new" => asked \in Query
    /\ page \in Nat \ {0} /\ pc \in {"new", "ask", "queries", "done"}
    /\ code \in {"none", "200", "400", "500"}
    /\ items \subseteq Rows /\ Cardinality(items) <= MaxLimit
    /\ total \in 0 .. Cardinality(Table)
    /\ owed \subseteq {"findAll", "countAll"}
    /\ seen \subseteq Rows /\ alone \in Nat /\ tied \in Nat
    /\ since \in [owes : SUBSET Rows, joined : Nat, left : SUBSET Rows, split : BOOLEAN]

-----------------------------------------------------------------------------------
(* Who may see what: workflowsAccess, workflowExecutionAccess, and the roles of the *)
(* routes. *)

Scoped == list \in {"workflows", "executions"}

CanAccess(r) ==
    \/ ~ Scoped \/ requester.role = "ADMIN"
    \/ requester.department # NoDept /\ dept[r] = requester.department

Scope == IF Scoped /\ requester.role # "ADMIN"
         THEN [scoped |-> TRUE, department |-> requester.department]
         ELSE [scoped |-> FALSE, department |-> NoDept]

\* A scope without a department, or one the query string contradicts, in the spelling
\* it came in: nothing is asked of the database.
NothingInScope ==
    /\ Scope.scoped
    /\ \/ Scope.department = NoDept
       \/ asked.department # NoDept /\ (asked.upper \/ asked.department # Scope.department)

\* normalizedFilters.departmentId, and the WHERE clause both queries are built with.
FilterDepartment == IF Scope.scoped THEN Scope.department ELSE asked.department

\* Whether the query looks at the flags of rows, and at their departments.
Filtered(query) == query.flag \in {"yes", "no"}
Divided(who, query) == query.department # NoDept \/ (Scoped /\ who.role # "ADMIN")

FlagMatches(r, flags) == Filtered(asked) => (flags[r] <=> asked.flag = "yes")

Matches(r, flags) ==
    /\ FilterDepartment # NoDept => dept[r] = FilterDepartment
    /\ FlagMatches(r, flags)

Matching == {r \in Table : Matches(r, flag)}

\* What the caller asked for, seen from the rules of access: what findById would
\* give it, narrowed by the filters of the query string, the department first.
InScope(r) == CanAccess(r) /\ (asked.department # NoDept => dept[r] = asked.department)

Wanted(r, flags) == InScope(r) /\ FlagMatches(r, flags)

\* Another row that the caller may see and asked for has the place of this one.
Tied(r) == \E q \in Table \ {r} : place[q] = place[r] /\ InScope(q)

\* Math.min(Math.max(Number(limit) || 20, 1), 100).
SafeLimit ==
    IF asked.limit = 0 THEN DefaultLimit
    ELSE IF asked.limit < 1 THEN 1
    ELSE IF asked.limit > MaxLimit THEN MaxLimit ELSE asked.limit

\* Only workflows and users can be asked for by department, and only some rows have one.
HasDepartment == list \in {"workflows", "executions", "users"}
AsksDepartment == list \in {"workflows", "users"}

Init ==
    /\ list \in Lists
    /\ place \in [Rows -> 0 .. MaxStart] /\ Arranged /\ Places = 1 .. Cardinality(Places)
    /\ Cardinality(Table) <= MaxStart
    /\ dept \in [Rows -> IF HasDepartment THEN MaybeDept ELSE {NoDept}]
    /\ flag \in [Rows -> BOOLEAN]
    /\ \A r \in Rows \ Table : dept[r] = NoDept /\ ~ flag[r]
    /\ requester = Admin
    /\ asked = [department |-> NoDept, upper |-> FALSE, flag |-> "any", limit |-> DefaultLimit]
    /\ page = 1 /\ pc = "new" /\ code = "none" /\ items = {} /\ total = 0 /\ owed = {}
    /\ seen = {} /\ alone = 0 /\ tied = 0 /\ since = NoHistory

-----------------------------------------------------------------------------------
\* Who reads, and what the query string says: GET /users is for an ADMIN only, and no
\* ADMIN's filter is compared with anything but by the database, in either spelling.
Begin(who, query) ==
    /\ pc = "new"
    /\ who.role = "ADMIN" => who = Admin
    /\ list = "users" => who = Admin
    /\ query.department # NoDept => AsksDepartment
    /\ ~ Filtered(query) => \A r \in Rows : ~ flag[r]
    /\ ~ Divided(who, query) => \A r \in Rows : dept[r] = NoDept
    /\ query.upper => query.department # NoDept /\ who.role = "MANAGER"
    /\ requester' = who /\ asked' = query
    /\ pc' = "ask"
    /\ UNCHANGED <<rows, page, code, items, total, owed, walk>>
    /\ since' = [NoHistory EXCEPT !.owes = {r \in Table : Wanted(r, flag)'}]

End(status) == pc' = "done" /\ code' = status

\* The validators of the filters know their values, but for a date of the audit logs:
\* anything JavaScript takes for one.
FiltersValid == asked.flag = "other" => list = "audits"

\* What PostgreSQL is asked: a date that it does not know fails both queries.
FiltersFit == asked.flag # "other"

\* The override of the filter forgets that the two may differ (ListIsInScope).
AskUnscoped ==
    /\ pc = "ask"
    /\ IF FiltersValid THEN pc' = "queries" /\ owed' = {"findAll", "countAll"} /\ UNCHANGED code
                       ELSE End("400") /\ UNCHANGED owed
    /\ UNCHANGED <<rows, caller, page, items, total, walk, since>>

\* The handler validates, checks the scope and starts both queries with Promise.all, or
\* answers with an empty page.
Ask ==
    /\ pc = "ask"
    /\ IF ~ FiltersValid THEN End("400") /\ UNCHANGED owed
       ELSE IF NothingInScope THEN End("200") /\ UNCHANGED owed
       ELSE pc' = "queries" /\ owed' = {"findAll", "countAll"} /\ UNCHANGED code
    /\ UNCHANGED <<rows, caller, page, items, total, walk, since>>

\* The orders PostgreSQL may give the rows that match: that of the list, with the rows
\* that share a place as they come.
Sortings ==
    {sort \in [Matching -> 1 .. Cardinality(Matching)] :
        \A r, q \in Matching : /\ sort[r] = sort[q] => r = q
                               /\ place[r] < place[q] => sort[r] < sort[q]}

\* LIMIT and OFFSET over the rows in order, from an offset.
PageFrom(offset) ==
    /\ "findAll" \in owed /\ FiltersFit
    /\ owed' = owed \ {"findAll"}
    /\ \E sort \in Sortings :
          items' = {r \in Matching : sort[r] \in offset + 1 .. offset + SafeLimit}
    /\ UNCHANGED <<rows, caller, page, pc, code, total, walk, since>>

\* The pages overlap by one (RepeatsAreExplained), or are counted by the limit that was
\* asked for (MissIsExplained).
FindAllOverlaps == PageFrom(IF page = 1 THEN 0 ELSE (page - 1) * SafeLimit - 1)
FindAllByAsked  == PageFrom((page - 1) * (IF asked.limit < 1 THEN SafeLimit ELSE asked.limit))

FindAll == PageFrom((page - 1) * SafeLimit)

\* The count joins another table and counts rows twice (TypeOK).
CountAllJoined ==
    /\ "countAll" \in owed /\ FiltersFit
    /\ owed' = owed \ {"countAll"}
    /\ total' = 2 * Cardinality(Matching)
    /\ UNCHANGED <<rows, caller, page, pc, code, items, walk, since>>

CountAll ==
    /\ "countAll" \in owed /\ FiltersFit
    /\ owed' = owed \ {"countAll"}
    /\ total' = Cardinality(Matching)
    /\ UNCHANGED <<rows, caller, page, pc, code, items, walk, since>>

\* The first query to fail makes the answer.
QueryFails ==
    /\ pc = "queries" /\ owed # {}
    /\ End("500")
    /\ owed' = {} /\ items' = {} /\ total' = 0
    /\ UNCHANGED <<rows, caller, page, walk, since>>

TotalPages == (total + SafeLimit - 1) \div SafeLimit

\* The answer: the caller notes the rows and asks for the next page while
\* pagination says that there is one.
Answer ==
    /\ pc = "queries" /\ owed = {}
    /\ seen' = seen \cup items
    /\ alone' = alone + Cardinality({r \in items \cap seen : ~ Tied(r)})
    /\ tied' = tied + Cardinality({r \in items \cap seen : Tied(r)})
    /\ IF page < TotalPages THEN page' = page + 1 /\ pc' = "ask" /\ code' = "200"
                            ELSE End("200") /\ UNCHANGED page
    /\ items' = {} /\ total' = 0
    /\ UNCHANGED <<rows, caller, owed, since>>

-----------------------------------------------------------------------------------
(* What others do meanwhile. *)

\* From the first answer on: what happens before is how the walk finds the list.
Walking ==
    /\ pc = "queries" \/ (pc = "ask" /\ page > 1)
    /\ since.joined + Cardinality(since.left) < MaxChanges

\* The rows of the answer have been counted, but not yet read.
Between == pc = "queries" /\ owed = {"findAll"}

\* Rows join or leave what the walk lists.
Note(joined, left, owes) ==
    since' = [since EXCEPT !.joined = @ + joined, !.left = @ \cup left, !.owes = owes,
                           !.split = @ \/ (Between /\ joined > 0)]

\* A row joins at a place of its own, which the later ones make room for, or at one
\* that others have.
AddRow(r, at, shares, department, f) ==
    /\ Walking
    /\ r \notin Table
    /\ department # NoDept => HasDepartment /\ Divided(requester, asked)
    /\ f => Filtered(asked)
    /\ shares => list # "departments" /\ at \in Places
    /\ place' = [q \in Rows |-> IF q = r THEN at
                                ELSE IF shares \/ place[q] < at THEN place[q] ELSE place[q] + 1]
    /\ dept' = [dept EXCEPT ![r] = department]
    /\ flag' = [flag EXCEPT ![r] = f]
    /\ UNCHANGED <<list, caller, answer, walk>>
    /\ Note(IF Matches(r, flag)' THEN 1 ELSE 0, {}, since.owes)

\* PATCH /workflows/:id, or an execution that gets a status and leaves it for good; no
\* other row has anything that changes.
Change(r) ==
    /\ Walking
    /\ r \in Table
    /\ Scoped /\ Filtered(asked)
    /\ list = "executions" => r \notin since.left
    /\ flag' = [flag EXCEPT ![r] = ~ @]
    /\ LET was == Matches(r, flag)   is == Matches(r, flag')
       IN Note(IF is /\ ~ was THEN 1 ELSE 0, IF was /\ ~ is THEN {r} ELSE {},
               IF Wanted(r, flag') THEN since.owes ELSE since.owes \ {r})
    /\ UNCHANGED <<list, place, dept, caller, answer, walk>>

Next ==
    \/ \E who \in Requester, query \in Query : Begin(who, query)
    \/ Ask \/ FindAll \/ CountAll \/ QueryFails \/ Answer
    \/ \E r \in Rows :
          \/ Change(r)
          \/ \E at \in 1 .. Cardinality(Places) + 1, shares, f \in BOOLEAN, d \in MaybeDept :
                AddRow(r, at, shares, d, f)

Spec == Init /\ [][Next]_vars

-----------------------------------------------------------------------------------
(* What holds in every state. *)

\* The list shows nothing that a request for the single row would hide, and nothing
\* outside the department that was asked for, though the scope overrides that filter
\* (resolveListDepartmentScope against canAccessWorkflow and canAccessExecution).
ListIsInScope == \A r \in seen : InScope(r)

\* Who reads to the last page, with whatever limit, has been shown every row that was
\* there, and its to see, all along, but for rows that share their created_at with
\* another, unless one left the list meanwhile, or one joined it after an answer was
\* counted and before it was read: rows that join else never hide one that has its
\* place to itself.  Only a MANAGER who spells its own department in capitals is shown
\* nothing (the five list services, ORDER BY without a tie-breaker).
MissIsExplained ==
    pc = "done" /\ code = "200" =>
        \/ \A r \in since.owes \ seen : Tied(r)
        \/ since.left # {} \/ since.split
        \/ requester.role = "MANAGER" /\ asked.upper

\* Every row with a place to itself that is shown again is paid for by a row that joined
\* the list: each pushes one row over the edge of a page that was read, and no more
\* (ORDER BY with an OFFSET).  A row that shares its place may come again for nothing,
\* but then in the stead of another: all repeats together are paid for by the rows that
\* joined and by those that were listed and have not been shown.
RepeatsAreExplained ==
    /\ alone <= since.joined
    /\ alone + tied <= since.joined + Cardinality((since.owes \cup since.left) \ seen)

===================================================================================
