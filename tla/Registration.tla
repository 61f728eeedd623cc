------------------------------- MODULE Registration -------------------------------
(***************************************************************************)
(* Requests that race to create users and departments: each looks for the  *)
(* email or the name first, and the UNIQUE column has the last word when   *)
(* it inserts, long after for a user, whose password is hashed between.    *)
(* Beside them log-ins and manual audit logs, and the audit log each of    *)
(* these leaves behind, or loses.                                          *)
(*                                                                         *)
(* An email or a name is a word in a spelling: the look-ups ignore the     *)
(* case (LOWER), the UNIQUE columns do not.  Of a body there is the        *)
(* verdict of RequestInput.  Nothing deletes or renames a row, and no      *)
(* endpoint deactivates a user.                                            *)
(***************************************************************************)
EXTENDS Naturals, FiniteSets, RequestInput

CONSTANTS
    Words,    \* emails and names, their case left aside
    NoDept,   \* a user without a department
    Requests, \* requests to POST /users, /departments, /audit-logs and /auth/login
    Seed,     \* who makes the rows of the seeds
    MaxOdd    \* bound: requests whose body is refused, by a validator or the database

ASSUME RegistrationAssumption == Seed \notin Requests /\ MaxOdd \in Nat
ASSUME NoDeptAssumption == NoDept \notin [word : Words, spelling : {"lower", "mixed"}]

Key   == [word : Words, spelling : {"lower", "mixed"}]
User  == [email : Key, department : Key \cup {NoDept}]
Kinds == {"user", "department", "audit", "login"}

VARIABLES
    users,       \* the rows of users
    departments, \* the rows of departments, with who made them
    audits,      \* the requests an audit log tells of
    pc,          \* where each request stands
    req,         \* what it asks for
    answer,      \* its HTTP status
    knew,        \* the spellings of its department that were there when it arrived
    missed,      \* requests that did not find what a 404 or 401 says is not there
    excused      \* requests that may be told 500

rows    == <<users, departments, audits>>
request == <<pc, req, answer>>
history == <<knew, missed, excused>>
account == <<rows, request, history>>

Emails == {u.email : u \in users}
Names  == {d.name : d \in departments}

\* What a request that has not arrived asks for.
Nothing == [kind |-> "audit", key |-> CHOOSE k \in Key : TRUE, department |-> NoDept, misfit |-> "none"]

TypeOK ==
    /\ users \subseteq User
    /\ departments \subseteq [name : Key, maker : Requests \cup {Seed}]
    /\ audits \subseteq Requests
    /\ pc \in [Requests -> {"new", "arrived", "free", "placed", "written", "done"}]
    /\ req \in [Requests -> [kind : Kinds, key : Key, department : Key \cup {NoDept}, misfit : Misfits]]
    /\ answer \in [Requests -> {"none", "200", "201", "400", "401", "404", "409", "500", "lost"}]
    /\ knew \in [Requests -> SUBSET Key]
    /\ missed \subseteq Requests /\ excused \subseteq Requests
    /\ \A u \in users : u.department \in Names \cup {NoDept}

Init ==
    /\ audits = {}
    /\ pc = [r \in Requests |-> "new"]
    /\ req = [r \in Requests |-> Nothing]
    /\ answer = [r \in Requests |-> "none"]
    /\ knew = [r \in Requests |-> {}]
    /\ missed = {} /\ excused = {}

-----------------------------------------------------------------------------------
Goto(r, place) == pc' = [pc EXCEPT ![r] = place] /\ UNCHANGED <<req, answer>>

\* The handler ends.  What was asked for is only remembered where the answer speaks of it.
Answer(r, code) ==
    /\ pc' = [pc EXCEPT ![r] = "done"]
    /\ answer' = [answer EXCEPT ![r] = code]
    /\ req' = IF code \in {"400", "401", "404", "500", "lost"} THEN [req EXCEPT ![r] = Nothing] ELSE req

Asks(r, kind, place) == pc[r] = place /\ req[r].kind = kind

VerdictsOf(kind) ==
    CASE kind = "user" -> UserVerdicts
      [] kind = "department" -> DepartmentVerdicts
      [] kind = "audit" -> AuditVerdicts
      [] kind = "login" -> LoginVerdicts

\* A body that is no good changes nothing, so a few at a time are enough.
Expected(verdict) ==
    verdict = Plain \/ Cardinality({r \in Requests : answer[r] = "400" \/ req[r].misfit # "none"}) < MaxOdd

\* The caller is an ADMIN, whom authMiddleware reads from the table, or logs in.
MayArrive(r, kind, verdict) ==
    /\ pc[r] = "new"
    /\ kind = "login" \/ users # {}
    /\ Expected(verdict)
    /\ UNCHANGED <<rows, missed, excused>>

\* A body the validators refuse is answered at once.
ArriveRefused(r, kind, verdict) ==
    /\ MayArrive(r, kind, verdict) /\ ~ verdict.accepted
    /\ Answer(r, "400")
    /\ UNCHANGED knew

Arrive(r, kind, key, department, verdict) ==
    /\ MayArrive(r, kind, verdict) /\ verdict.accepted
    /\ kind # "user" => department = NoDept
    /\ kind = "audit" => key = Nothing.key
    /\ pc' = [pc EXCEPT ![r] = "arrived"]
    /\ req' = [req EXCEPT ![r] = [kind |-> kind, key |-> key, department |-> department,
                                 misfit |-> verdict.misfit]]
    /\ knew' = [knew EXCEPT ![r] = IF kind = "department" THEN {k \in Names : k.word = key.word} ELSE {}]
    /\ UNCHANGED answer

\* LOWER(column) = LOWER($1).
Found(key, keys) == \E k \in keys : k.word = key.word

\* The email is only trimmed too (OneAccountPerAddress).
NormalizedTrimmed(r) == req[r].key

\* email.trim().toLowerCase(); a name is only trimmed.
Normalized(r) ==
    IF req[r].kind = "department" THEN req[r].key ELSE [req[r].key EXCEPT !.spelling = "lower"]

\* The look-up has the case of the constraint (DoublesRaced).
LookUpExact(r) ==
    /\ pc[r] = "arrived" /\ req[r].kind \in {"user", "department"} /\ req[r].misfit # "key"
    /\ IF Normalized(r) \in (IF req[r].kind = "user" THEN Emails ELSE Names)
       THEN Answer(r, "409")
       ELSE Goto(r, IF req[r].kind = "user" THEN "free" ELSE "placed")
    /\ UNCHANGED <<rows, history>>

\* findByEmail or findByName: the race is on from here.
LookUp(r) ==
    /\ pc[r] = "arrived" /\ req[r].kind \in {"user", "department"} /\ req[r].misfit # "key"
    /\ IF Found(Normalized(r), IF req[r].kind = "user" THEN Emails ELSE Names)
       THEN Answer(r, "409")
       ELSE Goto(r, IF req[r].kind = "user" THEN "free" ELSE "placed")
    /\ UNCHANGED <<rows, history>>

\* The department is not looked up and no foreign key catches it (TypeOK).
CheckDepartmentSlip(r) ==
    /\ pc[r] = "free"
    /\ Goto(r, "placed")
    /\ UNCHANGED <<rows, history>>

\* createUser asks for the department, if it was given one, and hashes the password.
CheckDepartment(r) ==
    /\ pc[r] = "free"
    /\ IF req[r].department \in Names \cup {NoDept}
       THEN Goto(r, "placed") /\ UNCHANGED missed
       ELSE Answer(r, "404") /\ missed' = missed \cup {r}
    /\ UNCHANGED <<rows, knew, excused>>

\* A row is in; its connection, or the process, may be lost before the code hears of it.
Written(r) ==
    \/ Goto(r, "written") /\ UNCHANGED excused
    \/ \E code \in {"500", "lost"} : Answer(r, code) /\ excused' = excused \cup {r}

\* The catch does not know 23505 (AnswerIsTrue).
InsertUserUncaught(r) ==
    /\ Asks(r, "user", "placed") /\ req[r].misfit = "none"
    /\ IF Normalized(r) \in Emails
       THEN Answer(r, "500") /\ UNCHANGED <<users, excused>>
       ELSE /\ users' = users \cup {[email |-> Normalized(r), department |-> req[r].department]}
            /\ Written(r)
    /\ UNCHANGED <<departments, audits, knew, missed>>

\* The INSERT; a 23505 of the UNIQUE email is answered as the look-up would have.
\* A 23503 cannot occur: the department was there and none is deleted.
InsertUser(r) ==
    /\ Asks(r, "user", "placed") /\ req[r].misfit = "none"
    /\ IF Normalized(r) \in Emails
       THEN Answer(r, "409") /\ UNCHANGED <<users, excused>>
       ELSE /\ users' = users \cup {[email |-> Normalized(r), department |-> req[r].department]}
            /\ Written(r)
    /\ UNCHANGED <<departments, audits, knew, missed>>

InsertDepartment(r) ==
    /\ Asks(r, "department", "placed") /\ req[r].misfit = "none"
    /\ IF Normalized(r) \in Names
       THEN Answer(r, "409") /\ UNCHANGED <<departments, excused>>
       ELSE /\ departments' = departments \cup {[name |-> Normalized(r), maker |-> r]}
            /\ Written(r)
    /\ UNCHANGED <<users, audits, knew, missed>>

\* safeRegisterAuditLog after a row or a log-in, whose failure is only logged.
RegisterAudit(r) ==
    /\ pc[r] = "written"
    /\ audits' = audits \cup {r} \/ UNCHANGED audits
    /\ Answer(r, IF req[r].kind # "login" THEN "201" ELSE IF r \in missed THEN "401" ELSE "200")
    /\ UNCHANGED <<users, departments, history>>

\* registerManual: here the audit log is all there is to write.
RegisterManual(r) ==
    /\ Asks(r, "audit", "arrived") /\ req[r].misfit = "none"
    /\ audits' = audits \cup {r}
    /\ \/ Answer(r, "201") /\ UNCHANGED excused
       \/ \E code \in {"500", "lost"} : Answer(r, code) /\ excused' = excused \cup {r}
    /\ UNCHANGED <<users, departments, knew, missed>>

\* login: one user or the dummy hash to compare the password with.  The caller does
\* not learn which of the two did not match.
Login(r) ==
    /\ Asks(r, "login", "arrived") /\ req[r].misfit # "key"
    /\ \E matches \in BOOLEAN :
          missed' = IF Found(Normalized(r), Emails) /\ matches THEN missed ELSE missed \cup {r}
    /\ Goto(r, "written")
    /\ UNCHANGED <<rows, knew, excused>>

\* The database refuses a body that was let through: what is looked up first at once,
\* the rest in the INSERT.  No validator looks for U+0000, or at an email that is
\* longer in lower case, which excuses the 500; another text too wide is not excused.
DatabaseRefuses(r) ==
    /\ \/ req[r].misfit = "key" /\ pc[r] = "arrived"
       \/ req[r].misfit \in {"width", "text", "email"} /\ (pc[r] = "placed" \/ Asks(r, "audit", "arrived"))
    /\ Answer(r, "500")
    /\ excused' = IF req[r].misfit = "width" THEN excused ELSE excused \cup {r}
    /\ UNCHANGED <<rows, knew, missed>>

\* A statement fails, or the process dies.
RequestBreaks(r) ==
    /\ pc[r] \notin {"new", "done"}
    /\ \E code \in {"500", "lost"} : Answer(r, code)
    /\ excused' = excused \cup {r}
    /\ UNCHANGED <<rows, knew, missed>>

RequestSteps(r) ==
    \/ LookUp(r) \/ CheckDepartment(r) \/ InsertUser(r) \/ InsertDepartment(r)
    \/ RegisterAudit(r) \/ RegisterManual(r) \/ Login(r)
    \/ DatabaseRefuses(r) \/ RequestBreaks(r)

-----------------------------------------------------------------------------------
(* What holds in every state. *)

\* No two users have the same email but for its case, whoever races to register it:
\* the login, which ignores the case, finds one user at most (createUser).
OneAccountPerAddress ==
    \A u, v \in users : u.email.word = v.email.word => u = v

\* What a caller is told is so: a 201 made a row that stays, a 409 is about a row
\* that is there, a 404 or a 401 about one that was not, a 200 logs in somebody, only a
\* failing database or a body it cannot store is a 500, and an audit log tells of a row
\* that was made or of a log-in: who loses the race is told 409 (createUser,
\* createDepartment, login, registerManual).
AnswerIsTrue ==
    \A r \in Requests : LET keys == IF req[r].kind = "department" THEN Names ELSE Emails IN
        /\ answer[r] = "201" /\ req[r].kind # "audit" => Normalized(r) \in keys
        /\ answer[r] = "201" /\ req[r].kind = "audit" => r \in audits
        /\ answer[r] \in {"200", "409"} => Found(Normalized(r), keys)
        /\ answer[r] \in {"401", "404"} => r \in missed
        /\ answer[r] = "200" => r \notin missed
        /\ answer[r] = "500" => r \in excused
        /\ r \in audits => answer[r] \notin {"400", "404", "409"}

===================================================================================
