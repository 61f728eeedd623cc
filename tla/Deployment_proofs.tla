----------------------------- MODULE Deployment_proofs -----------------------------
(***************************************************************************)
(* Proofs about Deployment for any number of migration files, any runs of  *)
(* the scripts, any requests and any words.                                *)
(*                                                                         *)
(* DeploymentInv is inductive.  Its parts follow the three actors: what a  *)
(* runner has still to do, what a seeder holds, and what a request knows.  *)
(***************************************************************************)
EXTENDS Deployment, RequestInput_proofs, WellFoundedInduction

-----------------------------------------------------------------------------------
(* The invariant. *)

\* Files are recorded in order, and what a runner has not before it any more is.
MigrationsInv ==
    /\ M!MigrationsAreWhole
    /\ \A m \in Runners : at[m] \in {"loop", "begun", "waiting", "applied", "inserted"} =>
          (1 .. Files) \ pending[m] \subseteq recorded

\* What a seeder's transaction holds is not there yet, and nobody else holds it.
HeldIsMissing ==
    /\ \A s \in Seeders :
          /\ seedAt[s] \notin {"audited", "inserted"} => held[s] = {}
          /\ seedAt[s] = "audited" =>
                held[s] \subseteq {"audit"} /\ 1 \in tables /\ (held[s] = {} => seeded > 0)
          /\ seedAt[s] \in {"rows", "inserted"} => seeded > 0
          /\ seedAt[s] = "inserted" =>
                /\ held[s] \subseteq {"department", "user"} /\ {2, 3} \subseteq tables
                /\ "department" \in held[s] \/ SeedDepartment \in Names
                /\ "user" \in held[s] \/ SeedEmail \in Emails
          /\ "department" \in held[s] => SeedDepartment \notin Names
          /\ "user" \in held[s] => SeedEmail \notin Emails
    /\ \A s, t \in Seeders : s # t => held[s] \cap held[t] \subseteq {"audit"}

SeedsInv ==
    /\ HeldIsMissing
    /\ seedZero => SeedEmail \in Emails /\ SeedDepartment \in Names /\ seeded > 0
    /\ \A s \in late : seeded > 0 /\ "audit" \notin held[s]

\* Emails are in lower case, a row of either table is known by its key, and a request
\* that goes on to insert has seen what it looked for.
RequestsInv ==
    /\ \A r \in Requests :
          /\ pc[r] # "new" => zero /\ seedZero
          /\ pc[r] = "free" => req[r].kind = "user"
          /\ Asks(r, "user", "placed") => req[r].department \in Names \cup {NoDept}
          /\ Asks(r, "department", "arrived") => knew[r] \subseteq {k \in Names : k.word = req[r].key.word}
          /\ Asks(r, "department", "placed") => knew[r] = {}
    /\ \A u \in users : u.email.spelling = "lower"
    /\ \A u, v \in users : u.email = v.email => u = v
    /\ \A d, e \in departments : d.name = e.name => d = e
    /\ \A d \in departments : d.maker \in Requests =>
          knew[d.maker] = {} /\ pc[d.maker] \in {"written", "done"}

DeploymentInv == DeploymentTypeOK /\ MigrationsInv /\ SeedsInv /\ RequestsInv

-----------------------------------------------------------------------------------
(* The migrations. *)

\* The file a runner is at is the first of those it has still to apply.
LEMMA FirstPending ==
  ASSUME NEW m \in Runners, pending[m] \subseteq 1 .. Files, pending[m] # {}
  PROVE  M!File(m) \in pending[m] /\ \A g \in pending[m] : M!File(m) <= g
  <1>1. \E f \in pending[m] : \A g \in pending[m] : ~ (<<g, f>> \in OpToRel(<, Nat))
    <2>1. pending[m] \subseteq Nat
      BY DeploymentAssumption
    <2> QED BY <2>1, WFMin, NatLessThanWellFounded, Zenon
  <1>2. \E f \in pending[m] : \A g \in pending[m] : f <= g
    <2>1. PICK f \in pending[m] : \A g \in pending[m] : ~ (<<g, f>> \in OpToRel(<, Nat))
      BY <1>1
    <2>2. ASSUME NEW g \in pending[m] PROVE f <= g
      <3>1. f \in Nat /\ g \in Nat
        BY DeploymentAssumption
      <3>2. ~ (g < f)
        BY <2>1, <3>1, Zenon DEF OpToRel
      <3> QED BY <3>1, <3>2
    <2> QED BY <2>2
  <1> QED BY <1>2 DEF M!File

\* Whatever a runner does, files are recorded in order and with their tables, and it
\* exits with 0 only when none is missing.
LEMMA MigrationsStep ==
  ASSUME M!TypeOK, MigrationsInv, NEW m \in Runners, M!RunnerSteps(m)
  PROVE  M!TypeOK' /\ MigrationsInv' /\ tables \subseteq tables' /\ (zero => zero')
  <1> USE DeploymentAssumption
      DEF M!TypeOK, M!Places, MigrationsInv, M!MigrationsAreWhole, M!ledger
  <1>1. CASE M!Start(m)
    BY <1>1 DEF M!Start, M!Goto
  <1>2. CASE M!EnsureMigrationsTable(m)
    BY <1>2 DEF M!EnsureMigrationsTable, M!Goto, M!Exit
  <1>3. CASE M!GetExecutedMigrations(m)
    <2>1. CASE (1 .. Files) \ recorded = {}
      <3>1. recorded = 1 .. Files
        BY <2>1
      <3> QED BY <1>3, <2>1, <3>1 DEF M!GetExecutedMigrations, M!Exit
    <2>2. CASE (1 .. Files) \ recorded # {}
      <3>1. /\ at' = [at EXCEPT ![m] = "loop"]
            /\ pending' = [pending EXCEPT ![m] = (1 .. Files) \ recorded]
            /\ UNCHANGED <<tables, recorded, zero>>
        BY <1>3, <2>2 DEF M!GetExecutedMigrations
      <3>2. \A n \in Runners : n # m => at'[n] = at[n] /\ pending'[n] = pending[n]
        BY <3>1
      <3>3. at'[m] = "loop" /\ pending'[m] = (1 .. Files) \ recorded
        BY <3>1
      <3>4. (1 .. Files) \ pending'[m] \subseteq recorded
        BY <3>3
      <3> QED BY <3>1, <3>2, <3>3, <3>4
    <2> QED BY <2>1, <2>2
  <1>4. CASE M!Begin(m)
    <2>1. pending[m] = {} => recorded = 1 .. Files
      BY <1>4 DEF M!Begin
    <2>2. CASE pending[m] = {}
      BY <1>4, <2>1, <2>2 DEF M!Begin, M!Exit
    <2>3. CASE pending[m] # {}
      BY <1>4, <2>3 DEF M!Begin, M!Goto
    <2> QED BY <2>2, <2>3
  <1>5. CASE M!RunFile(m) \/ M!WaitEnds(m)
    <2>1. at[m] \in {"begun", "waiting"}
      BY <1>5 DEF M!RunFile, M!WaitEnds
    <2>2. ASSUME NEW place \in {"applied", "waiting"}, M!Goto(m, place), UNCHANGED M!ledger
          PROVE  M!TypeOK' /\ MigrationsInv' /\ tables \subseteq tables' /\ (zero => zero')
      BY <2>1, <2>2 DEF M!Goto
    <2>3. CASE M!Exit(m, "1") /\ UNCHANGED M!ledger
      BY <2>3 DEF M!Exit
    <2> QED BY <1>5, <2>2, <2>3 DEF M!RunFile, M!WaitEnds
  <1>6. CASE M!Record(m)
    BY <1>6 DEF M!Record, M!Goto, M!Exit
  <1>7. CASE M!Commit(m)
    <2> DEFINE f == M!File(m)
    <2>1. at[m] = "inserted" /\ f \in pending[m] /\ \A g \in pending[m] : f <= g
      BY <1>7, FirstPending DEF M!Commit
    <2>2. tables' = tables \cup {f} /\ recorded' = recorded \cup {f}
      BY <1>7 DEF M!Commit
    <2>3. /\ zero' = zero /\ at' \in [Runners -> M!Places]
          /\ at' = [at EXCEPT ![m] = at'[m]] /\ at'[m] \in {"loop", "idle"}
          /\ pending' = [pending EXCEPT ![m] = pending'[m]]
          /\ pending'[m] = IF at'[m] = "loop" THEN pending[m] \ {f} ELSE {}
      BY <1>7 DEF M!Commit, M!Exit
    <2> HIDE DEF f
    <2>4. 1 .. f \subseteq recorded'
      <3>1. ASSUME NEW g \in 1 .. f PROVE g \in recorded'
        <4>1. g \in 1 .. Files
          BY <2>1
        <4>2. g = f \/ g \notin pending[m]
          BY <2>1
        <4> QED BY <2>1, <2>2, <4>1, <4>2
      <3> QED BY <3>1
    <2>5. tables' = recorded' /\ tables' \subseteq 1 .. Files
      BY <2>1, <2>2
    <2>6. \A g \in recorded' : 1 .. g \subseteq recorded'
      BY <2>2, <2>4
    <2>7. zero' => recorded' = 1 .. Files
      BY <2>2, <2>3, <2>5
    <2>8. pending' \in [Runners -> SUBSET (1 .. Files)]
      BY <2>3
    <2>9. ASSUME NEW n \in Runners
          PROVE  /\ at'[n] \in {"loop", "begun", "waiting", "applied", "inserted"} =>
                        (1 .. Files) \ pending'[n] \subseteq recorded'
                 /\ at'[n] \in {"begun", "waiting", "applied", "inserted"} => pending'[n] # {}
      BY <2>1, <2>2, <2>3
    <2> QED BY <2>2, <2>3, <2>5, <2>6, <2>7, <2>8, <2>9
  <1>8. CASE M!Fail(m)
    BY <1>8 DEF M!Fail, M!Exit
  <1> QED BY <1>1, <1>2, <1>3, <1>4, <1>5, <1>6, <1>7, <1>8 DEF M!RunnerSteps

\* A migration takes no table away, so it disturbs neither seeds nor requests.
LEMMA MigrateStep ==
  ASSUME DeploymentInv, NEW m \in Runners, Migrate(m)
  PROVE  DeploymentInv'
  <1>1. /\ M!TypeOK' /\ MigrationsInv' /\ tables \subseteq tables' /\ (zero => zero')
        /\ UNCHANGED <<account, seeder>>
    BY MigrationsStep DEF Migrate, DeploymentInv, DeploymentTypeOK
  <1> USE DEF account, seeder, rows, request, history, Names, Emails
  <1>2. TypeOK'
    BY <1>1 DEF DeploymentInv, DeploymentTypeOK, TypeOK
  <1>3. DeploymentTypeOK'
    BY <1>1, <1>2 DEF DeploymentInv, DeploymentTypeOK
  <1>4. SeedsInv'
    BY <1>1 DEF DeploymentInv, SeedsInv, HeldIsMissing
  <1>5. RequestsInv'
    BY <1>1 DEF DeploymentInv, RequestsInv, Asks
  <1> QED BY <1>1, <1>3, <1>4, <1>5 DEF DeploymentInv

-----------------------------------------------------------------------------------
(* The seeds. *)

\* The seeds' own rows are typed.
LEMMA SeedRowsTyped == SeedDepartment \in Key /\ SeedEmail \in Key
  BY DeploymentAssumption DEF SeedDepartment, SeedEmail, Key

\* A seed that inserts nothing into departments or users disturbs no request.
LEMMA RequestsUndisturbed ==
  ASSUME RequestsInv, UNCHANGED <<account, ledger>>, seedZero => seedZero'
  PROVE  RequestsInv'
  BY DEF RequestsInv, Asks, account, ledger, rows, request, history, Names

\* Before its second commit a seed changes only what it holds, and its audit log.
LEMMA SeedQuietStep ==
  ASSUME DeploymentInv, NEW s \in Seeders,
         SeedStart(s) \/ SeedAudit(s) \/ CommitAudit(s) \/ SeedRows(s) \/ SeedFails(s)
  PROVE  DeploymentInv'
  <1>1. /\ UNCHANGED <<account, ledger>>
        /\ seedZero' = seedZero
        /\ seeded' \in Nat /\ seeded' >= seeded /\ (seeded' # seeded => 1 \in tables)
    BY DEF SeedStart, SeedAudit, CommitAudit, SeedRows, SeedFails, SeedGoto, SeedExit,
       DeploymentInv, DeploymentTypeOK, SeedsInv, HeldIsMissing
  <1>2. /\ seedAt' = [seedAt EXCEPT ![s] = seedAt'[s]]
        /\ held' = [held EXCEPT ![s] = held'[s]]
        /\ seedAt'[s] \in {"idle", "audit", "audited", "rows", "inserted"}
        /\ held'[s] \subseteq {"audit", "department", "user"}
        /\ late' \subseteq late \cup {s}
    BY DEF SeedStart, SeedAudit, CommitAudit, SeedRows, SeedFails, SeedGoto, SeedExit,
       DeploymentInv, DeploymentTypeOK
  <1>3. /\ seedAt'[s] \notin {"audited", "inserted"} => held'[s] = {}
        /\ seedAt'[s] = "audited" =>
              held'[s] \subseteq {"audit"} /\ 1 \in tables /\ (held'[s] = {} => seeded' > 0)
        /\ seedAt'[s] \in {"rows", "inserted"} => seeded' > 0
        /\ seedAt'[s] = "inserted" =>
              /\ held'[s] \subseteq {"department", "user"} /\ {2, 3} \subseteq tables
              /\ "department" \in held'[s] \/ SeedDepartment \in Names
              /\ "user" \in held'[s] \/ SeedEmail \in Emails
              /\ \A t \in Seeders : held[t] \cap {"department", "user"} = {}
        /\ "department" \in held'[s] => SeedDepartment \notin Names
        /\ "user" \in held'[s] => SeedEmail \notin Emails
        /\ s \in late' => seeded' > 0 /\ "audit" \notin held'[s]
    <2> USE DEF DeploymentInv, DeploymentTypeOK, SeedsInv, HeldIsMissing, SeedGoto, SeedExit
    <2>1. CASE SeedStart(s)
      BY <2>1 DEF SeedStart
    <2>2. CASE SeedAudit(s)
      BY <2>2 DEF SeedAudit
    <2>3. CASE CommitAudit(s)
      BY <2>3 DEF CommitAudit
    <2>4. CASE SeedRows(s)
      BY <2>4 DEF SeedRows, Holds
    <2>5. CASE SeedFails(s)
      BY <2>5 DEF SeedFails
    <2> QED BY <2>1, <2>2, <2>3, <2>4, <2>5
  <1>4. HeldIsMissing'
    <2> USE DEF DeploymentInv, DeploymentTypeOK, SeedsInv, HeldIsMissing
    <2>1. UNCHANGED <<Names, Emails, tables>>
      BY <1>1 DEF account, rows, ledger, Names, Emails
    <2>2. \A t \in Seeders : t # s => seedAt'[t] = seedAt[t] /\ held'[t] = held[t]
      BY <1>2
    <2>3. \A t \in Seeders : t # s => held'[s] \cap held[t] \subseteq {"audit"}
      BY <1>3, <1>2
    <2> QED BY <1>1, <1>3, <2>1, <2>2, <2>3
  <1>5. SeedsInv'
    BY <1>1, <1>2, <1>3, <1>4 DEF DeploymentInv, DeploymentTypeOK, SeedsInv, account, rows, Names, Emails
  <1>6. RequestsInv'
    BY <1>1, RequestsUndisturbed DEF DeploymentInv
  <1>7. DeploymentTypeOK' /\ MigrationsInv'
    BY <1>1, <1>2 DEF DeploymentInv, DeploymentTypeOK, TypeOK, account, ledger, rows, request, history,
       Names, MigrationsInv, M!MigrationsAreWhole, M!TypeOK
  <1> QED BY <1>5, <1>6, <1>7 DEF DeploymentInv

\* What the second seed inserts was not there, and with its department.
LEMMA CommitRowsStep ==
  ASSUME DeploymentInv, NEW s \in Seeders, CommitRows(s)
  PROVE  DeploymentInv'
  <1> DEFINE dept == [name |-> SeedDepartment, maker |-> Seed]
             user == [email |-> SeedEmail, department |-> SeedDepartment]
  <1> USE SeedRowsTyped, RegistrationAssumption
  <1>1. /\ departments' = departments \cup (IF "department" \in held[s] THEN {dept} ELSE {})
        /\ users' = users \cup (IF "user" \in held[s] THEN {user} ELSE {})
        /\ UNCHANGED <<audits, request, history, ledger, seeded>>
        /\ seedAt' = [seedAt EXCEPT ![s] = "idle"] /\ held' = [held EXCEPT ![s] = {}]
        /\ late' = late \ {s} /\ seedZero' \in BOOLEAN /\ seedAt[s] = "inserted"
    BY DEF CommitRows, SeedExit, DeploymentInv, DeploymentTypeOK
  <1>2. /\ Names' = Names \cup (IF "department" \in held[s] THEN {SeedDepartment} ELSE {})
        /\ Emails' = Emails \cup (IF "user" \in held[s] THEN {SeedEmail} ELSE {})
    <2>1. dept.name = SeedDepartment /\ user.email = SeedEmail
      OBVIOUS
    <2> HIDE DEF dept, user
    <2>2. Names' = Names \cup (IF "department" \in held[s] THEN {SeedDepartment} ELSE {})
      BY <1>1, <2>1 DEF Names
    <2>3. Emails' = Emails \cup (IF "user" \in held[s] THEN {SeedEmail} ELSE {})
      BY <1>1, <2>1 DEF Emails
    <2> QED BY <2>2, <2>3
  <1>3. /\ {2, 3} \subseteq tables /\ SeedDepartment \in Names' /\ SeedEmail \in Emails'
        /\ "department" \in held[s] => SeedDepartment \notin Names
        /\ "user" \in held[s] => SeedEmail \notin Emails
        /\ seeded > 0
    BY <1>1, <1>2 DEF DeploymentInv, SeedsInv, HeldIsMissing
  <1>4. TypeOK'
    <2> USE DEF DeploymentInv, DeploymentTypeOK, TypeOK, request, history
    <2>1. departments' \subseteq [name : Key, maker : Requests \cup {Seed}]
      BY <1>1
    <2>2. users' \subseteq User
      BY <1>1 DEF User
    <2>3. \A u \in users' : u.department \in Names' \cup {NoDept}
      BY <1>1, <1>2, <1>3
    <2> QED BY <1>1, <2>1, <2>2, <2>3
  <1>5. DeploymentTypeOK' /\ MigrationsInv'
    BY <1>1, <1>3, <1>4 DEF DeploymentInv, DeploymentTypeOK, ledger, MigrationsInv, M!MigrationsAreWhole,
       M!TypeOK
  <1>6. HeldIsMissing'
    <2> USE DEF DeploymentInv, DeploymentTypeOK, SeedsInv, HeldIsMissing
    <2>1. held'[s] = {} /\ \A t \in Seeders : t # s => held'[t] = held[t] /\ seedAt'[t] = seedAt[t]
      BY <1>1
    <2>2. ASSUME NEW t \in Seeders, t # s
          PROVE  /\ "department" \in held[t] => SeedDepartment \notin Names'
                 /\ "user" \in held[t] => SeedEmail \notin Emails'
      BY <1>2, <2>2
    <2> QED BY <1>1, <1>2, <2>1, <2>2 DEF ledger
  <1>7. SeedsInv'
    BY <1>1, <1>3, <1>6 DEF DeploymentInv, DeploymentTypeOK, SeedsInv
  <1>8. RequestsInv'
    <2> USE DEF DeploymentInv, DeploymentTypeOK, RequestsInv, request, history, ledger, Asks
    <2>1. seedZero => seedZero'
      BY DEF CommitRows, SeedExit
    <2>2. \A u, v \in users' : u.email = v.email => u = v
      BY <1>1, <1>3 DEF Emails
    <2>3. \A d, e \in departments' : d.name = e.name => d = e
      BY <1>1, <1>3 DEF Names
    <2>4. \A d \in departments' : d.maker \in Requests => d \in departments
      BY <1>1
    <2>5. \A u \in users' : u.email.spelling = "lower"
      BY <1>1 DEF SeedEmail
    <2> QED BY <1>1, <1>2, <2>1, <2>2, <2>3, <2>4, <2>5
  <1> QED BY <1>5, <1>7, <1>8 DEF DeploymentInv

-----------------------------------------------------------------------------------
(* The requests. *)

\* Every body has a verdict, and none is let through that a column is too narrow for.
LEMMA VerdictsTyped == \A kind \in Kinds : \A v \in VerdictsOf(kind) : v \in Verdicts /\ v.misfit # "width"
  BY UserFits, DepartmentFits, AuditFits, LoginFits DEF VerdictsOf, Kinds

Asked == [kind : Kinds, key : Key, department : Key \cup {NoDept}, misfit : Misfits]
Codes == {"none", "200", "201", "400", "401", "404", "409", "500", "lost"}

\* What an answered request leaves to be remembered is typed.
LEMMA NothingTyped == Nothing \in Asked
  <1>1. Nothing.key \in Key
    BY SeedRowsTyped DEF Nothing
  <1> QED BY <1>1 DEF Nothing, Asked, Kinds, Misfits

\* An answer ends its request and no other, and forgets at most what it asked for.
LEMMA AnswerFacts ==
  ASSUME TypeOK, NEW r \in Requests, NEW code \in Codes, Answer(r, code)
  PROVE  /\ pc' \in [Requests -> {"new", "arrived", "free", "placed", "written", "done"}]
         /\ req' \in [Requests -> Asked] /\ answer' \in [Requests -> Codes]
         /\ pc'[r] = "done" /\ answer'[r] = code
         /\ req'[r] = (IF code \in {"400", "401", "404", "500", "lost"} THEN Nothing ELSE req[r])
         /\ \A q \in Requests : q # r => pc'[q] = pc[q] /\ req'[q] = req[q] /\ answer'[q] = answer[q]
  <1>1. req \in [Requests -> Asked] /\ Nothing \in Asked
    BY NothingTyped DEF TypeOK, Asked
  <1> QED BY <1>1 DEF Answer, TypeOK, Codes

\* A request moves alone, and makes one row at most, whose key was not there.
MovesAlone(r) ==
    /\ pc' \in [Requests -> {"new", "arrived", "free", "placed", "written", "done"}]
    /\ req' \in [Requests -> Asked] /\ answer' \in [Requests -> Codes]
    /\ knew' \in [Requests -> SUBSET Key]
    /\ missed \subseteq missed' /\ missed' \subseteq missed \cup {r}
    /\ excused \subseteq excused' /\ excused' \subseteq excused \cup {r}
    /\ audits \subseteq audits' /\ audits' \subseteq audits \cup {r}
    /\ \A q \in Requests : q # r =>
          pc'[q] = pc[q] /\ req'[q] = req[q] /\ answer'[q] = answer[q] /\ knew'[q] = knew[q]

LEMMA RequestFrame ==
  ASSUME DeploymentInv, NEW r \in Requests, Request(r)
  PROVE  MovesAlone(r) /\ zero /\ seedZero
  <1> USE DEF DeploymentInv, DeploymentTypeOK, TypeOK, MovesAlone, Goto, rows, history, Asks
  <1>0. req \in [Requests -> Asked]
    BY DEF Asked
  <1>1. CASE Arrives(r)
    <2>1. PICK kind \in Kinds, v \in UNION {VerdictsOf(k) : k \in Kinds} :
             /\ v \in VerdictsOf(kind)
             /\ \/ ArriveRefused(r, kind, v)
                \/ \E key \in Key, department \in {k \in Key : k.word = SeedWord} \cup {NoDept} :
                      Arrive(r, kind, key, department, v)
      <3>1. PICK kind \in Kinds, v \in UNION {VerdictsOf(k) : k \in Kinds} :
               /\ v \in VerdictsOf(kind)
               /\ zero /\ seedZero /\ \A m \in Runners : at[m] = "idle"
               /\ Cardinality({s \in Seeders : AtWork(s)}) <= 1
               /\ \/ ArriveRefused(r, kind, v)
                  \/ \E key \in Key, department \in {k \in Key : k.word = SeedWord} \cup {NoDept} :
                        Arrive(r, kind, key, department, v)
        BY <1>1, Zenon DEF Arrives
      <3> QED BY <3>1, Zenon
    <2>2. zero /\ seedZero
      BY <1>1 DEF Arrives
    <2>4. CASE ArriveRefused(r, kind, v)
      BY <1>0, <2>2, <2>4, AnswerFacts DEF ArriveRefused, MayArrive, Codes
    <2>3. ASSUME NEW key \in Key, NEW department \in Key \cup {NoDept}, Arrive(r, kind, key, department, v)
          PROVE  MovesAlone(r)
      <3>1. v.misfit \in Misfits
        BY <2>1, VerdictsTyped DEF Verdicts
      <3>2. [kind |-> kind, key |-> key, department |-> department, misfit |-> v.misfit] \in Asked
        BY <3>1 DEF Asked
      <3>3. (IF kind = "department" THEN {k \in Names : k.word = key.word} ELSE {}) \subseteq Key
        BY DEF Names
      <3> QED BY <1>0, <2>3, <3>2, <3>3 DEF Arrive, MayArrive, Codes
    <2> QED BY <2>1, <2>2, <2>3, <2>4
  <1>2. CASE LookUp(r)
    BY <1>0, <1>2, AnswerFacts DEF LookUp, Codes, RequestsInv
  <1>3. CASE CheckDepartment(r)
    BY <1>0, <1>3, AnswerFacts DEF CheckDepartment, Codes, RequestsInv
  <1>4. CASE InsertUser(r)
    BY <1>0, <1>4, AnswerFacts DEF InsertUser, Written, Codes, RequestsInv
  <1>5. CASE InsertDepartment(r)
    BY <1>0, <1>5, AnswerFacts DEF InsertDepartment, Written, Codes, RequestsInv
  <1>6. CASE RegisterAudit(r)
    BY <1>0, <1>6, AnswerFacts DEF RegisterAudit, Codes, RequestsInv
  <1>7. CASE RegisterManual(r)
    BY <1>0, <1>7, AnswerFacts DEF RegisterManual, Codes, RequestsInv
  <1>8. CASE Login(r)
    BY <1>0, <1>8, AnswerFacts DEF Login, Codes, RequestsInv
  <1>9. CASE DatabaseRefuses(r)
    BY <1>0, <1>9, AnswerFacts DEF DatabaseRefuses, Codes, RequestsInv
  <1>10. CASE RequestBreaks(r)
    BY <1>0, <1>10, AnswerFacts DEF RequestBreaks, Codes, RequestsInv
  <1> QED BY <1>1, <1>2, <1>3, <1>4, <1>5, <1>6, <1>7, <1>8, <1>9, <1>10 DEF Request, RequestSteps

\* The row a request makes has a key that was not there.
MakesUser(r) ==
    /\ users' = users \cup {[email |-> Normalized(r), department |-> req[r].department]}
    /\ UNCHANGED departments
    /\ Asks(r, "user", "placed") /\ Normalized(r) \notin Emails

MakesDepartment(r) ==
    /\ departments' = departments \cup {[name |-> req[r].key, maker |-> r]}
    /\ UNCHANGED users
    /\ Asks(r, "department", "placed") /\ req[r].key \notin Names
    /\ pc'[r] \in {"written", "done"}

LEMMA RequestRows ==
  ASSUME DeploymentInv, NEW r \in Requests, Request(r)
  PROVE  UNCHANGED <<users, departments>> \/ MakesUser(r) \/ MakesDepartment(r)
  <1> USE DEF rows, history
  <1>1. CASE Arrives(r)
    BY <1>1, Zenon DEF Arrives, ArriveRefused, Arrive, MayArrive
  <1>2. CASE InsertUser(r)
    BY <1>2, Zenon DEF InsertUser, MakesUser
  <1>3. CASE InsertDepartment(r)
    <2>1. pc \in [Requests -> {"new", "arrived", "free", "placed", "written", "done"}]
      BY DEF DeploymentInv, DeploymentTypeOK, TypeOK
    <2>2. Normalized(r) = req[r].key
      BY <1>3 DEF InsertDepartment, Asks, Normalized
    <2>3. CASE Normalized(r) \in Names
      BY <1>3, <2>3, Zenon DEF InsertDepartment
    <2>4. CASE Normalized(r) \notin Names
      <3>1. pc'[r] \in {"written", "done"}
        BY <1>3, <2>1, <2>4 DEF InsertDepartment, Written, Goto, Answer
      <3>2. /\ departments' = departments \cup {[name |-> Normalized(r), maker |-> r]}
            /\ UNCHANGED users /\ Asks(r, "department", "placed")
        BY <1>3, <2>4, Zenon DEF InsertDepartment
      <3> QED BY <2>2, <2>4, <3>1, <3>2, Zenon DEF MakesDepartment
    <2> QED BY <2>3, <2>4
  <1>4. CASE \/ LookUp(r) \/ CheckDepartment(r) \/ RegisterAudit(r) \/ RegisterManual(r)
             \/ Login(r) \/ DatabaseRefuses(r) \/ RequestBreaks(r)
    BY <1>4 DEF LookUp, CheckDepartment, RegisterAudit, RegisterManual, Login, DatabaseRefuses, RequestBreaks
  <1> QED BY <1>1, <1>2, <1>3, <1>4, Zenon DEF Request, RequestSteps

\* What a request knows where it stands.
Knows(r) ==
    /\ pc[r] = "free" => req[r].kind = "user"
    /\ Asks(r, "user", "placed") => req[r].department \in Names \cup {NoDept}
    /\ Asks(r, "department", "arrived") => knew[r] \subseteq {k \in Names : k.word = req[r].key.word}
    /\ Asks(r, "department", "placed") => knew[r] = {}

\* A request learns what it goes on with, and forgets nothing it knew.
LEMMA RequestKnows ==
  ASSUME DeploymentInv, NEW r \in Requests, Request(r)
  PROVE  /\ pc'[r] # "new" /\ (pc[r] # "new" => knew'[r] = knew[r])
         /\ pc[r] \in {"written", "done"} => pc'[r] \in {"written", "done"}
         /\ Knows(r)'
  <1> USE DEF rows, history, Goto, Asks, Knows
  <1>0. /\ req \in [Requests -> Asked] /\ TypeOK
        /\ pc \in [Requests -> {"new", "arrived", "free", "placed", "written", "done"}]
        /\ knew \in [Requests -> SUBSET Key] /\ Knows(r)
        /\ UNCHANGED departments => UNCHANGED Names
    BY DEF DeploymentInv, DeploymentTypeOK, TypeOK, Asked, RequestsInv, Names
  <1>1. CASE Arrives(r)
    <2>1. PICK kind \in Kinds, v \in UNION {VerdictsOf(k) : k \in Kinds} :
             \/ ArriveRefused(r, kind, v)
             \/ \E key \in Key, department \in {k \in Key : k.word = SeedWord} \cup {NoDept} :
                   Arrive(r, kind, key, department, v)
      BY <1>1, Zenon DEF Arrives
    <2>2. CASE ArriveRefused(r, kind, v)
      BY <1>0, <2>2, AnswerFacts DEF ArriveRefused, MayArrive, Codes
    <2>3. ASSUME NEW key \in Key, NEW department \in Key \cup {NoDept}, Arrive(r, kind, key, department, v)
          PROVE  pc'[r] = "arrived" /\ pc[r] = "new" /\ Knows(r)'
      BY <1>0, <2>3 DEF Arrive, MayArrive
    <2> QED BY <2>1, <2>2, <2>3
  <1>2. CASE LookUp(r)
    <2>1. UNCHANGED <<users, departments, knew>> /\ pc[r] = "arrived"
      BY <1>2 DEF LookUp
    <2>2. CASE Answer(r, "409")
      BY <1>0, <2>1, <2>2, AnswerFacts DEF Codes
    <2>3. CASE ~ Answer(r, "409")
      <3>1. /\ pc' = [pc EXCEPT ![r] = IF req[r].kind = "user" THEN "free" ELSE "placed"]
            /\ req' = req /\ req[r].kind \in {"user", "department"}
            /\ ~ Found(Normalized(r), IF req[r].kind = "user" THEN Emails ELSE Names)
        BY <1>2, <2>3, Zenon DEF LookUp
      <3>2. req[r].kind = "department" => knew[r] = {}
        BY <1>0, <2>1, <3>1 DEF Found, Normalized
      <3> QED BY <1>0, <2>1, <3>1, <3>2
    <2> QED BY <2>2, <2>3
  <1>3. CASE CheckDepartment(r)
    BY <1>0, <1>3, AnswerFacts DEF CheckDepartment, Codes
  <1>4. CASE InsertUser(r)
    BY <1>0, <1>4, AnswerFacts DEF InsertUser, Written, Codes
  <1>5. CASE InsertDepartment(r)
    BY <1>0, <1>5, AnswerFacts DEF InsertDepartment, Written, Codes
  <1>6. CASE RegisterAudit(r)
    BY <1>0, <1>6, AnswerFacts DEF RegisterAudit, Codes
  <1>7. CASE RegisterManual(r)
    BY <1>0, <1>7, AnswerFacts DEF RegisterManual, Codes
  <1>8. CASE Login(r)
    BY <1>0, <1>8 DEF Login
  <1>9. CASE DatabaseRefuses(r)
    BY <1>0, <1>9, AnswerFacts DEF DatabaseRefuses, Codes
  <1>10. CASE RequestBreaks(r)
    BY <1>0, <1>10, AnswerFacts DEF RequestBreaks, Codes
  <1> QED BY <1>1, <1>2, <1>3, <1>4, <1>5, <1>6, <1>7, <1>8, <1>9, <1>10 DEF Request, RequestSteps

\* A request's step: what it makes has its table, its department and its own key, and
\* its maker has ended.
LEMMA RequestStep ==
  ASSUME DeploymentInv, NEW r \in Requests, Request(r)
  PROVE  DeploymentInv'
  <1>1. MovesAlone(r) /\ zero /\ seedZero /\ UNCHANGED <<ledger, seeder>>
    BY RequestFrame DEF Request
  <1>2. /\ req \in [Requests -> Asked] /\ Normalized(r) \in Key /\ r # Seed
        /\ req[r].key \in Key /\ req[r].department \in Key \cup {NoDept}
        /\ req[r].kind = "user" => Normalized(r).spelling = "lower"
    <2>1. req \in [Requests -> Asked]
      BY DEF DeploymentInv, DeploymentTypeOK, TypeOK, Asked
    <2> QED BY <2>1, RegistrationAssumption DEF Asked, Normalized, Key
  <1>3. {1, 2, 3} \subseteq tables
    BY <1>1, DeploymentAssumption DEF DeploymentInv, MigrationsInv, M!MigrationsAreWhole
  <1>4. /\ Names \subseteq Names' /\ Emails \subseteq Emails'
        /\ users \subseteq users' /\ departments \subseteq departments'
    BY RequestRows DEF MakesUser, MakesDepartment, Names, Emails
  <1>5. /\ SeedDepartment \in Names /\ SeedEmail \in Emails
        /\ \A s \in Seeders : "department" \notin held[s] /\ "user" \notin held[s]
    BY <1>1 DEF DeploymentInv, SeedsInv, HeldIsMissing
  <1>6. TypeOK'
    <2> USE DEF DeploymentInv, DeploymentTypeOK, TypeOK, MovesAlone, Asked, Codes
    <2>1. departments' \subseteq [name : Key, maker : Requests \cup {Seed}]
      BY <1>2, RequestRows DEF MakesUser, MakesDepartment
    <2>2. users' \subseteq User
      <3>1. [email |-> Normalized(r), department |-> req[r].department] \in User
        BY <1>2 DEF User
      <3>2. users \subseteq User
        OBVIOUS
      <3> QED BY <3>1, <3>2, RequestRows, Zenon DEF MakesUser, MakesDepartment
    <2>3. MakesUser(r) => req[r].department \in Names \cup {NoDept}
      BY DEF MakesUser, RequestsInv
    <2>4. \A u \in users' : u.department \in Names' \cup {NoDept}
      BY <1>4, <2>3, RequestRows DEF MakesUser, MakesDepartment
    <2> QED BY <1>1, <2>1, <2>2, <2>4
  <1>7. DeploymentTypeOK' /\ MigrationsInv'
    BY <1>1, <1>3, <1>6 DEF DeploymentInv, DeploymentTypeOK, MigrationsInv, M!MigrationsAreWhole, M!TypeOK,
       ledger, seeder
  <1>8. SeedsInv'
    BY <1>1, <1>4, <1>5 DEF DeploymentInv, DeploymentTypeOK, SeedsInv, HeldIsMissing, ledger, seeder
  <1>9. RequestsInv'
    <2>1. Knows(r)' /\ pc'[r] # "new"
      BY RequestKnows
    <2>2. ASSUME NEW q \in Requests, q # r
          PROVE  Knows(q)' /\ (pc'[q] # "new" => zero' /\ seedZero')
      BY <1>1, <1>4, <2>2 DEF Knows, MovesAlone, DeploymentInv, RequestsInv, Asks, ledger, seeder
    <2>3. \A q \in Requests : Knows(q)' /\ (pc'[q] # "new" => zero' /\ seedZero')
      BY <1>1, <2>1, <2>2 DEF ledger, seeder
    <2>4. \A u \in users' : u.email.spelling = "lower"
      <3>1. MakesUser(r) => Normalized(r).spelling = "lower"
        BY <1>2 DEF MakesUser, Asks
      <3>2. \A u \in users : u.email.spelling = "lower"
        BY DEF DeploymentInv, RequestsInv
      <3>3. CASE MakesUser(r)
        <4>1. ASSUME NEW u \in users' PROVE u \in users \/ u.email = Normalized(r)
          BY <3>3 DEF MakesUser
        <4> QED BY <3>1, <3>2, <3>3, <4>1
      <3> QED BY <3>2, <3>3, RequestRows DEF MakesDepartment
    <2>5. \A u, v \in users' : u.email = v.email => u = v
      BY RequestRows DEF MakesUser, MakesDepartment, Emails, DeploymentInv, RequestsInv
    <2>6. \A d, e \in departments' : d.name = e.name => d = e
      BY RequestRows DEF MakesUser, MakesDepartment, Names, DeploymentInv, RequestsInv
    <2>7. ASSUME NEW d \in departments, d.maker \in Requests
          PROVE  knew'[d.maker] = {} /\ pc'[d.maker] \in {"written", "done"}
      BY <1>1, <2>7, RequestKnows DEF MovesAlone, DeploymentInv, RequestsInv
    <2>8. MakesDepartment(r) => knew'[r] = {} /\ pc'[r] \in {"written", "done"}
      BY RequestKnows DEF MakesDepartment, Asks, DeploymentInv, RequestsInv
    <2>9. \A d \in departments' : d.maker \in Requests =>
             knew'[d.maker] = {} /\ pc'[d.maker] \in {"written", "done"}
      BY <2>7, <2>8, RequestRows DEF MakesUser, MakesDepartment
    <2> QED BY <2>3, <2>4, <2>5, <2>6, <2>9 DEF RequestsInv, Knows, Asks
  <1> QED BY <1>7, <1>8, <1>9 DEF DeploymentInv

-----------------------------------------------------------------------------------
(* The answers. *)

\* What a request is told is so, and what it has still to be told will be: nothing is
\* told before the end, and a request that has written knows that its row is there.
KeysOf(r) == IF req[r].kind = "department" THEN Names ELSE Emails

TellsTruth(r) ==
    /\ pc[r] # "done" => answer[r] = "none" /\ r \notin audits
    /\ pc[r] = "written" =>
          /\ req[r].kind # "audit"
          /\ req[r].kind \in {"user", "department"} => Normalized(r) \in KeysOf(r)
          /\ req[r].kind = "login" => r \in missed \/ Found(Normalized(r), Emails)
    /\ req[r].misfit # "width"
    /\ answer[r] = "201" /\ req[r].kind # "audit" => Normalized(r) \in KeysOf(r)
    /\ answer[r] = "201" /\ req[r].kind = "audit" => r \in audits
    /\ answer[r] \in {"200", "409"} => Found(Normalized(r), KeysOf(r))
    /\ answer[r] \in {"401", "404"} => r \in missed
    /\ answer[r] = "200" => r \notin missed
    /\ answer[r] = "500" => r \in excused
    /\ r \in audits => answer[r] \notin {"400", "404", "409"}

AnswersInv == \A r \in Requests : TellsTruth(r)

\* Nothing that is done for others makes an answer false.
LEMMA TruthStays ==
  ASSUME NEW q \in Requests, TellsTruth(q), Names \subseteq Names', Emails \subseteq Emails',
         pc'[q] = pc[q], req'[q] = req[q], answer'[q] = answer[q],
         q \in missed' <=> q \in missed, q \in excused' <=> q \in excused, q \in audits' <=> q \in audits
  PROVE  TellsTruth(q)'
  <1>1. Normalized(q)' = Normalized(q)
    BY DEF Normalized
  <1>2. KeysOf(q) \subseteq KeysOf(q)'
    BY DEF KeysOf
  <1> QED BY <1>1, <1>2 DEF TellsTruth, Found

\* The end of a request whose answer has to do with nothing it asked for.
LEMMA TruthOfRefusals ==
  ASSUME TypeOK, NEW r \in Requests, NEW code \in {"400", "401", "404", "500", "lost"}, Answer(r, code),
         code \in {"401", "404"} => r \in missed', code = "500" => r \in excused',
         r \in audits' => code \notin {"400", "404"}
  PROVE  TellsTruth(r)'
  <1>1. pc'[r] = "done" /\ answer'[r] = code /\ req'[r] = Nothing
    BY AnswerFacts DEF Codes
  <1>2. Nothing.misfit = "none" /\ Nothing.kind = "audit"
    BY DEF Nothing
  <1> QED BY <1>1, <1>2 DEF TellsTruth

LEMMA RequestTruth ==
  ASSUME DeploymentInv, NEW r \in Requests, TellsTruth(r), Request(r)
  PROVE  TellsTruth(r)'
  <1>0. /\ TypeOK /\ req \in [Requests -> Asked]
        /\ pc \in [Requests -> {"new", "arrived", "free", "placed", "written", "done"}]
        /\ pc[r] # "done" => answer[r] = "none" /\ r \notin audits
        /\ req[r].misfit # "width"
    BY DEF DeploymentInv, DeploymentTypeOK, TypeOK, Asked, TellsTruth
  <1> USE DEF rows, history, Goto, Asks
  <1>1. CASE Arrives(r)
    <2>1. PICK kind \in Kinds, v \in UNION {VerdictsOf(k) : k \in Kinds} :
             /\ v \in VerdictsOf(kind)
             /\ \/ ArriveRefused(r, kind, v)
                \/ \E key \in Key, department \in {k \in Key : k.word = SeedWord} \cup {NoDept} :
                      Arrive(r, kind, key, department, v)
      BY <1>1, Zenon DEF Arrives
    <2>2. CASE ArriveRefused(r, kind, v)
      BY <1>0, <2>2, TruthOfRefusals DEF ArriveRefused, MayArrive
    <2>3. ASSUME NEW key \in Key, NEW department \in Key \cup {NoDept}, Arrive(r, kind, key, department, v)
          PROVE  TellsTruth(r)'
      <3>1. v.misfit # "width"
        BY <2>1, VerdictsTyped
      <3>2. /\ pc'[r] = "arrived" /\ answer'[r] = answer[r] /\ UNCHANGED audits /\ pc[r] = "new"
            /\ req'[r].misfit = v.misfit
        BY <1>0, <2>3 DEF Arrive, MayArrive
      <3> QED BY <1>0, <3>1, <3>2 DEF TellsTruth
    <2> QED BY <2>1, <2>2, <2>3
  <1>2. CASE LookUp(r)
    <2>1. /\ pc[r] = "arrived" /\ UNCHANGED <<users, departments, audits>>
          /\ req[r].kind \in {"user", "department"}
      BY <1>2 DEF LookUp
    <2>2. CASE Answer(r, "409")
      <3>1. Found(Normalized(r), KeysOf(r))
        BY <1>2, <2>1, <2>2, <1>0, AnswerFacts DEF LookUp, KeysOf, Codes
      <3>2. pc'[r] = "done" /\ answer'[r] = "409" /\ req'[r] = req[r]
        BY <1>0, <2>2, AnswerFacts DEF Codes
      <3>3. Normalized(r)' = Normalized(r) /\ KeysOf(r)' = KeysOf(r)
        BY <2>1, <3>2 DEF Normalized, KeysOf, Names, Emails
      <3> QED BY <1>0, <2>1, <3>1, <3>2, <3>3 DEF TellsTruth, Found
    <2>3. CASE ~ Answer(r, "409")
      BY <1>0, <1>2, <2>1, <2>3 DEF LookUp, TellsTruth
    <2> QED BY <2>2, <2>3
  <1>3. CASE CheckDepartment(r)
    <2>1. CASE Answer(r, "404") /\ missed' = missed \cup {r}
      BY <1>0, <1>3, <2>1, TruthOfRefusals DEF CheckDepartment
    <2>2. CASE Goto(r, "placed")
      BY <1>0, <1>3, <2>2 DEF CheckDepartment, TellsTruth
    <2> QED BY <1>3, <2>1, <2>2 DEF CheckDepartment
  <1>4. CASE RegisterManual(r)
    <2>1. CASE Answer(r, "201")
      <3>1. pc'[r] = "done" /\ answer'[r] = "201" /\ req'[r] = req[r]
        BY <1>0, <2>1, AnswerFacts DEF Codes
      <3> QED BY <1>0, <1>4, <3>1 DEF RegisterManual, TellsTruth
    <2>2. ASSUME NEW code \in {"500", "lost"}, Answer(r, code), excused' = excused \cup {r}
          PROVE  TellsTruth(r)'
      BY <1>0, <2>2, TruthOfRefusals
    <2> QED BY <1>4, <2>1, <2>2 DEF RegisterManual
  <1>5. CASE Login(r)
    <2>1. /\ pc'[r] = "written" /\ UNCHANGED <<req, answer, rows>> /\ pc[r] = "arrived"
          /\ req[r].kind = "login"
          /\ r \in missed' \/ Found(Normalized(r), Emails)
      BY <1>0, <1>5 DEF Login
    <2>2. Normalized(r)' = Normalized(r) /\ Emails' = Emails
      BY <2>1 DEF Normalized, Emails
    <2> QED BY <1>0, <2>1, <2>2 DEF TellsTruth, Found
  <1>6. CASE DatabaseRefuses(r)
    BY <1>0, <1>6, TruthOfRefusals DEF DatabaseRefuses
  <1>7. CASE RequestBreaks(r)
    BY <1>0, <1>7, TruthOfRefusals DEF RequestBreaks
  <1>8. CASE InsertUser(r) \/ InsertDepartment(r)
    <2>1. /\ UNCHANGED <<audits, missed>> /\ pc[r] = "placed"
          /\ \/ req[r].kind = "user" /\ InsertUser(r)
             \/ req[r].kind = "department" /\ InsertDepartment(r)
      BY <1>8 DEF InsertUser, InsertDepartment
    <2>2. /\ \/ Answer(r, "409") /\ Normalized(r) \in KeysOf(r)
             \/ Written(r)
          /\ Normalized(r) \in KeysOf(r) \/ Normalized(r) \in (IF req[r].kind = "user" THEN Emails' ELSE Names')
      <3>1. CASE req[r].kind = "user" /\ InsertUser(r)
        <4>1. CASE Normalized(r) \in Emails
          BY <3>1, <4>1 DEF InsertUser, KeysOf
        <4>2. CASE Normalized(r) \notin Emails
          <5>1. /\ Written(r)
                /\ users' = users \cup {[email |-> Normalized(r), department |-> req[r].department]}
            BY <3>1, <4>2 DEF InsertUser
          <5> DEFINE row == [email |-> Normalized(r), department |-> req[r].department]
          <5>2. row \in users' /\ row.email = Normalized(r)
            BY <5>1
          <5> HIDE DEF row
          <5>3. Normalized(r) \in Emails'
            BY <5>2 DEF Emails
          <5> QED BY <3>1, <5>1, <5>3
        <4> QED BY <4>1, <4>2
      <3>2. CASE req[r].kind = "department" /\ InsertDepartment(r)
        <4>1. CASE Normalized(r) \in Names
          BY <3>2, <4>1 DEF InsertDepartment, KeysOf
        <4>2. CASE Normalized(r) \notin Names
          <5>1. Written(r) /\ departments' = departments \cup {[name |-> Normalized(r), maker |-> r]}
            BY <3>2, <4>2 DEF InsertDepartment
          <5> DEFINE row == [name |-> Normalized(r), maker |-> r]
          <5>2. row \in departments' /\ row.name = Normalized(r)
            BY <5>1
          <5> HIDE DEF row
          <5>3. Normalized(r) \in Names'
            BY <5>2 DEF Names
          <5> QED BY <3>2, <5>1, <5>3
        <4> QED BY <4>1, <4>2
      <3> QED BY <2>1, <3>1, <3>2
    <2>3. KeysOf(r) \subseteq (IF req[r].kind = "user" THEN Emails' ELSE Names')
      BY <2>1, RequestRows DEF KeysOf, MakesUser, MakesDepartment, Emails, Names
    <2>4. ASSUME req'[r] = req[r]
          PROVE  /\ Normalized(r)' = Normalized(r) /\ Normalized(r) \in KeysOf(r)'
                 /\ Found(Normalized(r), KeysOf(r))'
      BY <2>1, <2>2, <2>3, <2>4 DEF Normalized, KeysOf, Found
    <2>5. CASE Answer(r, "409")
      <3>1. pc'[r] = "done" /\ answer'[r] = "409" /\ req'[r] = req[r]
        BY <1>0, <2>5, AnswerFacts DEF Codes
      <3> QED BY <1>0, <2>1, <2>4, <3>1 DEF TellsTruth
    <2>6. CASE Goto(r, "written")
      <3>1. pc'[r] = "written" /\ answer'[r] = answer[r] /\ req'[r] = req[r]
        BY <1>0, <2>6
      <3> QED BY <1>0, <2>1, <2>4, <3>1 DEF TellsTruth
    <2>7. ASSUME NEW code \in {"500", "lost"}, Answer(r, code), excused' = excused \cup {r}
          PROVE  TellsTruth(r)'
      BY <1>0, <2>7, TruthOfRefusals
    <2> QED BY <2>2, <2>5, <2>6, <2>7 DEF Written
  <1>9. CASE RegisterAudit(r)
    <2> DEFINE code == IF req[r].kind # "login" THEN "201" ELSE IF r \in missed THEN "401" ELSE "200"
    <2>1. /\ Answer(r, code) /\ UNCHANGED <<users, departments, missed>> /\ pc[r] = "written"
          /\ req[r].kind # "audit"
          /\ req[r].kind \in {"user", "department"} => Normalized(r) \in KeysOf(r)
          /\ req[r].kind = "login" => r \in missed \/ Found(Normalized(r), Emails)
      BY <1>9 DEF RegisterAudit, TellsTruth
    <2>2. pc'[r] = "done" /\ answer'[r] = code /\ (code # "401" => req'[r] = req[r])
      BY <1>0, <2>1, AnswerFacts DEF Codes
    <2>3. CASE req[r].kind = "login" /\ r \in missed
      BY <1>0, <2>1, <2>3, TruthOfRefusals
    <2>4. CASE ~ (req[r].kind = "login" /\ r \in missed)
      <3>1. req'[r] = req[r] /\ Normalized(r)' = Normalized(r) /\ KeysOf(r)' = KeysOf(r)
        BY <2>1, <2>2, <2>4 DEF Normalized, KeysOf, Names, Emails
      <3>2. req[r].kind \in {"user", "department", "login"}
        BY <1>0, <2>1 DEF Asked, Kinds
      <3>3. CASE req[r].kind = "login"
        <4>1. Found(Normalized(r), KeysOf(r)) /\ code = "200"
          BY <2>1, <2>4, <3>3 DEF KeysOf
        <4> HIDE DEF code
        <4> QED BY <1>0, <2>1, <2>2, <2>4, <3>1, <3>3, <4>1 DEF TellsTruth, Found
      <3>4. CASE req[r].kind # "login"
        <4>1. Normalized(r) \in KeysOf(r) /\ code = "201"
          BY <2>1, <3>2, <3>4
        <4> HIDE DEF code
        <4> QED BY <1>0, <2>1, <2>2, <3>1, <3>4, <4>1 DEF TellsTruth
      <3> QED BY <3>3, <3>4
    <2> QED BY <2>3, <2>4
  <1> QED BY <1>1, <1>2, <1>3, <1>4, <1>5, <1>6, <1>7, <1>8, <1>9 DEF Request, RequestSteps

LEMMA AnswersStep ==
  ASSUME DeploymentInv, AnswersInv, [DeploymentNext]_vars
  PROVE  AnswersInv'
  <1>1. ASSUME NEW r \in Requests, Request(r)
        PROVE  AnswersInv'
    <2>1. Names \subseteq Names' /\ Emails \subseteq Emails'
      BY <1>1, RequestRows DEF MakesUser, MakesDepartment, Names, Emails
    <2>2. MovesAlone(r)
      BY <1>1, RequestFrame
    <2>3. ASSUME NEW q \in Requests, q # r
          PROVE  TellsTruth(q)'
      BY <2>1, <2>2, <2>3, TruthStays DEF AnswersInv, MovesAlone
    <2>4. TellsTruth(r)'
      BY <1>1, RequestTruth DEF AnswersInv
    <2> QED BY <2>3, <2>4 DEF AnswersInv
  <1>2. ASSUME UNCHANGED <<pc, req, answer, missed, excused, audits>>,
               users \subseteq users', departments \subseteq departments'
        PROVE  AnswersInv'
    <2>1. Names \subseteq Names' /\ Emails \subseteq Emails'
      BY <1>2 DEF Names, Emails
    <2> QED BY <1>2, <2>1, TruthStays DEF AnswersInv
  <1> USE DEF account, rows, request, history
  <1>3. CASE \E m \in Runners : Migrate(m)
    BY <1>2, <1>3 DEF Migrate
  <1>4. ASSUME NEW s \in Seeders, CommitRows(s)
        PROVE  AnswersInv'
    BY <1>2, <1>4 DEF CommitRows
  <1>5. CASE \E s \in Seeders :
                SeedStart(s) \/ SeedAudit(s) \/ CommitAudit(s) \/ SeedRows(s) \/ SeedFails(s)
    BY <1>2, <1>5 DEF SeedStart, SeedAudit, CommitAudit, SeedRows, SeedFails
  <1>6. CASE UNCHANGED vars
    BY <1>2, <1>6 DEF vars
  <1> QED BY <1>1, <1>3, <1>4, <1>5, <1>6 DEF DeploymentNext

-----------------------------------------------------------------------------------
(* The theorems. *)

LEMMA DeploymentStart == DeploymentInit => DeploymentInv
  <1> SUFFICES ASSUME DeploymentInit PROVE DeploymentInv
    OBVIOUS
  <1>1. TypeOK
    BY NothingTyped DEF DeploymentInit, Init, TypeOK, Asked
  <1>2. M!TypeOK /\ MigrationsInv
    BY DeploymentAssumption DEF DeploymentInit, M!Init, M!TypeOK, M!Places, MigrationsInv, M!MigrationsAreWhole
  <1>3. DeploymentTypeOK
    <2>1. /\ seedAt \in [Seeders -> {"idle", "audit", "audited", "rows", "inserted"}]
          /\ held \in [Seeders -> SUBSET {"audit", "department", "user"}]
          /\ seedZero \in BOOLEAN /\ seeded \in Nat /\ late \subseteq Seeders
      BY DEF DeploymentInit
    <2>2. audits = {} /\ users = {} /\ departments = {} /\ ~ (seeded > 0)
      BY DEF DeploymentInit, Init
    <2> QED BY <1>1, <1>2, <2>1, <2>2, Zenon DEF DeploymentTypeOK
  <1>4. SeedsInv
    BY DEF DeploymentInit, SeedsInv, HeldIsMissing
  <1>5. RequestsInv
    BY DEF DeploymentInit, Init, RequestsInv, Asks
  <1> QED BY <1>2, <1>3, <1>4, <1>5 DEF DeploymentInv

LEMMA DeploymentStep == DeploymentInv /\ [DeploymentNext]_vars => DeploymentInv'
  <1> SUFFICES ASSUME DeploymentInv, [DeploymentNext]_vars PROVE DeploymentInv'
    OBVIOUS
  <1>1. CASE \E m \in Runners : Migrate(m)
    BY <1>1, MigrateStep
  <1>2. CASE \E s \in Seeders :
                \/ SeedStart(s) \/ SeedAudit(s) \/ CommitAudit(s) \/ SeedRows(s) \/ CommitRows(s) \/ SeedFails(s)
    BY <1>2, SeedQuietStep, CommitRowsStep
  <1>3. CASE \E r \in Requests : Request(r)
    BY <1>3, RequestStep
  <1>4. CASE UNCHANGED vars
    <2> USE <1>4 DEF vars, account, ledger, seeder, rows, request, history, DeploymentInv
    <2>1. UNCHANGED <<Names, Emails>>
      BY DEF Names, Emails
    <2>2. DeploymentTypeOK'
      BY <2>1 DEF DeploymentTypeOK, TypeOK, M!TypeOK
    <2>3. MigrationsInv' /\ SeedsInv'
      BY <2>1 DEF MigrationsInv, M!MigrationsAreWhole, SeedsInv, HeldIsMissing
    <2>4. RequestsInv'
      BY <2>1 DEF RequestsInv, Asks
    <2> QED BY <2>2, <2>3, <2>4
  <1> QED BY <1>1, <1>2, <1>3, <1>4 DEF DeploymentNext

THEOREM DeploymentInvariance == DeploymentSpec => []DeploymentInv
  <1> QED BY DeploymentStart, DeploymentStep, PTL DEF DeploymentSpec

\* Each variable has its type, the foreign key of users holds, and no row is without
\* its table, whoever runs beside (runMigrations.js, runSeeds.js, the API).
THEOREM DeploymentTypes == DeploymentSpec => []DeploymentTypeOK
  <1>1. DeploymentInv => DeploymentTypeOK
    BY DEF DeploymentInv
  <1> QED BY <1>1, DeploymentInvariance, PTL

\* However many requests and runs of the seeds race to make an account, no two emails
\* differ but for their case (createUser, 002_seed_departments_and_admin_user.sql).
THEOREM OneAccount == DeploymentSpec => []OneAccountPerAddress
  <1>1. DeploymentInv => OneAccountPerAddress
    <2> SUFFICES ASSUME DeploymentInv, NEW u \in users, NEW v \in users, u.email.word = v.email.word
                 PROVE  u = v
      BY DEF OneAccountPerAddress
    <2>1. u.email \in Key /\ v.email \in Key /\ u.email.spelling = v.email.spelling
      BY DEF DeploymentInv, DeploymentTypeOK, TypeOK, User, RequestsInv
    <2>2. u.email = v.email
      BY <2>1 DEF Key
    <2> QED BY <2>2 DEF DeploymentInv, RequestsInv
  <1> QED BY <1>1, DeploymentInvariance, PTL

\* Two departments with a name that differs but for its case are there only because two
\* requests raced or the seeds made one, and the seeds repeat no audit log they saw
\* (createDepartment, 001_seed_audit_logs.sql).
THEOREM Doubles == DeploymentSpec => []DoublesRaced
  <1>1. DeploymentInv => DoublesRaced
    BY DEF DeploymentInv, RequestsInv, SeedsInv, DoublesRaced
  <1> QED BY <1>1, DeploymentInvariance, PTL

\* Whoever runs beside and wherever a script dies, a migration is recorded exactly when
\* its tables are there, and who is told 0 has what the script is for (runMigration, runSeed).
THEOREM TrueScripts == DeploymentSpec => []ScriptsAreTrue
  <1>1. DeploymentInv => ScriptsAreTrue
    BY DEF DeploymentInv, MigrationsInv, SeedsInv, ScriptsAreTrue
  <1> QED BY <1>1, DeploymentInvariance, PTL

\* Whoever races with whom, a caller is told what is so: a 201 made a row that stays, a
\* 409 is about a row that is there, a 404 or 401 about one that was not, and only a failing
\* database or a body it cannot store is a 500 (createUser, createDepartment, login,
\* registerManual).
THEOREM TrueAnswers == DeploymentSpec => []AnswerIsTrue
  <1>1. DeploymentInit => DeploymentInv /\ AnswersInv
    <2> SUFFICES ASSUME DeploymentInit PROVE AnswersInv
      BY DeploymentStart
    <2>1. Nothing.misfit = "none" /\ Nothing.kind = "audit"
      BY DEF Nothing
    <2> QED BY <2>1 DEF DeploymentInit, Init, AnswersInv, TellsTruth
  <1>2. DeploymentInv /\ AnswersInv /\ [DeploymentNext]_vars => (DeploymentInv /\ AnswersInv)'
    BY DeploymentStep, AnswersStep
  <1>3. AnswersInv => AnswerIsTrue
    BY DEF AnswersInv, TellsTruth, AnswerIsTrue, KeysOf
  <1> QED BY <1>1, <1>2, <1>3, PTL DEF DeploymentSpec

===================================================================================
