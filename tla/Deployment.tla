-------------------------------- MODULE Deployment --------------------------------
(***************************************************************************)
(* A database from its first migration to its use: the migrations create   *)
(* the tables, scripts/runSeeds.js fills them with the first department    *)
(* and administrator, who then lets users in (Registration), while seeds   *)
(* and migrations may be run again beside each other and beside the API.   *)
(*                                                                         *)
(* A seed file is one transaction: what it inserts is seen when it         *)
(* commits, and until then whoever inserts the same key waits.  The first  *)
(* writes an audit log where there is none, the second a department and    *)
(* an administrator ON CONFLICT DO NOTHING.                                *)
(***************************************************************************)
EXTENDS Registration

CONSTANTS
    Files,    \* migration files; 1 is of audit_logs, 2 of departments, 3 of users
    Runners,  \* runs of the migrations that may be under way at a time
    Seeders,  \* runs of the seeds that may be under way at a time
    SeedWord  \* the name and the email of the second seed

ASSUME DeploymentAssumption == Files \in Nat /\ Files >= 3 /\ SeedWord \in Words

VARIABLES
    tables, recorded, at, pending, zero, \* of Migrations
    seedAt,     \* where each seeder stands
    held,       \* what its transaction has inserted
    seedZero,   \* some run of the seeds has ended with exit code 0
    seeded,     \* how often the seed's audit log is there
    late        \* the seeders that began when it was there

M == INSTANCE Migrations

ledger == <<tables, recorded, at, pending, zero>>
seeder == <<seedAt, held, seedZero, seeded, late>>
vars   == <<account, ledger, seeder>>

SeedDepartment == [word |-> SeedWord, spelling |-> "mixed"]
SeedEmail      == [word |-> SeedWord, spelling |-> "lower"]

\* Each variable has its type, the foreign key holds, and no row is without its table.
DeploymentTypeOK ==
    /\ TypeOK /\ M!TypeOK
    /\ seedAt \in [Seeders -> {"idle", "audit", "audited", "rows", "inserted"}]
    /\ held \in [Seeders -> SUBSET {"audit", "department", "user"}]
    /\ seedZero \in BOOLEAN
    /\ seeded \in Nat
    /\ late \subseteq Seeders
    /\ audits # {} \/ seeded > 0 => 1 \in tables
    /\ departments # {} => 2 \in tables
    /\ users # {} => 3 \in tables

DeploymentInit ==
    /\ Init /\ M!Init
    /\ users = {} /\ departments = {}
    /\ seedAt = [s \in Seeders |-> "idle"]
    /\ held = [s \in Seeders |-> {}]
    /\ seedZero = FALSE /\ seeded = 0 /\ late = {}

-----------------------------------------------------------------------------------
(* scripts/runSeeds.js. *)

SeedGoto(s, place, inserts) ==
    /\ seedAt' = [seedAt EXCEPT ![s] = place]
    /\ held' = [held EXCEPT ![s] = inserts]
    /\ UNCHANGED seedZero

SeedExit(s, code) ==
    /\ seedAt' = [seedAt EXCEPT ![s] = "idle"]
    /\ held' = [held EXCEPT ![s] = {}]
    /\ seedZero' = (seedZero \/ code = "0")
    /\ late' = late \ {s}

AtWork(s) == seedAt[s] # "idle"

\* Bound: once requests have come, one run of the seeds at a time is beside them.
SeedStart(s) ==
    /\ seedAt[s] = "idle"
    /\ (\A r \in Requests : pc[r] = "new") \/ ~ \E t \in Seeders : AtWork(t)
    /\ SeedGoto(s, "audit", {})
    /\ late' = IF seeded > 0 THEN late \cup {s} ELSE late
    /\ UNCHANGED <<account, ledger, seeded>>

\* Its row is inserted whether it is there or not (DoublesRaced).
SeedAuditAlways(s) ==
    /\ seedAt[s] = "audit" /\ 1 \in tables
    /\ SeedGoto(s, "audited", {"audit"})
    /\ UNCHANGED <<account, ledger, seeded, late>>

\* 001_seed_audit_logs.sql: WHERE NOT EXISTS sees what is committed.
SeedAudit(s) ==
    /\ seedAt[s] = "audit" /\ 1 \in tables
    /\ SeedGoto(s, "audited", IF seeded = 0 THEN {"audit"} ELSE {})
    /\ UNCHANGED <<account, ledger, seeded, late>>

\* COMMIT of the first file; it may be in although the process hears nothing of it.
CommitAudit(s) ==
    /\ seedAt[s] = "audited"
    /\ seeded' = IF "audit" \in held[s] THEN seeded + 1 ELSE seeded
    /\ \/ SeedGoto(s, "rows", {}) /\ UNCHANGED late
       \/ SeedExit(s, "1")
    /\ UNCHANGED <<account, ledger>>

Holds(row) == \E s \in Seeders : row \in held[s]

\* 002_seed_departments_and_admin_user.sql: ON CONFLICT DO NOTHING waits for a
\* transaction that has inserted the same key.
SeedRows(s) ==
    /\ seedAt[s] = "rows" /\ {2, 3} \subseteq tables
    /\ ~ Holds("department") /\ ~ Holds("user")
    /\ SeedGoto(s, "inserted", (IF SeedDepartment \in Names THEN {} ELSE {"department"})
                                 \cup (IF SeedEmail \in Emails THEN {} ELSE {"user"}))
    /\ UNCHANGED <<account, ledger, seeded, late>>

CommitRows(s) ==
    /\ seedAt[s] = "inserted"
    /\ departments' = departments \cup
           (IF "department" \in held[s] THEN {[name |-> SeedDepartment, maker |-> Seed]} ELSE {})
    /\ users' = users \cup
           (IF "user" \in held[s] THEN {[email |-> SeedEmail, department |-> SeedDepartment]} ELSE {})
    /\ SeedExit(s, "0") \/ SeedExit(s, "1")
    /\ UNCHANGED <<audits, request, history, ledger, seeded>>

\* A statement fails, as it must where its table is missing, or the process is
\* killed: the transaction is rolled back.
SeedFails(s) ==
    /\ AtWork(s)
    /\ SeedExit(s, "1")
    /\ UNCHANGED <<account, ledger, seeded>>

-----------------------------------------------------------------------------------
(* The three together. *)

\* Bound: the requests come once the scripts have said that they are done and no
\* migration is under way, which would touch no table they ask for.
\* Bound: of a word that is a name there are two spellings, and a user is put into a
\* department of the seeds' name or into none.
Arrives(r) ==
    \E kind \in Kinds, v \in UNION {VerdictsOf(k) : k \in Kinds} :
        /\ v \in VerdictsOf(kind)
        /\ zero /\ seedZero /\ \A m \in Runners : at[m] = "idle"
        /\ Cardinality({s \in Seeders : AtWork(s)}) <= 1
        /\ \/ ArriveRefused(r, kind, v)
           \/ \E key \in Key, department \in {k \in Key : k.word = SeedWord} \cup {NoDept} :
                 Arrive(r, kind, key, department, v)

\* No INSERT has to wait for a seed: by the time a request comes the seeds' rows are
\* there, and another run holds no key.
Request(r) ==
    /\ Arrives(r) \/ RequestSteps(r)
    /\ UNCHANGED <<ledger, seeder>>

\* Bound: nobody starts the migrations again once there is an administrator.
Migrate(m) ==
    /\ users = {} \/ at[m] # "idle"
    /\ M!RunnerSteps(m)
    /\ UNCHANGED <<account, seeder>>

DeploymentNext ==
    \/ \E m \in Runners : Migrate(m)
    \/ \E s \in Seeders :
          \/ SeedStart(s) \/ SeedAudit(s) \/ CommitAudit(s) \/ SeedRows(s) \/ CommitRows(s) \/ SeedFails(s)
    \/ \E r \in Requests : Request(r)

DeploymentSpec == DeploymentInit /\ [][DeploymentNext]_vars

-----------------------------------------------------------------------------------
(* What holds in every state. *)

\* A department whose name another has but for its case is there only because two
\* requests raced to make them, or the seeds made one; no name is there twice; and the
\* seeds, run again and again, write their audit log again only if it was not there
\* when they began (createDepartment; README.md:249 on the seeds).
DoublesRaced ==
    /\ \A d, e \in departments :
           d # e /\ d.name.word = e.name.word =>
               d.name # e.name /\ (d.maker \in Requests => e.name \notin knew[d.maker])
    /\ \A s \in late : "audit" \notin held[s]

\* Whoever runs beside and wherever a script dies: a migration is recorded exactly
\* when its tables are there, none before those it builds on, and who is told 0 has
\* every migration applied, or the department and the administrator in their tables
\* (runMigration and runSeed, over a pool of connections).
ScriptsAreTrue ==
    /\ M!MigrationsAreWhole
    /\ seedZero => SeedEmail \in Emails /\ SeedDepartment \in Names /\ seeded > 0

===================================================================================
