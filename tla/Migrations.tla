-------------------------------- MODULE Migrations --------------------------------
(***************************************************************************)
(* scripts/runMigrations.js: processes that apply the migration files in   *)
(* order and record each in schema_migrations, perhaps several at a time,  *)
(* any of which may lose its connection or be killed.                      *)
(*                                                                         *)
(* BEGIN, the file, the INSERT and COMMIT go to the pool one after the     *)
(* other and so to the same connection; a statement that fails costs the   *)
(* pool that connection, and PostgreSQL rolls its transaction back: the    *)
(* ROLLBACK that follows finds nothing to do.  A file is known by its      *)
(* place in the sorted directory, and all its statements are IF NOT        *)
(* EXISTS.                                                                 *)
(***************************************************************************)
EXTENDS Naturals, FiniteSets

CONSTANTS
    Files,   \* how many migration files there are
    Runners  \* runs of the script that may be under way at a time

VARIABLES
    tables,   \* files whose tables exist
    recorded, \* files in schema_migrations
    at,       \* where each runner stands
    pending,  \* its pendingMigrations, those done taken away
    zero      \* some run has ended with exit code 0

ledger == <<tables, recorded>>
runner == <<at, pending, zero>>
vars   == <<ledger, runner>>

Places == {"idle", "ensure", "read", "loop", "begun", "waiting", "applied", "inserted"}

TypeOK ==
    /\ tables \subseteq 1 .. Files /\ recorded \subseteq 1 .. Files
    /\ at \in [Runners -> Places]
    /\ pending \in [Runners -> SUBSET (1 .. Files)]
    /\ zero \in BOOLEAN
    /\ \A m \in Runners : at[m] \in {"begun", "waiting", "applied", "inserted"} => pending[m] # {}

\* A new database, which has no tables.
Init ==
    /\ tables = {} /\ recorded = {}
    /\ at = [m \in Runners |-> "idle"]
    /\ pending = [m \in Runners |-> {}]
    /\ zero = FALSE

-----------------------------------------------------------------------------------
Goto(m, place) == at' = [at EXCEPT ![m] = place] /\ UNCHANGED <<pending, zero>>

\* The process ends with an exit code, 1 if it is killed.
Exit(m, code) ==
    /\ at' = [at EXCEPT ![m] = "idle"]
    /\ pending' = [pending EXCEPT ![m] = {}]
    /\ zero' = (zero \/ code = "0")

\* The file a runner is at, and the runners whose transaction has touched its tables.
File(m) == CHOOSE f \in pending[m] : \A g \in pending[m] : f <= g
Holding(f) == {m \in Runners : at[m] \in {"applied", "inserted"} /\ File(m) = f}

Start(m) == at[m] = "idle" /\ Goto(m, "ensure") /\ UNCHANGED ledger

\* CREATE TABLE IF NOT EXISTS schema_migrations: two at once may collide in the
\* catalog, and the loser ends.
EnsureMigrationsTable(m) ==
    /\ at[m] = "ensure"
    /\ \/ Goto(m, "read")
       \/ (\E n \in Runners \ {m} : at[n] \in {"ensure", "read"}) /\ Exit(m, "1")
    /\ UNCHANGED ledger

\* getExecutedMigrations against the directory.
GetExecutedMigrations(m) ==
    /\ at[m] = "read"
    /\ LET missing == 1 .. Files \ recorded
       IN IF missing = {}
          THEN Exit(m, "0")
          ELSE /\ at' = [at EXCEPT ![m] = "loop"]
               /\ pending' = [pending EXCEPT ![m] = missing]
               /\ UNCHANGED zero
    /\ UNCHANGED ledger

\* runMigration: BEGIN; or the end of the loop.
Begin(m) ==
    /\ at[m] = "loop"
    /\ IF pending[m] = {} THEN Exit(m, "0") ELSE Goto(m, "begun")
    /\ UNCHANGED ledger

\* The file itself: it waits for a transaction that creates the same tables.  If they
\* were there before, it changes nothing.
RunFile(m) ==
    /\ at[m] = "begun"
    /\ Goto(m, IF Holding(File(m)) = {} THEN "applied" ELSE "waiting")
    /\ UNCHANGED ledger

\* The wait ends with the other transaction: if that one was rolled back the file goes
\* on; if it was committed the file's own CREATE fails in the catalog, or it changes
\* nothing and the INSERT fails next.
WaitEnds(m) ==
    /\ at[m] = "waiting"
    /\ Holding(File(m)) = {}
    /\ \/ Goto(m, "applied")
       \/ File(m) \in tables /\ Exit(m, "1")
    /\ UNCHANGED ledger

\* The INSERT into schema_migrations, whose filename is UNIQUE.
Record(m) ==
    /\ at[m] = "applied"
    /\ IF File(m) \in recorded THEN Exit(m, "1") ELSE Goto(m, "inserted")
    /\ UNCHANGED ledger

\* The file is applied in one transaction and recorded in another (ScriptsAreTrue).
CommitApart(m) ==
    /\ at[m] = "inserted"
    /\ tables' = tables \cup {File(m)}
    /\ \/ /\ recorded' = recorded \cup {File(m)}
          /\ at' = [at EXCEPT ![m] = "loop"]
          /\ pending' = [pending EXCEPT ![m] = @ \ {File(m)}]
          /\ UNCHANGED zero
       \/ UNCHANGED recorded /\ Exit(m, "1")

\* COMMIT; it may be in although its answer, or the process, is lost.
Commit(m) ==
    /\ at[m] = "inserted"
    /\ tables' = tables \cup {File(m)}
    /\ recorded' = recorded \cup {File(m)}
    /\ \/ /\ at' = [at EXCEPT ![m] = "loop"]
          /\ pending' = [pending EXCEPT ![m] = @ \ {File(m)}]
          /\ UNCHANGED zero
       \/ Exit(m, "1")

\* A statement fails or the process is killed, and its transaction is rolled back.
Fail(m) ==
    /\ at[m] # "idle"
    /\ Exit(m, "1")
    /\ UNCHANGED ledger

RunnerSteps(m) ==
    \/ Start(m) \/ EnsureMigrationsTable(m) \/ GetExecutedMigrations(m) \/ Begin(m)
    \/ RunFile(m) \/ WaitEnds(m) \/ Record(m) \/ Commit(m) \/ Fail(m)

-----------------------------------------------------------------------------------
\* Whoever runs beside and wherever a runner dies: a file is recorded exactly when
\* its tables are there, no file before all those it builds on, and who is told 0 has
\* every file applied (runMigration, over a pool of connections).
MigrationsAreWhole ==
    /\ tables = recorded
    /\ \A f \in recorded : 1 .. f \subseteq recorded
    /\ zero => recorded = 1 .. Files

===================================================================================
