------------------------ MODULE DatabaseMaintenance ------------------------
(***************************************************************************)
(* Database maintenance of the backend: the versioned migrations of the    *)
(* execution log table (backend/soj_backend/database_migrations.py and     *)
(* migrations/versions), the provisioning and the validation of the        *)
(* runtime role (database_access.py), and the command that runs them       *)
(* (database_admin.py), against PostgreSQL.                                *)
(*                                                                         *)
(* Several runs may be under way at once.  A migration is one transaction: *)
(* it writes revisions and, with its first DDL, holds the log table's      *)
(* catalog rows until it is over; others wait for them or fail.  A         *)
(* statement may fail and a client may disappear at any point: the         *)
(* transaction is rolled back, or was already committed.                   *)
(***************************************************************************)
EXTENDS Integers, Sequences, Functions

CONSTANTS
    Runs,     \* invocations of database_admin
    Nobody,   \* no run
    MaxRows   \* bound: ids of execution logs

ASSUME NobodyAssumption == Nobody \notin Runs
ASSUME MaxRowsAssumption == MaxRows \in Nat

VARIABLES
    recorded,  \* revisions in soj_schema_migrations
    table,     \* execution_logs: its columns, its rows by id, whether the role is granted it
    role,      \* the runtime role
    grants,    \* privileges outside the log table, of the role and of PUBLIC
    advisory,  \* run that holds the migration lock
    locked,    \* run that holds the catalog rows of execution_logs
    tx,        \* what each transaction has changed, and how many revisions it counts
    phase,     \* of each run
    target,    \* argument of each run
    last,      \* history: run whose migration committed last
    backend    \* it is down, has validated the database, or takes requests

schema   == <<recorded, table>>
access   == <<role, grants>>
runVars  == <<advisory, locked, tx, phase, target, last>>
vars     == <<schema, access, runVars, backend>>

Known   == <<"v0001", "v0002">>
Targets == {"base", "v0001", "v0002", "head"}
Count   == [base |-> 0, v0001 |-> 1, v0002 |-> 2, head |-> Len(Known)]
Applied(n) == {Known[i] : i \in 1..n}

\* The columns of a schema of n revisions; those of one revision go together.
Columns == [n \in 0..Len(Known) |-> IF n = 0 THEN {} ELSE
                IF n = 1 THEN {"legacy"} ELSE {"legacy", "structured"}]
Matches(revisions, columns) ==
    \E n \in 0..Len(Known) : revisions = Applied(n) /\ columns = Columns[n]

\* A row is the judge's legacy code, NULL if there was none, and the verdict.
Codes == {"1", "2", "3", "4", "NULL"}
Legacy(code) == [code |-> code, verdict |-> "none"]
LegacyRows(ids, code) == [i \in ids |-> Legacy(code)]

LegacyCode == [accepted |-> "1", wrong_image |-> "2", wrong_answer |-> "3",
               wrong_text_and_image |-> "4", execution_failure |-> "4", judge_error |-> "4"]

\* mutant: the codes are taken for a ranking.
BackfilledInOrder(code) ==
    CASE code = "1" -> "accepted"
      [] code = "2" -> "wrong_answer"
      [] code = "3" -> "wrong_image"
      [] code = "4" -> "legacy_failure"
      [] OTHER -> "legacy_unknown"
\* What v0002 writes into a row from before it.
Backfilled(code) ==
    CASE code = "1" -> "accepted"
      [] code = "2" -> "wrong_image"
      [] code = "3" -> "wrong_answer"
      [] code = "4" -> "legacy_failure"
      [] OTHER -> "legacy_unknown"
WithVerdicts(rows) == [i \in DOMAIN rows |-> [rows[i] EXCEPT !.verdict = Backfilled(rows[i].code)]]
OldColumns(rows)   == [i \in DOMAIN rows |-> [rows[i] EXCEPT !.verdict = "none"]]

NoRows    == LegacyRows({}, "NULL")
NoTable   == [columns |-> {}, rows |-> NoRows, granted |-> FALSE]
Untouched == [columns |-> {"untouched"}, rows |-> NoRows, granted |-> FALSE]
NoTx == [inserted |-> {}, deleted |-> {}, table |-> Untouched, count |-> 0]

\* What a statement of r sees: what is committed, and its own changes.
Revisions(r) == (recorded \ tx[r].deleted) \cup tx[r].inserted
LogTable(r)  == IF tx[r].table = Untouched THEN table ELSE tx[r].table

\* An empty database, one this program has left, one from before it kept
\* revisions, and ones it must not take for its own: a later release's, a gap,
\* and tables and records restored from different backups.
SomeSchemas ==
    {<<{}, {}>>, <<{}, {"legacy"}>>, <<{"v0001"}, {"legacy"}>>,
     <<{}, {"other"}>>, <<{}, {"legacy", "structured"}>>, <<{"v0001"}, {"legacy", "structured"}>>,
     <<{"v0001", "future"}, {"legacy"}>>, <<{"v0002"}, {"legacy", "structured"}>>}

Init ==
    /\ \E s \in SomeSchemas, code \in Codes :
          /\ recorded = s[1]
          /\ table = [columns |-> s[2], granted |-> FALSE,
                      rows |-> LegacyRows(IF s[2] = {"legacy"} THEN {1} ELSE {}, code)]
    /\ role \in {"absent", "unprivileged", "unsafe"}
    /\ grants \in {{"public"}, {"public", "foreign"}}
    /\ advisory = Nobody /\ locked = Nobody /\ last = Nobody
    /\ tx = [r \in Runs |-> NoTx]
    /\ phase = [r \in Runs |-> "new"] /\ target = [r \in Runs |-> "head"]
    /\ backend = "down"

-----------------------------------------------------------------------------
\* database_admin.main up to migrate_database.
Start(r) ==
    /\ phase[r] = "new"
    /\ phase' = [phase EXCEPT ![r] = "locking"]
    /\ \E t \in Targets : target' = [target EXCEPT ![r] = t]
    /\ UNCHANGED <<schema, access, advisory, locked, tx, last, backend>>

\* _acquire_migration_lock; a run that waits too long fails (Fail).
AcquireMigrationLock(r) ==
    /\ phase[r] = "locking" /\ advisory = Nobody
    /\ advisory' = r
    /\ phase' = [phase EXCEPT ![r] = "locked"]
    /\ UNCHANGED <<schema, access, locked, tx, target, last, backend>>

\* mutant: structured columns are not looked for.
HasLegacyColumns(columns) == "legacy" \in columns
\* A log table without revisions is taken for the baseline, or for none of ours.
IsLegacy(columns) == "legacy" \in columns /\ "structured" \notin columns

\* _stamp_unversioned_legacy_database and _applied_revisions.
Stamp(r) ==
    LET stamped == IF recorded = {} /\ table.columns # {} THEN {"v0001"} ELSE {}
    IN /\ phase[r] = "locked"
       /\ stamped # {} => IsLegacy(table.columns)
       /\ \E n \in 0..Len(Known) :
             /\ recorded \cup stamped = Applied(n)
             /\ tx' = [tx EXCEPT ![r].inserted = stamped, ![r].count = n]
       /\ phase' = [phase EXCEPT ![r] = "migrating"]
       /\ UNCHANGED <<schema, access, advisory, locked, target, last, backend>>

\* DDL waits for whoever holds the table's catalog rows, and holds them until
\* its transaction is over.
Alter(r, new) ==
    /\ locked \in {Nobody, r} /\ locked' = r
    /\ tx' = [tx EXCEPT ![r] = new]
    /\ UNCHANGED <<schema, access, advisory, phase, target, last, backend>>

\* upgrade of v0001 and v0002, and the record of it.
Upgraded(n, t) ==
    IF n = 1 THEN [NoTable EXCEPT !.columns = {"legacy"}]
    ELSE [t EXCEPT !.columns = @ \cup {"structured"}, !.rows = WithVerdicts(@)]
CanUpgrade(n, columns) == IF n = 1 THEN columns = {} ELSE IsLegacy(columns)

Upgrade(r) ==
    LET n == tx[r].count + 1
    IN /\ phase[r] = "migrating" /\ tx[r].count < Count[target[r]]
       /\ CanUpgrade(n, LogTable(r).columns)
       /\ Alter(r, [tx[r] EXCEPT !.count = n, !.inserted = @ \cup {Known[n]},
                                 !.deleted = @ \ {Known[n]}, !.table = Upgraded(n, LogTable(r))])

\* downgrade of v0002 and v0001; what is dropped takes its grants along.
Downgraded(n, t) ==
    IF n = 1 THEN NoTable
    ELSE [t EXCEPT !.columns = @ \ {"structured"}, !.rows = OldColumns(@)]
CanDowngrade(n, columns) == n = 1 \/ "structured" \in columns

Downgrade(r) ==
    LET n == tx[r].count
    IN /\ phase[r] = "migrating" /\ n > Count[target[r]]
       /\ CanDowngrade(n, LogTable(r).columns)
       /\ Alter(r, [tx[r] EXCEPT !.count = n - 1, !.inserted = @ \ {Known[n]},
                                 !.deleted = @ \cup {Known[n]}, !.table = Downgraded(n, LogTable(r))])

\* The transaction of r is over and its locks are free.
Release(r) ==
    /\ tx' = [tx EXCEPT ![r] = NoTx]
    /\ advisory' = IF advisory = r THEN Nobody ELSE advisory
    /\ locked' = IF locked = r THEN Nobody ELSE locked

\* mutant: the role is left alone when there is nothing to migrate.
ProvisionAfterChanges(r) ==
    IF target[r] = "head" /\ tx[r].table # Untouched THEN "provisioning" ELSE "completed"
\* main sets up the role whenever it is asked for head.
AfterMigration(r) == IF target[r] = "head" THEN "provisioning" ELSE "completed"

Commit(r) ==
    /\ phase[r] = "migrating" /\ tx[r].count = Count[target[r]]
    /\ \E n \in 0..Len(Known) : Revisions(r) = Applied(n)
    /\ recorded' = Revisions(r) /\ table' = LogTable(r)
    /\ Release(r)
    /\ last' = r
    /\ phase' = [phase EXCEPT ![r] = AfterMigration(r)]
    /\ UNCHANGED <<access, target, backend>>

\* _check_role and _check_privileges: what the role needs, and nothing else.
Policy == {"database", "versions"}
RoleAccepted(aRole) == aRole = "unprivileged"
PrivilegesMatch(some, granted) == some = Policy /\ granted

\* provision_runtime_role, in a transaction of its own under a lock of its own;
\* its grants wait for a migration that holds the table.  Privileges somebody
\* else has granted survive its REVOKE.
ProvisionRuntimeRole(r) ==
    /\ phase[r] = "provisioning" /\ locked = Nobody /\ table.columns # {}
    /\ role' = IF role = "absent" THEN "unprivileged" ELSE role
    /\ RoleAccepted(role')
    /\ grants' = (grants \ {"public"}) \cup Policy
    /\ table' = [table EXCEPT !.granted = TRUE]
    /\ PrivilegesMatch(grants', table'.granted)
    /\ phase' = [phase EXCEPT ![r] = "completed"]
    /\ UNCHANGED <<recorded, advisory, locked, tx, target, last, backend>>

\* The engine is disposed of and the revision printed.
Report(r) ==
    /\ phase[r] = "completed"
    /\ phase' = [phase EXCEPT ![r] = "reported"]
    /\ UNCHANGED <<schema, access, advisory, locked, tx, target, last, backend>>

\* A check or a statement fails, a lock is not to be had in time, the process
\* is killed, or only the answer to a COMMIT is lost.
Fail(r) ==
    /\ phase[r] \notin {"new", "reported", "failed"}
    /\ phase' = [phase EXCEPT ![r] = "failed"]
    /\ Release(r)
    /\ UNCHANGED <<schema, access, target, last, backend>>

-----------------------------------------------------------------------------
\* validate_runtime_database
Accepted ==
    recorded = Applied(Len(Known)) /\ RoleAccepted(role) /\ PrivilegesMatch(grants, table.granted)

\* prune_execution_logs keeps some rows, by their age and the id window
\* (ExecutionLog says which).  Its DELETE, like the INSERT of a save, needs the
\* grant and waits for a migration that holds the table.
Retained(rows) == {Restrict(rows, ids) : ids \in SUBSET DOMAIN rows}
CanWrite       == locked = Nobody /\ table.granted

\* The backend starts, whatever maintenance is under way: it validates ...
StartBackend ==
    /\ backend = "down" /\ Accepted
    /\ backend' = "starting"
    /\ UNCHANGED <<schema, access, runVars>>

\* ... and then prunes in a transaction of its own, before it takes requests.
Prune ==
    /\ backend = "starting" /\ CanWrite
    /\ \E rows \in Retained(table.rows) : table' = [table EXCEPT !.rows = rows]
    /\ backend' = "serving"
    /\ UNCHANGED <<recorded, access, runVars>>

\* It stops, or the prune fails and it does not start.
StopBackend ==
    /\ backend # "down"
    /\ backend' = "down"
    /\ UNCHANGED <<schema, access, runVars>>

WithLog(rows, id, row) == [i \in DOMAIN rows \cup {id} |-> IF i = id THEN row ELSE rows[i]]

\* A save inserts its row, naming every column, prunes, and commits.
SaveLog ==
    /\ backend = "serving" /\ CanWrite /\ "structured" \in table.columns
    /\ \E id \in 1..MaxRows, v \in DOMAIN LegacyCode, rows \in Retained(table.rows) :
          /\ \A i \in DOMAIN table.rows : i < id
          /\ table' = [table EXCEPT !.rows =
                          WithLog(rows, id, [code |-> LegacyCode[v], verdict |-> v])]
    /\ UNCHANGED <<recorded, access, runVars, backend>>

AllOver == (\A r \in Runs : phase[r] \in {"reported", "failed"}) /\ UNCHANGED vars

Run(r) ==
    \/ Start(r) \/ AcquireMigrationLock(r) \/ Stamp(r) \/ Upgrade(r) \/ Downgrade(r)
    \/ Commit(r) \/ ProvisionRuntimeRole(r) \/ Report(r) \/ Fail(r)

Next == (\E r \in Runs : Run(r)) \/ StartBackend \/ Prune \/ StopBackend \/ SaveLog \/ AllOver

Spec == Init /\ [][Next]_vars

-----------------------------------------------------------------------------
\* Whatever runs meet, fail or die, a schema that changes becomes one that its
\* revisions describe; a schema the program does not know is only ever dropped
\* as a whole, on request, never built on (migrate_database, the conflict checks
\* of _stamp_unversioned_legacy_database and of the versions).
SchemaMatchesRecord ==
    [][LET s == <<recorded, table.columns>>
       IN s' # s => /\ Matches(recorded', table'.columns)
                    /\ \/ Matches(recorded, table.columns)
                       \/ recorded = {} /\ table.columns = {"legacy"}
                       \/ recorded' = {}]_vars

\* The code a row's verdict stands for.
CodeOf(verdict) ==
    IF verdict \in DOMAIN LegacyCode THEN LegacyCode[verdict]
    ELSE IF verdict = "legacy_failure" THEN "4" ELSE "NULL"

\* No migration loses a row, or changes its legacy code, except one to base;
\* beside that only the retention of a backend that starts or saves takes rows
\* away.  And through every upgrade and rollback a row's verdict says what its
\* legacy code says (v0002 upgrade and downgrade, JudgeResult.legacy_code,
\* prune_execution_logs).
RowsKeepTheirJudgment ==
    [][/\ \A i \in DOMAIN table.rows :
             \/ i \in DOMAIN table'.rows /\ table'.rows[i].code = table.rows[i].code
             \/ last' # Nobody /\ phase[last'] = "migrating" /\ target[last'] = "base"
             \/ /\ i \notin DOMAIN table'.rows
                /\ backend' = "serving" /\ UNCHANGED <<recorded, access, runVars>>
       /\ \A i \in DOMAIN table'.rows :
             LET row == table'.rows[i]
             IN IF "structured" \in table'.columns
                THEN row.verdict # "none" /\ CodeOf(row.verdict) = row.code
                ELSE row.verdict = "none"]_vars

\* A run that reports success has done what it reports, unless another run has
\* committed a migration since, be it one that had nothing to change: after
\* "head" the backend's own validation passes, even when the table was dropped
\* and made again (database_admin.main, provision_runtime_role,
\* validate_runtime_database).
ReportsAreTrue ==
    \A r \in Runs : phase[r] = "reported" /\ last = r =>
        /\ recorded = Applied(Count[target[r]])
        /\ target[r] = "head" => Accepted
=============================================================================
