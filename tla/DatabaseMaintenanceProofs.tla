---------------------- MODULE DatabaseMaintenanceProofs ----------------------
(***************************************************************************)
(* Proofs about DatabaseMaintenance, for every set of runs and every       *)
(* number of execution logs.                                               *)
(***************************************************************************)
EXTENDS DatabaseMaintenance, TLAPS

\* The steps, one disjunct each.
LEMMA NextCases ==
    ASSUME [Next]_vars
    PROVE  \/ \E r \in Runs : \/ Start(r) \/ AcquireMigrationLock(r) \/ Stamp(r)
                              \/ Upgrade(r) \/ Downgrade(r) \/ Commit(r)
                              \/ ProvisionRuntimeRole(r) \/ Report(r) \/ Fail(r)
           \/ StartBackend \/ StopBackend \/ Prune \/ SaveLog
           \/ UNCHANGED vars
BY DEF Next, Run, AllOver

\* The two revisions, and what a schema of each has.
LEMMA Revisions12 ==
    /\ Len(Known) = 2 /\ Known[1] = "v0001" /\ Known[2] = "v0002"
    /\ Applied(0) = {} /\ Applied(1) = {"v0001"} /\ Applied(2) = {"v0001", "v0002"}
    /\ Columns[0] = {} /\ Columns[1] = {"legacy"} /\ Columns[2] = {"legacy", "structured"}
<1>1. Len(Known) = 2 /\ Known[1] = "v0001" /\ Known[2] = "v0002"
  BY DEF Known
<1>2. 1..0 = {} /\ 1..1 = {1} /\ 1..2 = {1, 2} /\ 0..2 = {0, 1, 2}
  OBVIOUS
<1>3. Applied(0) = {} /\ Applied(1) = {"v0001"} /\ Applied(2) = {"v0001", "v0002"}
  BY <1>1, <1>2 DEF Applied
<1>4. Columns[0] = {} /\ Columns[1] = {"legacy"} /\ Columns[2] = {"legacy", "structured"}
  BY <1>1 DEF Columns
<1> QED
  BY <1>1, <1>3, <1>4

\* The revisions a target stands for.
LEMMA Targets12 ==
    /\ Count["base"] = 0 /\ Count["v0001"] = 1 /\ Count["v0002"] = 2 /\ Count["head"] = 2
    /\ \A t \in Targets : Count[t] \in 0..2 /\ (Count[t] = 0 <=> t = "base")
<1>1. Count["base"] = 0 /\ Count["v0001"] = 1 /\ Count["v0002"] = 2 /\ Count["head"] = 2
  BY Revisions12 DEF Count
<1> QED
  BY <1>1 DEF Targets

-----------------------------------------------------------------------------
(***************************************************************************)
(* Rows                                                                    *)
(***************************************************************************)
Verdicts == DOMAIN LegacyCode \cup {"legacy_failure", "legacy_unknown", "none"}
Rows     == [code : Codes, verdict : Verdicts]
Sets     == SUBSET {"legacy", "structured", "other", "untouched"}
Logs     == UNION {[ids -> Rows] : ids \in SUBSET Nat}
Tables   == [columns : Sets, rows : Logs, granted : BOOLEAN]

\* Every row's verdict says what its code says.
Judged(t) ==
    \A i \in DOMAIN t.rows :
        IF "structured" \in t.columns
        THEN t.rows[i].verdict # "none" /\ CodeOf(t.rows[i].verdict) = t.rows[i].code
        ELSE t.rows[i].verdict = "none"

\* The legacy codes of a log table.
RowCodes(t) == [i \in DOMAIN t.rows |-> t.rows[i].code]

\* What is in the logs, and what is one of them.
LEMMA LogsAre ==
    /\ \A ids \in SUBSET Nat : [ids -> Rows] \subseteq Logs
    /\ \A rows \in Logs :
          /\ DOMAIN rows \in SUBSET Nat /\ rows \in [DOMAIN rows -> Rows]
          /\ \A i \in DOMAIN rows : rows[i] \in Rows
<1>1. \A ids \in SUBSET Nat : [ids -> Rows] \subseteq Logs
  BY DEF Logs
<1>2. ASSUME NEW rows \in Logs
      PROVE  /\ DOMAIN rows \in SUBSET Nat /\ rows \in [DOMAIN rows -> Rows]
             /\ \A i \in DOMAIN rows : rows[i] \in Rows
  <2>1. PICK ids \in SUBSET Nat : rows \in [ids -> Rows]
    BY DEF Logs
  <2> QED
    BY <2>1
<1> QED
  BY <1>1, <1>2

\* Logs from before the revisions, and none.
LEMMA OldLogs ==
    ASSUME NEW ids \in SUBSET Nat, NEW code \in Codes
    PROVE  /\ LegacyRows(ids, code) \in Logs /\ DOMAIN LegacyRows(ids, code) = ids
           /\ \A i \in ids : LegacyRows(ids, code)[i].verdict = "none"
           /\ NoRows \in Logs /\ DOMAIN NoRows = {}
<1>1. \A c \in Codes : Legacy(c) \in Rows /\ Legacy(c).verdict = "none"
  BY DEF Legacy, Rows, Verdicts
<1>2. /\ LegacyRows(ids, code) \in [ids -> Rows]
      /\ \A i \in ids : LegacyRows(ids, code)[i].verdict = "none"
  BY <1>1 DEF LegacyRows
<1>3. NoRows \in [{} -> Rows]
  BY DEF NoRows, LegacyRows
<1> QED
  BY <1>2, <1>3, LogsAre

\* What v0002 writes into a row says what its code says.
LEMMA BackfilledCode ==
    \A code \in Codes : /\ Backfilled(code) \in Verdicts \ {"none"}
                        /\ CodeOf(Backfilled(code)) = code
<1>1. DOMAIN LegacyCode = {"accepted", "wrong_image", "wrong_answer", "wrong_text_and_image",
                           "execution_failure", "judge_error"}
  BY DEF LegacyCode
<1>2. LegacyCode.accepted = "1" /\ LegacyCode.wrong_image = "2" /\ LegacyCode.wrong_answer = "3"
  BY DEF LegacyCode
<1>3. ASSUME NEW code \in Codes
      PROVE  /\ Backfilled(code) \in Verdicts \ {"none"}
             /\ CodeOf(Backfilled(code)) = code
  <2>1. CASE code = "1"
    BY <1>1, <1>2, <2>1 DEF Backfilled, CodeOf, Verdicts
  <2>2. CASE code = "2"
    BY <1>1, <1>2, <2>2 DEF Backfilled, CodeOf, Verdicts
  <2>3. CASE code = "3"
    BY <1>1, <1>2, <2>3 DEF Backfilled, CodeOf, Verdicts
  <2>4. CASE code = "4"
    BY <1>1, <2>4 DEF Backfilled, CodeOf, Verdicts
  <2>5. CASE code = "NULL"
    BY <1>1, <2>5 DEF Backfilled, CodeOf, Verdicts
  <2> QED
    BY <2>1, <2>2, <2>3, <2>4, <2>5 DEF Codes
<1> QED
  BY <1>3

\* A row that is rewritten keeps its id.
LEMMA RowsRewritten ==
    ASSUME NEW rows \in Logs
    PROVE  /\ WithVerdicts(rows) \in Logs /\ OldColumns(rows) \in Logs
           /\ DOMAIN WithVerdicts(rows) = DOMAIN rows /\ DOMAIN OldColumns(rows) = DOMAIN rows
           /\ \A i \in DOMAIN rows :
                 /\ WithVerdicts(rows)[i].code = rows[i].code
                 /\ WithVerdicts(rows)[i].verdict = Backfilled(rows[i].code)
                 /\ rows[i].code \in Codes
                 /\ OldColumns(rows)[i].code = rows[i].code
                 /\ OldColumns(rows)[i].verdict = "none"
<1>1. DOMAIN rows \in SUBSET Nat /\ \A i \in DOMAIN rows : rows[i] \in Rows
  BY LogsAre
<1>2. ASSUME NEW i \in DOMAIN rows
      PROVE  LET with == [rows[i] EXCEPT !.verdict = Backfilled(rows[i].code)]
                 old  == [rows[i] EXCEPT !.verdict = "none"]
             IN  /\ with \in Rows /\ with.code = rows[i].code
                 /\ with.verdict = Backfilled(rows[i].code)
                 /\ old \in Rows /\ old.code = rows[i].code /\ old.verdict = "none"
                 /\ rows[i].code \in Codes
  <2>1. rows[i] \in Rows /\ Backfilled(rows[i].code) \in Verdicts /\ "none" \in Verdicts
    BY <1>1, BackfilledCode DEF Rows, Verdicts
  <2> QED
    BY <2>1 DEF Rows
<1>3. WithVerdicts(rows) \in [DOMAIN rows -> Rows] /\ OldColumns(rows) \in [DOMAIN rows -> Rows]
  BY <1>2 DEF WithVerdicts, OldColumns
<1>4. WithVerdicts(rows) \in Logs /\ OldColumns(rows) \in Logs
  BY <1>1, <1>3, LogsAre
<1> QED
  BY <1>2, <1>3, <1>4 DEF WithVerdicts, OldColumns

\* The migrations keep the codes of the rows, and leave their verdicts true.
LEMMA RowsMigrated ==
    ASSUME NEW t \in Tables, NEW n \in {1, 2}
    PROVE  /\ Upgraded(n, t) \in Tables /\ Downgraded(n, t) \in Tables
           /\ Judged(Upgraded(n, t)) /\ Judged(Downgraded(n, t))
           /\ n = 2 => /\ RowCodes(Upgraded(n, t)) = RowCodes(t)
                       /\ RowCodes(Downgraded(n, t)) = RowCodes(t)
           /\ n = 1 => Upgraded(n, t).rows = NoRows /\ Downgraded(n, t).rows = NoRows
<1>1. CASE n = 1
  <2>1. /\ Upgraded(n, t) = [columns |-> {"legacy"}, rows |-> NoRows, granted |-> FALSE]
        /\ Downgraded(n, t) = [columns |-> {}, rows |-> NoRows, granted |-> FALSE]
    BY <1>1 DEF Upgraded, Downgraded, NoTable
  <2>2. NoRows \in Logs /\ DOMAIN NoRows = {}
    BY OldLogs DEF Codes
  <2>3. Upgraded(n, t) \in Tables /\ Downgraded(n, t) \in Tables
    BY <2>1, <2>2 DEF Tables, Sets
  <2>4. Upgraded(n, t).rows = NoRows /\ Downgraded(n, t).rows = NoRows
    BY <2>1
  <2>5. Judged(Upgraded(n, t)) /\ Judged(Downgraded(n, t))
    BY <2>2, <2>4 DEF Judged
  <2> QED
    BY <1>1, <2>3, <2>4, <2>5
<1>2. CASE n = 2
  <2> DEFINE up == Upgraded(n, t)
             down == Downgraded(n, t)
  <2>1. /\ up = [t EXCEPT !.columns = @ \cup {"structured"}, !.rows = WithVerdicts(@)]
        /\ down = [t EXCEPT !.columns = @ \ {"structured"}, !.rows = OldColumns(@)]
    BY <1>2 DEF Upgraded, Downgraded
  <2>2. t.rows \in Logs
    BY DEF Tables
  <2>3. /\ up \in Tables /\ up.rows = WithVerdicts(t.rows) /\ "structured" \in up.columns
        /\ down \in Tables /\ down.rows = OldColumns(t.rows) /\ "structured" \notin down.columns
    <3>1. WithVerdicts(t.rows) \in Logs /\ OldColumns(t.rows) \in Logs
      BY <2>2, RowsRewritten
    <3>2. t.columns \cup {"structured"} \in Sets /\ t.columns \ {"structured"} \in Sets
      BY DEF Tables, Sets
    <3> QED
      BY <2>1, <3>1, <3>2 DEF Tables
  <2>4. Judged(up) /\ Judged(down)
    BY <2>2, <2>3, RowsRewritten, BackfilledCode DEF Judged
  <2>5. RowCodes(up) = RowCodes(t) /\ RowCodes(down) = RowCodes(t)
    BY <2>2, <2>3, RowsRewritten DEF RowCodes
  <2> QED
    BY <1>2, <2>3, <2>4, <2>5
<1> QED
  BY <1>1, <1>2

-----------------------------------------------------------------------------
(***************************************************************************)
(* Transactions and their locks                                            *)
(***************************************************************************)
Records      == {"v0001", "v0002", "future"}
Transactions == [inserted : SUBSET Records, deleted : SUBSET Records,
                 table : Tables, count : 0..2]
Phases == {"new", "locking", "locked", "migrating", "provisioning", "completed", "reported",
           "failed"}

TypeInv ==
    /\ recorded \in SUBSET Records
    /\ table \in Tables
    /\ tx \in [Runs -> Transactions]
    /\ phase \in [Runs -> Phases]
    /\ target \in [Runs -> Targets]

\* Only the owner of the migration lock has a transaction, and only the owner
\* of the catalog rows has changed the table in it.
LockInv ==
    /\ \A r \in Runs : phase[r] \in {"locked", "migrating"} => advisory = r
    /\ \A r \in Runs : phase[r] # "migrating" => tx[r] = NoTx
    /\ \A r \in Runs : tx[r].table # Untouched => locked = r

\* A transaction that has not changed anything, and the tables there may be.
LEMMA FirstTransaction ==
    /\ Untouched \in Tables /\ NoTable \in Tables /\ NoTx \in Transactions
    /\ NoTx.table = Untouched
    /\ \A t \in Tables : "untouched" \notin t.columns => t # Untouched
<1>1. NoRows \in Logs
  BY OldLogs DEF Codes
<1>2. Untouched \in Tables /\ NoTable \in Tables
  BY <1>1 DEF Untouched, NoTable, Tables, Sets
<1>3. NoTx \in Transactions /\ NoTx.table = Untouched
  BY <1>2 DEF NoTx, Transactions
<1>4. "untouched" \in Untouched.columns
  BY DEF Untouched
<1> QED
  BY <1>2, <1>3, <1>4

\* The table a statement of r sees is one of the tables.
LEMMA SeenTable == TypeInv => \A r \in Runs : LogTable(r) \in Tables /\ tx[r] \in Transactions
BY DEF TypeInv, LogTable, Transactions

\* What Upgrade does to the transaction of r.
LEMMA UpgradedTransaction ==
    ASSUME TypeInv, NEW r \in Runs, Upgrade(r)
    PROVE  LET n == tx[r].count + 1
           IN  /\ n \in {1, 2} /\ n <= Count[target[r]] /\ phase[r] = "migrating"
               /\ CanUpgrade(n, LogTable(r).columns)
               /\ tx' \in [Runs -> Transactions]
               /\ \A q \in Runs \ {r} : tx'[q] = tx[q]
               /\ tx'[r].count = n
               /\ tx'[r].inserted = tx[r].inserted \cup {Known[n]}
               /\ tx'[r].deleted = tx[r].deleted \ {Known[n]}
               /\ tx'[r].table = Upgraded(n, LogTable(r))
               /\ locked' = r
               /\ UNCHANGED <<schema, access, advisory, phase, target, last, backend>>
<1> DEFINE n == tx[r].count + 1
           u == [tx[r] EXCEPT !.count = n, !.inserted = @ \cup {Known[n]},
                              !.deleted = @ \ {Known[n]}, !.table = Upgraded(n, LogTable(r))]
<1>1. /\ phase[r] = "migrating" /\ tx[r].count < Count[target[r]]
      /\ CanUpgrade(n, LogTable(r).columns)
      /\ locked' = r /\ tx' = [tx EXCEPT ![r] = u]
      /\ UNCHANGED <<schema, access, advisory, phase, target, last, backend>>
  BY DEF Upgrade, Alter
<1>2. /\ tx[r] \in Transactions /\ tx[r].count \in 0..2 /\ Count[target[r]] \in 0..2
      /\ tx[r].inserted \in SUBSET Records /\ tx[r].deleted \in SUBSET Records
  BY Targets12 DEF TypeInv, Transactions
<1>3. n \in {1, 2} /\ n <= Count[target[r]]
  BY <1>1, <1>2
<1>4. Known[n] \in Records
  BY <1>3, Revisions12 DEF Records
<1>5. Upgraded(n, LogTable(r)) \in Tables
  BY <1>3, SeenTable, RowsMigrated
<1>6. /\ u \in Transactions /\ u.count = n
      /\ u.inserted = tx[r].inserted \cup {Known[n]} /\ u.deleted = tx[r].deleted \ {Known[n]}
      /\ u.table = Upgraded(n, LogTable(r))
  <2>1. tx[r].inserted \cup {Known[n]} \in SUBSET Records
    BY <1>2, <1>4
  <2>2. tx[r].deleted \ {Known[n]} \in SUBSET Records /\ n \in 0..2
    BY <1>2, <1>3
  <2> HIDE DEF n
  <2> QED
    BY <1>2, <1>5, <2>1, <2>2 DEF Transactions
<1> HIDE DEF n, u
<1>7. tx' \in [Runs -> Transactions] /\ tx'[r] = u /\ \A q \in Runs \ {r} : tx'[q] = tx[q]
  BY <1>1, <1>6 DEF TypeInv
<1> QED
  BY <1>1, <1>3, <1>6, <1>7 DEF n

\* What Downgrade does to the transaction of r.
LEMMA DowngradedTransaction ==
    ASSUME TypeInv, NEW r \in Runs, Downgrade(r)
    PROVE  LET n == tx[r].count
           IN  /\ n \in {1, 2} /\ n > Count[target[r]] /\ phase[r] = "migrating"
               /\ CanDowngrade(n, LogTable(r).columns)
               /\ tx' \in [Runs -> Transactions]
               /\ \A q \in Runs \ {r} : tx'[q] = tx[q]
               /\ tx'[r].count = n - 1
               /\ tx'[r].inserted = tx[r].inserted \ {Known[n]}
               /\ tx'[r].deleted = tx[r].deleted \cup {Known[n]}
               /\ tx'[r].table = Downgraded(n, LogTable(r))
               /\ locked' = r
               /\ UNCHANGED <<schema, access, advisory, phase, target, last, backend>>
<1> DEFINE n == tx[r].count
           u == [tx[r] EXCEPT !.count = n - 1, !.inserted = @ \ {Known[n]},
                              !.deleted = @ \cup {Known[n]}, !.table = Downgraded(n, LogTable(r))]
<1>1. /\ phase[r] = "migrating" /\ n > Count[target[r]]
      /\ CanDowngrade(n, LogTable(r).columns)
      /\ locked' = r /\ tx' = [tx EXCEPT ![r] = u]
      /\ UNCHANGED <<schema, access, advisory, phase, target, last, backend>>
  BY DEF Downgrade, Alter
<1>2. /\ tx[r] \in Transactions /\ tx[r].count \in 0..2 /\ Count[target[r]] \in 0..2
      /\ tx[r].inserted \in SUBSET Records /\ tx[r].deleted \in SUBSET Records
  BY Targets12 DEF TypeInv, Transactions
<1>3. n \in {1, 2}
  BY <1>1, <1>2
<1>4. Known[n] \in Records
  BY <1>3, Revisions12 DEF Records
<1>5. Downgraded(n, LogTable(r)) \in Tables
  BY <1>3, SeenTable, RowsMigrated
<1>6. /\ u \in Transactions /\ u.count = n - 1
      /\ u.inserted = tx[r].inserted \ {Known[n]} /\ u.deleted = tx[r].deleted \cup {Known[n]}
      /\ u.table = Downgraded(n, LogTable(r))
  <2>1. tx[r].deleted \cup {Known[n]} \in SUBSET Records
    BY <1>2, <1>4
  <2>2. tx[r].inserted \ {Known[n]} \in SUBSET Records /\ n - 1 \in 0..2
    BY <1>2, <1>3
  <2> HIDE DEF n
  <2> QED
    BY <1>2, <1>5, <2>1, <2>2 DEF Transactions
<1> HIDE DEF n, u
<1>7. tx' \in [Runs -> Transactions] /\ tx'[r] = u /\ \A q \in Runs \ {r} : tx'[q] = tx[q]
  BY <1>1, <1>6 DEF TypeInv
<1> QED
  BY <1>1, <1>3, <1>6, <1>7 DEF n

\* What Stamp does to the transaction of r.
LEMMA StampedTransaction ==
    ASSUME TypeInv, LockInv, NEW r \in Runs, Stamp(r)
    PROVE  /\ phase[r] = "locked" /\ phase' = [phase EXCEPT ![r] = "migrating"]
           /\ tx' \in [Runs -> Transactions]
           /\ \A q \in Runs \ {r} : tx'[q] = tx[q]
           /\ tx'[r].deleted = {} /\ tx'[r].table = Untouched
           /\ \/ tx'[r].inserted = {} /\ recorded = Applied(tx'[r].count)
              \/ /\ tx'[r].inserted = {"v0001"} /\ tx'[r].count = 1
                 /\ recorded = {} /\ IsLegacy(table.columns)
           /\ UNCHANGED <<schema, access, advisory, locked, target, last, backend>>
<1> DEFINE stamped == IF recorded = {} /\ table.columns # {} THEN {"v0001"} ELSE {}
<1>1. /\ phase[r] = "locked" /\ phase' = [phase EXCEPT ![r] = "migrating"]
      /\ stamped # {} => IsLegacy(table.columns)
      /\ UNCHANGED <<schema, access, advisory, locked, target, last, backend>>
  BY DEF Stamp
<1>2. PICK n \in 0..Len(Known) :
         /\ recorded \cup stamped = Applied(n)
         /\ tx' = [tx EXCEPT ![r].inserted = stamped, ![r].count = n]
  BY DEF Stamp
<1> DEFINE u == [NoTx EXCEPT !.inserted = stamped, !.count = n]
<1>3. tx[r] = NoTx /\ n \in 0..2
  BY <1>1, Revisions12 DEF LockInv
<1>4. tx' = [tx EXCEPT ![r] = u]
  <2> HIDE DEF stamped
  <2>1. tx' = [tx EXCEPT ![r] = [@ EXCEPT !.inserted = stamped, !.count = n]]
    BY <1>2 DEF TypeInv
  <2> QED
    BY <1>3, <2>1
<1>5. /\ u \in Transactions /\ u.inserted = stamped /\ u.count = n
      /\ u.deleted = {} /\ u.table = Untouched
  <2>1. stamped \in SUBSET Records
    BY DEF Records
  <2>2. NoTx \in Transactions /\ NoTx.deleted = {} /\ NoTx.table = Untouched
    BY FirstTransaction DEF NoTx
  <2> HIDE DEF stamped
  <2> QED
    BY <1>3, <2>1, <2>2 DEF Transactions
<1>6. \/ stamped = {} /\ recorded = Applied(n)
      \/ stamped = {"v0001"} /\ n = 1 /\ recorded = {} /\ IsLegacy(table.columns)
  BY <1>1, <1>2, <1>3, Revisions12
<1> HIDE DEF stamped, u
<1>7. tx' \in [Runs -> Transactions] /\ tx'[r] = u /\ \A q \in Runs \ {r} : tx'[q] = tx[q]
  BY <1>4, <1>5 DEF TypeInv
<1> QED
  BY <1>1, <1>5, <1>6, <1>7

\* Nobody has a transaction or a lock at the start.
LEMMA TypeInit == Init => TypeInv /\ LockInv
<1> SUFFICES ASSUME Init PROVE TypeInv /\ LockInv
  OBVIOUS
<1>1. PICK s \in SomeSchemas, code \in Codes :
         /\ recorded = s[1]
         /\ table = [columns |-> s[2], granted |-> FALSE,
                     rows |-> LegacyRows(IF s[2] = {"legacy"} THEN {1} ELSE {}, code)]
  BY DEF Init
<1>2. s[1] \in SUBSET Records /\ s[2] \in Sets
  BY DEF SomeSchemas, Records, Sets
<1>3. LegacyRows(IF s[2] = {"legacy"} THEN {1} ELSE {}, code) \in Logs
  BY OldLogs
<1>4. table \in Tables
  BY <1>1, <1>2, <1>3 DEF Tables
<1> QED
  BY <1>1, <1>2, <1>4, FirstTransaction DEF Init, TypeInv, LockInv, Phases, Targets

\* A row that the backend saves is one of the rows.
LEMMA SavedRow ==
    ASSUME NEW v \in DOMAIN LegacyCode
    PROVE  /\ [code |-> LegacyCode[v], verdict |-> v] \in Rows
           /\ v # "none" /\ CodeOf(v) = LegacyCode[v]
<1>1. LegacyCode[v] \in Codes /\ v # "none"
  BY DEF LegacyCode, Codes
<1> QED
  BY <1>1 DEF Rows, Verdicts, CodeOf

\* A table that the runtime role is granted ...
LEMMA GrantedTable ==
    ASSUME TypeInv
    PROVE  LET t == [table EXCEPT !.granted = TRUE]
           IN  /\ t \in Tables /\ t.columns = table.columns /\ t.rows = table.rows
               /\ t.granted
BY DEF TypeInv, Tables

\* ... and one that the backend has pruned or saved a row into: each row is one
\* of before or the new one.
LEMMA WrittenTable ==
    ASSUME TypeInv, Prune \/ SaveLog
    PROVE  /\ table' \in Tables /\ table'.columns = table.columns
           /\ table'.granted = table.granted
           /\ locked = Nobody /\ UNCHANGED <<recorded, access, runVars>> /\ backend' = "serving"
           /\ \A i \in DOMAIN table'.rows :
                 \/ i \in DOMAIN table.rows /\ table'.rows[i] = table.rows[i]
                 \/ /\ "structured" \in table.columns /\ i \notin DOMAIN table.rows
                    /\ table'.rows[i].verdict # "none"
                    /\ CodeOf(table'.rows[i].verdict) = table'.rows[i].code
<1>1. table.rows \in Logs /\ DOMAIN table.rows \in SUBSET Nat
      /\ \A i \in DOMAIN table.rows : table.rows[i] \in Rows
  BY LogsAre DEF TypeInv, Tables
<1>2. ASSUME NEW rows \in Retained(table.rows)
      PROVE  /\ DOMAIN rows \in SUBSET DOMAIN table.rows /\ rows \in [DOMAIN rows -> Rows]
             /\ \A i \in DOMAIN rows : rows[i] = table.rows[i]
  <2>1. PICK ids \in SUBSET DOMAIN table.rows : rows = [i \in ids |-> table.rows[i]]
    BY DEF Retained, Restrict
  <2> QED
    BY <1>1, <2>1
<1>3. ASSUME NEW rows \in Logs, table' = [table EXCEPT !.rows = rows]
      PROVE  /\ table' \in Tables /\ table'.columns = table.columns
             /\ table'.granted = table.granted /\ table'.rows = rows
  BY <1>3 DEF TypeInv, Tables
<1>4. CASE Prune
  <2>1. PICK rows \in Retained(table.rows) : table' = [table EXCEPT !.rows = rows]
    BY <1>4 DEF Prune
  <2>2. rows \in Logs
    BY <1>1, <1>2, LogsAre
  <2>3. table' \in Tables /\ table'.columns = table.columns /\ table'.granted = table.granted
        /\ table'.rows = rows
    BY <1>3, <2>1, <2>2
  <2>4. /\ locked = Nobody /\ UNCHANGED <<recorded, access, runVars>> /\ backend' = "serving"
    BY <1>4 DEF Prune, CanWrite
  <2>5. \A i \in DOMAIN rows : i \in DOMAIN table.rows /\ rows[i] = table.rows[i]
    BY <1>2
  <2> QED
    BY <2>3, <2>4, <2>5
<1>5. CASE SaveLog
  <2>1. PICK id \in 1..MaxRows, v \in DOMAIN LegacyCode, rows \in Retained(table.rows) :
           /\ \A i \in DOMAIN table.rows : i < id
           /\ table' = [table EXCEPT !.rows =
                           WithLog(rows, id, [code |-> LegacyCode[v], verdict |-> v])]
    BY <1>5 DEF SaveLog
  <2> DEFINE row == [code |-> LegacyCode[v], verdict |-> v]
             new == WithLog(rows, id, row)
  <2>2. row \in Rows /\ row.verdict # "none" /\ CodeOf(row.verdict) = row.code
    BY SavedRow
  <2>3. id \in Nat /\ id \notin DOMAIN table.rows
    BY <1>1, <2>1, MaxRowsAssumption
  <2> HIDE DEF row
  <2>4. /\ new \in [DOMAIN rows \cup {id} -> Rows] /\ DOMAIN new = DOMAIN rows \cup {id}
        /\ new[id] = row /\ \A i \in DOMAIN rows : new[i] = rows[i]
    BY <1>2, <2>2, <2>3 DEF WithLog
  <2>5. new \in Logs
    BY <1>1, <1>2, <2>3, <2>4, LogsAre
  <2>6. table' = [table EXCEPT !.rows = new]
    BY <2>1 DEF row
  <2> HIDE DEF new
  <2>7. table' \in Tables /\ table'.columns = table.columns /\ table'.granted = table.granted
        /\ table'.rows = new
    BY <1>3, <2>5, <2>6
  <2>8. /\ locked = Nobody /\ UNCHANGED <<recorded, access, runVars>> /\ backend' = "serving"
        /\ "structured" \in table.columns
    BY <1>5 DEF SaveLog, CanWrite
  <2> QED
    BY <1>2, <2>2, <2>3, <2>4, <2>7, <2>8
<1> QED
  BY <1>4, <1>5

\* Every step keeps transactions what they are, and with their owners.
LEMMA TypeNext == TypeInv /\ LockInv /\ [Next]_vars => TypeInv' /\ LockInv'
<1> SUFFICES ASSUME TypeInv, LockInv, [Next]_vars PROVE TypeInv' /\ LockInv'
  OBVIOUS
<1> USE DEF Phases, schema, access, runVars
<1>1. ASSUME NEW r \in Runs, Start(r) \/ AcquireMigrationLock(r) \/ Report(r)
      PROVE  TypeInv' /\ LockInv'
  BY <1>1, NobodyAssumption DEF Start, AcquireMigrationLock, Report, TypeInv, LockInv
<1>2. ASSUME NEW r \in Runs, Stamp(r) PROVE TypeInv' /\ LockInv'
  BY <1>2, StampedTransaction DEF TypeInv, LockInv
<1>3. ASSUME NEW r \in Runs, Upgrade(r) PROVE TypeInv' /\ LockInv'
  <2>1. TypeInv'
    BY <1>3, UpgradedTransaction DEF TypeInv
  <2>2. \A q \in Runs \ {r} : tx[q].table = Untouched
    BY <1>3, UpgradedTransaction, FirstTransaction DEF LockInv
  <2> QED
    BY <1>3, <2>1, <2>2, UpgradedTransaction DEF LockInv
<1>4. ASSUME NEW r \in Runs, Downgrade(r) PROVE TypeInv' /\ LockInv'
  <2>1. TypeInv'
    BY <1>4, DowngradedTransaction DEF TypeInv
  <2>2. \A q \in Runs \ {r} : tx[q].table = Untouched
    BY <1>4, DowngradedTransaction, FirstTransaction DEF LockInv
  <2> QED
    BY <1>4, <2>1, <2>2, DowngradedTransaction DEF LockInv
<1>5. ASSUME NEW r \in Runs, Commit(r) PROVE TypeInv' /\ LockInv'
  <2>1. recorded' \in SUBSET Records
    BY <1>5, SeenTable DEF Commit, Revisions, TypeInv, Transactions
  <2>2. table' \in Tables
    BY <1>5, SeenTable DEF Commit
  <2>3. tx' \in [Runs -> Transactions] /\ phase' \in [Runs -> Phases] /\ target' = target
    BY <1>5, FirstTransaction DEF Commit, Release, AfterMigration, TypeInv
  <2>4. LockInv'
    BY <1>5, FirstTransaction DEF Commit, Release, AfterMigration, TypeInv, LockInv
  <2> QED
    BY <2>1, <2>2, <2>3, <2>4 DEF TypeInv
<1>6. ASSUME NEW r \in Runs, ProvisionRuntimeRole(r) PROVE TypeInv' /\ LockInv'
  <2>1. /\ table' = [table EXCEPT !.granted = TRUE] /\ phase[r] = "provisioning"
        /\ phase' = [phase EXCEPT ![r] = "completed"]
        /\ UNCHANGED <<recorded, advisory, locked, tx, target>>
    BY <1>6 DEF ProvisionRuntimeRole
  <2> QED
    BY <2>1, GrantedTable DEF TypeInv, LockInv
<1>7. ASSUME NEW r \in Runs, Fail(r) PROVE TypeInv' /\ LockInv'
  BY <1>7, FirstTransaction DEF Fail, Release, TypeInv, LockInv
<1>8. CASE Prune \/ SaveLog
  BY <1>8, WrittenTable DEF TypeInv, LockInv
<1>9. CASE StartBackend \/ StopBackend \/ UNCHANGED vars
  BY <1>9 DEF StartBackend, StopBackend, vars, TypeInv, LockInv
<1> QED
  BY <1>1, <1>2, <1>3, <1>4, <1>5, <1>6, <1>7, <1>8, <1>9, NextCases

-----------------------------------------------------------------------------
(***************************************************************************)
(* The schema, and what a migration is about to make of it                 *)
(***************************************************************************)
Consistent == {<<{}, {}>>, <<{"v0001"}, {"legacy"}>>,
               <<{"v0001", "v0002"}, {"legacy", "structured"}>>}
RowsInTable(t) == t.columns = {} => DOMAIN t.rows = {}

\* The database is as somebody left it, or as a migration did.
SchemaInv ==
    /\ <<recorded, table.columns>> \in SomeSchemas \cup Consistent
    /\ Judged(table) /\ RowsInTable(table)

\* A transaction of r is at the revision it counts; one that has changed
\* nothing stamps at most the table from before the revisions; one that has, has
\* the columns of its revision, found a schema the program knows or drops it,
\* and keeps the rows or drops them, on request.
AtItsCount(r) == Revisions(r) = Applied(tx[r].count)
Unaltered(r)  ==
    /\ tx[r].deleted = {}
    /\ \/ tx[r].inserted = {}
       \/ tx[r].inserted = {"v0001"} /\ recorded = {} /\ table.columns = {"legacy"}
Altered(r) ==
    /\ tx[r].table.columns = Columns[tx[r].count]
    /\ Judged(tx[r].table) /\ RowsInTable(tx[r].table)
    /\ tx[r].count = 0 => target[r] = "base"
    /\ \/ <<recorded, table.columns>> \in Consistent
       \/ recorded = {} /\ table.columns = {"legacy"}
       \/ target[r] = "base"
    /\ RowCodes(tx[r].table) = RowCodes(table) \/ target[r] = "base"
MigrationInv ==
    \A r \in Runs : phase[r] = "migrating" =>
        /\ AtItsCount(r)
        /\ IF tx[r].table = Untouched THEN Unaltered(r) ELSE Altered(r)

\* A schema is consistent exactly if its revisions describe it.
LEMMA ConsistentMatches ==
    \A revisions, columns : Matches(revisions, columns) <=> <<revisions, columns>> \in Consistent
<1>1. 0..Len(Known) = {0, 1, 2}
  BY Revisions12
<1> QED
  BY <1>1, Revisions12 DEF Matches, Consistent

\* What the table is, seen from a migration that has not altered it.
LEMMA SeenFirst ==
    ASSUME TypeInv, SchemaInv, MigrationInv, NEW r \in Runs, phase[r] = "migrating",
           tx[r].table = Untouched
    PROVE  /\ LogTable(r) = table
           /\ tx[r].count = 0 => recorded = {}
           /\ tx[r].count = 1 => \/ recorded = {"v0001"}
                                 \/ recorded = {} /\ table.columns = {"legacy"}
           /\ tx[r].count = 2 => /\ recorded = {"v0001", "v0002"}
                                 /\ table.columns = {"legacy", "structured"}
<1>1. AtItsCount(r) /\ Unaltered(r)
  BY DEF MigrationInv
<1>2. Revisions(r) = recorded \cup tx[r].inserted
  BY <1>1 DEF Unaltered, Revisions
<1>3. recorded = {"v0001", "v0002"} => table.columns = {"legacy", "structured"}
  BY DEF SchemaInv, SomeSchemas, Consistent
<1>4. LogTable(r) = table
  BY DEF LogTable
<1>5. CASE tx[r].inserted = {}
  <2>1. recorded = Applied(tx[r].count)
    BY <1>1, <1>2, <1>5 DEF AtItsCount
  <2> QED
    BY <1>3, <1>4, <2>1, Revisions12
<1>6. CASE tx[r].inserted = {"v0001"} /\ recorded = {} /\ table.columns = {"legacy"}
  <2>1. Applied(tx[r].count) = {"v0001"}
    BY <1>1, <1>2, <1>6 DEF AtItsCount
  <2>2. Applied(0) # {"v0001"} /\ Applied(2) # {"v0001"}
    BY Revisions12
  <2> QED
    BY <1>4, <1>6, <2>1, <2>2
<1> QED
  BY <1>1, <1>5, <1>6 DEF Unaltered

\* A migration is not affected by what others do while it is under way.
LEMMA MigrationKept ==
    ASSUME NEW r \in Runs, phase[r] = "migrating", MigrationInv,
           tx'[r] = tx[r], target'[r] = target[r], recorded' = recorded,
           table'.columns = table.columns,
           tx[r].table = Untouched \/ RowCodes(table') = RowCodes(table)
    PROVE  /\ AtItsCount(r)'
           /\ IF tx'[r].table = Untouched THEN Unaltered(r)' ELSE Altered(r)'
<1>1. AtItsCount(r)'
  BY DEF MigrationInv, AtItsCount, Revisions
<1>2. CASE tx[r].table = Untouched
  BY <1>1, <1>2 DEF MigrationInv, Unaltered
<1>3. CASE tx[r].table # Untouched
  <2>1. Judged(tx[r].table)' = Judged(tx[r].table) /\ RowsInTable(tx[r].table)' = RowsInTable(tx[r].table)
    BY DEF Judged, RowsInTable
  <2>2. Altered(r) /\ RowCodes(tx[r].table)' = RowCodes(tx[r].table)
    BY <1>3 DEF MigrationInv, RowCodes
  <2> QED
    BY <1>1, <1>3, <2>1, <2>2 DEF Altered
<1> QED
  BY <1>2, <1>3

\* A statement of r keeps its transaction at the revision it counts.
LEMMA StatementCounts ==
    ASSUME TypeInv, MigrationInv, NEW r \in Runs, Upgrade(r) \/ Downgrade(r)
    PROVE  AtItsCount(r)'
<1>1. phase[r] = "migrating" /\ recorded' = recorded
  BY UpgradedTransaction, DowngradedTransaction DEF schema
<1>2. AtItsCount(r)
  BY <1>1 DEF MigrationInv
<1>3. CASE Upgrade(r)
  <2>1. /\ tx[r].count + 1 \in {1, 2} /\ tx'[r].count = tx[r].count + 1
        /\ tx'[r].inserted = tx[r].inserted \cup {Known[tx[r].count + 1]}
        /\ tx'[r].deleted = tx[r].deleted \ {Known[tx[r].count + 1]}
    BY <1>3, UpgradedTransaction
  <2>2. Revisions(r)' = Revisions(r) \cup {Known[tx[r].count + 1]}
    BY <1>1, <2>1 DEF Revisions
  <2>3. tx[r].count \in Nat
    BY DEF TypeInv, Transactions
  <2>4. CASE tx[r].count = 0
    BY <1>2, <2>1, <2>2, <2>4, Revisions12 DEF AtItsCount
  <2>5. CASE tx[r].count = 1
    BY <1>2, <2>1, <2>2, <2>5, Revisions12 DEF AtItsCount
  <2> QED
    BY <2>1, <2>3, <2>4, <2>5
<1>4. CASE Downgrade(r)
  <2>1. /\ tx[r].count \in {1, 2} /\ tx'[r].count = tx[r].count - 1
        /\ tx'[r].inserted = tx[r].inserted \ {Known[tx[r].count]}
        /\ tx'[r].deleted = tx[r].deleted \cup {Known[tx[r].count]}
    BY <1>4, DowngradedTransaction
  <2>2. Revisions(r)' = Revisions(r) \ {Known[tx[r].count]}
    BY <1>1, <2>1 DEF Revisions
  <2>3. CASE tx[r].count = 1
    BY <1>2, <2>1, <2>2, <2>3, Revisions12 DEF AtItsCount
  <2>4. CASE tx[r].count = 2
    BY <1>2, <2>1, <2>2, <2>4, Revisions12 DEF AtItsCount
  <2> QED
    BY <2>1, <2>3, <2>4
<1> QED
  BY <1>3, <1>4

\* An upgrade builds on what it knows.
LEMMA UpgradeAlters ==
    ASSUME TypeInv, SchemaInv, MigrationInv, NEW r \in Runs, Upgrade(r)
    PROVE  tx'[r].table # Untouched /\ Altered(r)'
<1> DEFINE n == tx[r].count + 1
<1>1. /\ n \in {1, 2} /\ n <= Count[target[r]] /\ phase[r] = "migrating"
      /\ CanUpgrade(n, LogTable(r).columns)
      /\ tx'[r].count = n /\ tx'[r].table = Upgraded(n, LogTable(r))
      /\ recorded' = recorded /\ table' = table /\ target' = target
  BY UpgradedTransaction DEF schema
<1>2. LogTable(r) \in Tables /\ tx[r].count \in Nat
  BY SeenTable DEF Transactions
<1>3. target[r] # "base"
  BY <1>1, <1>2, Targets12
<1>4. tx'[r].table \in Tables /\ Judged(tx'[r].table)
  BY <1>1, <1>2, RowsMigrated
<1>5. \/ <<recorded, table.columns>> \in Consistent
      \/ recorded = {} /\ table.columns = {"legacy"}
  <2>1. CASE tx[r].table = Untouched
    <3>1. LogTable(r) = table
      BY <1>1, <2>1, SeenFirst
    <3>2. CASE n = 1
      <4>1. table.columns = {} /\ recorded = {}
        BY <1>1, <1>2, <2>1, <3>1, <3>2, SeenFirst DEF CanUpgrade
      <4> QED
        BY <4>1 DEF Consistent
    <3>3. CASE n = 2
      <4>1. IsLegacy(table.columns) /\ tx[r].count = 1
        BY <1>1, <1>2, <3>1, <3>3 DEF CanUpgrade
      <4>2. recorded = {"v0001"} \/ (recorded = {} /\ table.columns = {"legacy"})
        BY <1>1, <2>1, <4>1, SeenFirst
      <4> QED
        BY <4>1, <4>2 DEF IsLegacy, SchemaInv, SomeSchemas, Consistent
    <3> QED
      BY <1>1, <3>2, <3>3
  <2>2. CASE tx[r].table # Untouched
    BY <1>1, <1>3, <2>2 DEF MigrationInv, Altered
  <2> QED
    BY <2>1, <2>2
<1>6. tx'[r].table.columns = Columns[n] /\ RowCodes(tx'[r].table) = RowCodes(table)
  <2>1. CASE n = 1
    <3>1. Upgraded(1, LogTable(r)).columns = {"legacy"}
      BY DEF Upgraded, NoTable
    <3>2. LogTable(r) = table /\ DOMAIN table.rows = {}
      <4>1. tx[r].count = 0 /\ LogTable(r).columns = {}
        BY <1>1, <1>2, <2>1 DEF CanUpgrade
      <4>2. tx[r].table = Untouched
        BY <1>1, <1>3, <4>1 DEF MigrationInv, Altered
      <4> QED
        BY <1>1, <4>1, <4>2, SeenFirst DEF SchemaInv, RowsInTable
    <3>3. DOMAIN tx'[r].table.rows = {}
      <4>1. tx'[r].table.rows = NoRows
        BY <1>1, <1>2, <2>1, RowsMigrated
      <4> QED
        BY <4>1, OldLogs DEF Codes
    <3>4. RowCodes(tx'[r].table) = RowCodes(table)
      BY <3>2, <3>3 DEF RowCodes
    <3> QED
      BY <1>1, <2>1, <3>1, <3>4, Revisions12
  <2>2. CASE n = 2
    <3>1. Upgraded(2, LogTable(r)).columns = LogTable(r).columns \cup {"structured"}
      BY <1>2 DEF Upgraded, Tables
    <3>2. RowCodes(tx'[r].table) = RowCodes(LogTable(r))
      BY <1>1, <1>2, <2>2, RowsMigrated
    <3>3. CASE tx[r].table = Untouched
      <4>1. LogTable(r) = table
        BY <1>1, <3>3, SeenFirst
      <4>2. table.columns = {"legacy"}
        BY <1>1, <1>5, <2>2, <4>1 DEF CanUpgrade, IsLegacy, Consistent
      <4> QED
        BY <1>1, <2>2, <3>1, <3>2, <4>1, <4>2, Revisions12
    <3>4. CASE tx[r].table # Untouched
      <4>1. LogTable(r) = tx[r].table /\ Altered(r)
        BY <1>1, <3>4 DEF LogTable, MigrationInv
      <4>2. tx[r].table.columns = {"legacy"}
        BY <1>2, <2>2, <4>1, Revisions12 DEF Altered
      <4> QED
        BY <1>1, <1>3, <2>2, <3>1, <3>2, <4>1, <4>2, Revisions12 DEF Altered
    <3> QED
      BY <3>3, <3>4
  <2> QED
    BY <1>1, <2>1, <2>2
<1>7. tx'[r].table # Untouched
  BY <1>1, <1>4, <1>6, Revisions12, FirstTransaction
<1>8. RowsInTable(tx'[r].table)
  BY <1>1, <1>6, Revisions12 DEF RowsInTable
<1> QED
  BY <1>1, <1>3, <1>4, <1>5, <1>6, <1>7, <1>8 DEF Altered, Judged, RowsInTable, RowCodes

\* A downgrade knows what it takes away, or drops the table on request.
LEMMA DowngradeAlters ==
    ASSUME TypeInv, SchemaInv, MigrationInv, NEW r \in Runs, Downgrade(r)
    PROVE  tx'[r].table # Untouched /\ Altered(r)'
<1> DEFINE n == tx[r].count
<1>1. /\ n \in {1, 2} /\ n > Count[target[r]] /\ phase[r] = "migrating"
      /\ tx'[r].count = n - 1 /\ tx'[r].table = Downgraded(n, LogTable(r))
      /\ recorded' = recorded /\ table' = table /\ target' = target
  BY DowngradedTransaction DEF schema
<1>2. LogTable(r) \in Tables
  BY SeenTable
<1>3. tx'[r].table \in Tables /\ Judged(tx'[r].table)
  BY <1>1, <1>2, RowsMigrated
<1>4. CASE n = 1
  <2>1. target[r] = "base"
    BY <1>1, <1>4, Targets12 DEF TypeInv
  <2>2. tx'[r].table.columns = {} /\ DOMAIN tx'[r].table.rows = {}
    <3>1. tx'[r].table.columns = {} /\ tx'[r].table.rows = NoRows
      BY <1>1, <1>4 DEF Downgraded, NoTable
    <3> QED
      BY <3>1, OldLogs DEF Codes
  <2>3. tx'[r].table # Untouched
    BY <1>3, <2>2, FirstTransaction
  <2>4. tx'[r].count = 0 /\ tx'[r].table.columns = Columns[0] /\ RowsInTable(tx'[r].table)
    BY <1>1, <1>4, <2>2, Revisions12 DEF RowsInTable
  <2> QED
    BY <1>1, <1>3, <2>1, <2>3, <2>4 DEF Altered, Judged, RowsInTable
<1>5. CASE n = 2
  <2>1. Downgraded(2, LogTable(r)).columns = LogTable(r).columns \ {"structured"}
    BY <1>2 DEF Downgraded, Tables
  <2>2. RowCodes(tx'[r].table) = RowCodes(LogTable(r))
    BY <1>1, <1>2, <1>5, RowsMigrated
  <2>3. /\ LogTable(r).columns = {"legacy", "structured"}
        /\ \/ <<recorded, table.columns>> \in Consistent
           \/ recorded = {} /\ table.columns = {"legacy"}
           \/ target[r] = "base"
        /\ RowCodes(LogTable(r)) = RowCodes(table) \/ target[r] = "base"
    <3>1. CASE tx[r].table = Untouched
      BY <1>1, <1>5, <3>1, SeenFirst DEF Consistent
    <3>2. CASE tx[r].table # Untouched
      <4>1. LogTable(r) = tx[r].table /\ Altered(r)
        BY <1>1, <3>2 DEF LogTable, MigrationInv
      <4> QED
        BY <1>5, <4>1, Revisions12 DEF Altered
    <3> QED
      BY <3>1, <3>2
  <2>4. tx'[r].table.columns = {"legacy"}
    BY <1>1, <1>5, <2>1, <2>3
  <2>5. tx'[r].table # Untouched
    BY <1>3, <2>4, FirstTransaction
  <2>6. tx'[r].count = 1 /\ tx'[r].table.columns = Columns[1] /\ RowsInTable(tx'[r].table)
    BY <1>1, <1>5, <2>4, Revisions12 DEF RowsInTable
  <2>7. RowCodes(tx'[r].table) = RowCodes(table) \/ target[r] = "base"
    BY <2>2, <2>3
  <2> QED
    BY <1>1, <1>3, <2>3, <2>5, <2>6, <2>7 DEF Altered, Judged, RowsInTable, RowCodes
<1> QED
  BY <1>1, <1>4, <1>5

\* A transaction that has just begun has changed nothing.
LEMMA StampAlters ==
    ASSUME TypeInv, LockInv, SchemaInv, NEW r \in Runs, Stamp(r)
    PROVE  tx'[r].table = Untouched /\ AtItsCount(r)' /\ Unaltered(r)'
<1>1. /\ tx'[r].deleted = {} /\ tx'[r].table = Untouched
      /\ \/ tx'[r].inserted = {} /\ recorded = Applied(tx'[r].count)
         \/ /\ tx'[r].inserted = {"v0001"} /\ tx'[r].count = 1
            /\ recorded = {} /\ IsLegacy(table.columns)
      /\ recorded' = recorded /\ table' = table
  BY StampedTransaction DEF schema
<1>2. IsLegacy(table.columns) => table.columns = {"legacy"}
  BY DEF IsLegacy, SchemaInv, SomeSchemas, Consistent
<1>3. Revisions(r)' = recorded \cup tx'[r].inserted
  BY <1>1 DEF Revisions
<1>4. AtItsCount(r)'
  BY <1>1, <1>3, Revisions12 DEF AtItsCount
<1> QED
  BY <1>1, <1>2, <1>4 DEF Unaltered

\* Every step keeps the migrations that are under way what they are.
LEMMA MigrationNext ==
    ASSUME TypeInv, LockInv, SchemaInv, MigrationInv, [Next]_vars
    PROVE  MigrationInv'
<1> SUFFICES ASSUME NEW r \in Runs, phase'[r] = "migrating"
             PROVE  /\ AtItsCount(r)'
                    /\ IF tx'[r].table = Untouched THEN Unaltered(r)' ELSE Altered(r)'
  BY DEF MigrationInv
<1> USE DEF schema, access, runVars
<1>1. ASSUME phase[r] = "migrating", tx'[r] = tx[r], target'[r] = target[r],
             recorded' = recorded, table' = table
      PROVE  /\ AtItsCount(r)'
             /\ IF tx'[r].table = Untouched THEN Unaltered(r)' ELSE Altered(r)'
  BY <1>1, MigrationKept
<1>2. CASE Stamp(r)
  BY <1>2, StampAlters
<1>3. CASE Upgrade(r) \/ Downgrade(r)
  BY <1>3, StatementCounts, UpgradeAlters, DowngradeAlters
<1>4. ASSUME NEW q \in Runs \ {r}, Stamp(q) PROVE phase[r] = "migrating" /\ tx'[r] = tx[r]
  BY <1>4, StampedTransaction DEF TypeInv
<1>5. ASSUME NEW q \in Runs \ {r}, Upgrade(q) \/ Downgrade(q)
      PROVE  phase[r] = "migrating" /\ tx'[r] = tx[r]
  BY <1>5, UpgradedTransaction, DowngradedTransaction
<1>6. ASSUME NEW q \in Runs, Start(q) \/ AcquireMigrationLock(q) \/ Report(q)
      PROVE  phase[r] = "migrating" /\ tx'[r] = tx[r] /\ target'[r] = target[r]
  BY <1>6 DEF Start, AcquireMigrationLock, Report, TypeInv
<1>7. ASSUME NEW q \in Runs, Fail(q)
      PROVE  phase[r] = "migrating" /\ tx'[r] = tx[r]
  BY <1>7 DEF Fail, Release, TypeInv
<1>8. ASSUME NEW q \in Runs, Commit(q) PROVE FALSE
  <2>1. phase[q] = "migrating" /\ phase'[q] # "migrating"
    BY <1>8 DEF Commit, AfterMigration, TypeInv
  <2>2. phase[r] = "migrating"
    BY <1>8, <2>1 DEF Commit, TypeInv
  <2> QED
    BY <2>1, <2>2 DEF LockInv
<1>9. ASSUME NEW q \in Runs, ProvisionRuntimeRole(q)
      PROVE  /\ AtItsCount(r)'
             /\ IF tx'[r].table = Untouched THEN Unaltered(r)' ELSE Altered(r)'
  <2>1. /\ phase[r] = "migrating" /\ tx' = tx /\ target' = target /\ recorded' = recorded
        /\ table' = [table EXCEPT !.granted = TRUE]
    BY <1>9 DEF ProvisionRuntimeRole, TypeInv
  <2>2. table'.columns = table.columns /\ table'.rows = table.rows
    BY <2>1, GrantedTable
  <2> QED
    BY <2>1, <2>2, MigrationKept DEF RowCodes
<1>10. CASE Prune \/ SaveLog
  <2>1. /\ phase[r] = "migrating" /\ tx' = tx /\ target' = target /\ recorded' = recorded
        /\ locked = Nobody /\ table'.columns = table.columns
    BY <1>10, WrittenTable
  <2>2. tx[r].table = Untouched
    BY <2>1, NobodyAssumption DEF LockInv
  <2> QED
    BY <2>1, <2>2, MigrationKept
<1>11. CASE StartBackend \/ StopBackend \/ UNCHANGED vars
  BY <1>1, <1>11 DEF StartBackend, StopBackend, vars
<1>12. ASSUME NEW q \in Runs,
              \/ Start(q) \/ AcquireMigrationLock(q) \/ Stamp(q) \/ Upgrade(q)
              \/ Downgrade(q) \/ Report(q) \/ Fail(q)
       PROVE  recorded' = recorded /\ table' = table
  BY <1>12 DEF Start, AcquireMigrationLock, Stamp, Upgrade, Downgrade, Alter, Report, Fail
<1>13. ASSUME NEW q \in Runs, Stamp(q) \/ Upgrade(q) \/ Downgrade(q) \/ Fail(q)
       PROVE  target' = target
  BY <1>13 DEF Stamp, Upgrade, Downgrade, Alter, Fail
<1> QED
  BY <1>1, <1>2, <1>3, <1>4, <1>5, <1>6, <1>7, <1>8, <1>9, <1>10, <1>11, <1>12, <1>13, NextCases

\* A migration that commits makes the schema what its revisions describe.
LEMMA CommittedSchema ==
    ASSUME TypeInv, SchemaInv, MigrationInv, NEW r \in Runs, Commit(r)
    PROVE  /\ phase[r] = "migrating" /\ last' = r /\ tx[r].count = Count[target[r]]
           /\ recorded' = Applied(Count[target[r]])
           /\ \/ recorded' = recorded /\ table' = table
              \/ <<recorded', table'.columns>> \in Consistent
           /\ \/ recorded' = recorded /\ table' = table
              \/ <<recorded, table.columns>> \in Consistent
              \/ recorded = {} /\ table.columns = {"legacy"}
              \/ recorded' = {}
           /\ Judged(table') /\ RowsInTable(table')
           /\ RowCodes(table') = RowCodes(table) \/ target[r] = "base"
<1>1. /\ phase[r] = "migrating" /\ last' = r /\ tx[r].count = Count[target[r]]
      /\ recorded' = Revisions(r) /\ table' = LogTable(r)
  BY DEF Commit
<1>2. recorded' = Applied(Count[target[r]]) /\ tx[r].count \in {0, 1, 2}
  BY <1>1 DEF MigrationInv, AtItsCount, TypeInv, Transactions
<1>3. CASE tx[r].table = Untouched
  <2>1. Unaltered(r) /\ table' = table
    BY <1>1, <1>3 DEF MigrationInv, LogTable
  <2>2. \/ recorded' = recorded
        \/ recorded' = {"v0001"} /\ recorded = {} /\ table.columns = {"legacy"}
    BY <1>1, <2>1 DEF Unaltered, Revisions
  <2> QED
    BY <1>1, <1>2, <2>1, <2>2 DEF SchemaInv, Consistent
<1>4. CASE tx[r].table # Untouched
  <2>1. Altered(r) /\ table' = tx[r].table
    BY <1>1, <1>4 DEF MigrationInv, LogTable
  <2>2. <<recorded', table'.columns>> \in Consistent
    BY <1>1, <1>2, <2>1, Revisions12 DEF Altered, Consistent
  <2>3. target[r] = "base" => recorded' = {}
    BY <1>2, Targets12, Revisions12
  <2>4. Judged(table') /\ RowsInTable(table')
    BY <2>1 DEF Altered
  <2> QED
    BY <1>1, <1>2, <2>1, <2>2, <2>3, <2>4 DEF Altered
<1> QED
  BY <1>3, <1>4

\* The steps that leave the revisions and the table as they are.
LEMMA OtherSteps ==
    ASSUME [Next]_vars, \A r \in Runs : ~Commit(r) /\ ~ProvisionRuntimeRole(r),
           ~Prune, ~SaveLog
    PROVE  recorded' = recorded /\ table' = table
BY NextCases
   DEF Start, AcquireMigrationLock, Stamp, Upgrade, Downgrade, Alter, Report, Fail, StartBackend,
       StopBackend, vars, schema

\* A row that is there after the backend has pruned or saved is judged.
LEMMA WrittenRows ==
    ASSUME TypeInv, SchemaInv, Prune \/ SaveLog
    PROVE  Judged(table') /\ RowsInTable(table')
<1>1. \A i \in DOMAIN table'.rows :
         \/ i \in DOMAIN table.rows /\ table'.rows[i] = table.rows[i]
         \/ /\ "structured" \in table.columns /\ table'.rows[i].verdict # "none"
            /\ CodeOf(table'.rows[i].verdict) = table'.rows[i].code
  BY WrittenTable
<1>2. table'.columns = table.columns
  BY WrittenTable
<1>3. Judged(table) /\ RowsInTable(table)
  BY DEF SchemaInv
<1>4. Judged(table')
  BY <1>1, <1>2, <1>3 DEF Judged
<1>5. RowsInTable(table')
  BY <1>1, <1>2, <1>3 DEF RowsInTable
<1> QED
  BY <1>4, <1>5

\* A role that is provisioned changes neither columns nor rows.
LEMMA ProvisionedSchema ==
    ASSUME TypeInv, SchemaInv, NEW r \in Runs, ProvisionRuntimeRole(r)
    PROVE  /\ recorded' = recorded /\ table'.columns = table.columns
           /\ table'.rows = table.rows /\ table'.granted
           /\ Judged(table') /\ RowsInTable(table')
<1>1. table' = [table EXCEPT !.granted = TRUE] /\ recorded' = recorded
  BY DEF ProvisionRuntimeRole
<1>2. table'.columns = table.columns /\ table'.rows = table.rows /\ table'.granted
  BY <1>1, GrantedTable
<1> QED
  BY <1>1, <1>2 DEF SchemaInv, Judged, RowsInTable

\* The schema is one of those there may be at the start, its rows judged.
LEMMA SchemaInit == Init => SchemaInv /\ MigrationInv
<1> SUFFICES ASSUME Init PROVE SchemaInv /\ MigrationInv
  OBVIOUS
<1>1. PICK s \in SomeSchemas, code \in Codes :
         /\ recorded = s[1]
         /\ table = [columns |-> s[2], granted |-> FALSE,
                     rows |-> LegacyRows(IF s[2] = {"legacy"} THEN {1} ELSE {}, code)]
  BY DEF Init
<1>2. s = <<s[1], s[2]>>
  BY DEF SomeSchemas
<1>3. Judged(table)
  <2>1. CASE s[2] = {"legacy"}
    <3>1. /\ DOMAIN table.rows = {1} /\ table.rows[1].verdict = "none"
          /\ "structured" \notin table.columns
      BY <1>1, <2>1, OldLogs
    <3> QED
      BY <3>1 DEF Judged
  <2>2. CASE s[2] # {"legacy"}
    <3>1. DOMAIN table.rows = {}
      BY <1>1, <2>2, OldLogs
    <3> QED
      BY <3>1 DEF Judged
  <2> QED
    BY <2>1, <2>2
<1>4. RowsInTable(table)
  BY <1>1, OldLogs DEF RowsInTable
<1> QED
  BY <1>1, <1>2, <1>3, <1>4 DEF Init, SchemaInv, MigrationInv

\* Every step keeps the schema one the program finds or makes.
LEMMA SchemaNext ==
    ASSUME TypeInv, SchemaInv, MigrationInv, [Next]_vars
    PROVE  SchemaInv'
<1>1. ASSUME NEW r \in Runs, Commit(r) PROVE SchemaInv'
  BY <1>1, CommittedSchema DEF SchemaInv
<1>2. ASSUME NEW r \in Runs, ProvisionRuntimeRole(r) PROVE SchemaInv'
  BY <1>2, ProvisionedSchema DEF SchemaInv
<1>3. CASE Prune \/ SaveLog
  BY <1>3, WrittenTable, WrittenRows DEF SchemaInv
<1>4. ASSUME recorded' = recorded, table' = table PROVE SchemaInv'
  BY <1>4 DEF SchemaInv, Judged, RowsInTable
<1> QED
  BY <1>1, <1>2, <1>3, <1>4, OtherSteps

\* The inductive invariant.
IInv == TypeInv /\ LockInv /\ SchemaInv /\ MigrationInv

\* In every reachable state of the database and the runs.
THEOREM MaintenanceInvariant == Spec => []IInv
<1>1. Init => IInv
  BY TypeInit, SchemaInit DEF IInv
<1>2. IInv /\ [Next]_vars => IInv'
  BY TypeNext, SchemaNext, MigrationNext DEF IInv
<1> QED
  BY <1>1, <1>2, PTL DEF Spec

\* A schema changes only by a migration, from one the program knows (or by
\* dropping it whole) to one that its revisions describe (migrate_database).
THEOREM SchemaMatchesRecordHolds == Spec => SchemaMatchesRecord
<1>1. ASSUME IInv, [Next]_vars, <<recorded', table'.columns>> # <<recorded, table.columns>>
      PROVE  /\ Matches(recorded', table'.columns)
             /\ \/ Matches(recorded, table.columns)
                \/ recorded = {} /\ table.columns = {"legacy"}
                \/ recorded' = {}
  <2>1. PICK r \in Runs : Commit(r)
    BY <1>1, OtherSteps, ProvisionedSchema, WrittenTable DEF IInv
  <2> QED
    BY <1>1, <2>1, CommittedSchema, ConsistentMatches DEF IInv
<1>2. IInv /\ [Next]_vars =>
         [LET s == <<recorded, table.columns>>
          IN s' # s => /\ Matches(recorded', table'.columns)
                       /\ \/ Matches(recorded, table.columns)
                          \/ recorded = {} /\ table.columns = {"legacy"}
                          \/ recorded' = {}]_vars
  BY <1>1
<1> QED
  BY <1>2, MaintenanceInvariant, PTL DEF Spec, SchemaMatchesRecord

\* A row stays, with its code, but for a migration to base and the retention of
\* a backend that starts or saves, and every verdict says what the legacy code of
\* its row says (v0002, JudgeResult.legacy_code, prune_execution_logs).
THEOREM RowsKeepTheirJudgmentHolds == Spec => RowsKeepTheirJudgment
<1>1. ASSUME IInv, [Next]_vars
      PROVE  \A i \in DOMAIN table.rows :
                \/ i \in DOMAIN table'.rows /\ table'.rows[i].code = table.rows[i].code
                \/ last' # Nobody /\ phase[last'] = "migrating" /\ target[last'] = "base"
                \/ /\ i \notin DOMAIN table'.rows
                   /\ backend' = "serving" /\ UNCHANGED <<recorded, access, runVars>>
  <2> USE <1>1 DEF IInv
  <2>1. ASSUME RowCodes(table') = RowCodes(table), NEW i \in DOMAIN table.rows
        PROVE  i \in DOMAIN table'.rows /\ table'.rows[i].code = table.rows[i].code
    <3>1. DOMAIN RowCodes(table') = DOMAIN RowCodes(table) /\ RowCodes(table')[i] = RowCodes(table)[i]
      BY <2>1
    <3> QED
      BY <3>1 DEF RowCodes
  <2>2. ASSUME NEW r \in Runs, Commit(r)
        PROVE  \/ RowCodes(table') = RowCodes(table)
               \/ last' # Nobody /\ phase[last'] = "migrating" /\ target[last'] = "base"
    BY <2>2, CommittedSchema, NobodyAssumption
  <2>3. ASSUME NEW r \in Runs, ProvisionRuntimeRole(r) PROVE RowCodes(table') = RowCodes(table)
    BY <2>3, ProvisionedSchema DEF RowCodes
  <2>4. ASSUME Prune \/ SaveLog, NEW i \in DOMAIN table.rows
        PROVE  \/ i \in DOMAIN table'.rows /\ table'.rows[i].code = table.rows[i].code
               \/ /\ i \notin DOMAIN table'.rows
                  /\ backend' = "serving" /\ UNCHANGED <<recorded, access, runVars>>
    BY <2>4, WrittenTable
  <2>5. table' = table => RowCodes(table') = RowCodes(table)
    OBVIOUS
  <2> QED
    BY <2>1, <2>2, <2>3, <2>4, <2>5, OtherSteps
<1>2. ASSUME IInv, [Next]_vars
      PROVE  \A i \in DOMAIN table'.rows :
                LET row == table'.rows[i]
                IN IF "structured" \in table'.columns
                   THEN row.verdict # "none" /\ CodeOf(row.verdict) = row.code
                   ELSE row.verdict = "none"
  BY <1>2, SchemaNext DEF IInv, SchemaInv, Judged
<1> QED
  BY <1>1, <1>2, MaintenanceInvariant, PTL DEF Spec, RowsKeepTheirJudgment

-----------------------------------------------------------------------------
(***************************************************************************)
(* Reports                                                                 *)
(***************************************************************************)
\* Since its commit nobody has migrated; and from its provisioning on the role
\* stays what it is, though others provision it again.
MigratedInv ==
    \A r \in Runs : last = r /\ phase[r] \in {"provisioning", "completed", "reported"} =>
        recorded = Applied(Count[target[r]])
ProvisionedInv ==
    \A r \in Runs : /\ last = r /\ phase[r] \in {"completed", "reported"}
                    /\ target[r] = "head"
                    => Accepted
ReportInv == MigratedInv /\ ProvisionedInv

\* Nobody has migrated at the start.
LEMMA ReportInit == Init => ReportInv
BY DEF Init, ReportInv, MigratedInv, ProvisionedInv

\* Every step keeps what has been done as it was done, or is another migration.
LEMMA ReportNext ==
    ASSUME IInv, ReportInv, [Next]_vars
    PROVE  ReportInv'
<1> USE DEF IInv, ReportInv, MigratedInv, ProvisionedInv, schema, access, runVars
<1>1. ASSUME NEW r \in Runs, Commit(r) PROVE ReportInv'
  <2>1. /\ last' = r /\ target' = target /\ recorded' = Applied(Count[target[r]])
        /\ phase' = [phase EXCEPT ![r] = AfterMigration(r)]
    BY <1>1, CommittedSchema DEF Commit
  <2>2. target[r] = "head" => phase'[r] = "provisioning"
    BY <2>1 DEF AfterMigration, TypeInv
  <2> QED
    BY <2>1, <2>2
<1>2. ASSUME NEW r \in Runs, ProvisionRuntimeRole(r) PROVE ReportInv'
  <2>1. /\ phase[r] = "provisioning" /\ phase' = [phase EXCEPT ![r] = "completed"]
        /\ RoleAccepted(role') /\ PrivilegesMatch(grants', table'.granted)
        /\ UNCHANGED <<recorded, target, last>>
    BY <1>2 DEF ProvisionRuntimeRole
  <2>2. MigratedInv'
    BY <2>1 DEF TypeInv
  <2>3. recorded = Applied(Count["head"]) => Accepted'
    BY <2>1, Revisions12, Targets12 DEF Accepted
  <2>4. ASSUME NEW q \in Runs, last' = q, phase'[q] \in {"completed", "reported"},
               target'[q] = "head"
        PROVE  Accepted'
    BY <2>1, <2>3, <2>4 DEF TypeInv
  <2> QED
    BY <2>2, <2>4
<1>3. CASE Prune \/ SaveLog
  <2>1. /\ table'.granted = table.granted /\ recorded' = recorded
        /\ UNCHANGED <<access, runVars>>
    BY <1>3, WrittenTable
  <2> QED
    BY <2>1 DEF Accepted
<1>4. ASSUME NEW r \in Runs, Start(r) PROVE ReportInv'
  BY <1>4 DEF Start, TypeInv, Accepted
<1>5. ASSUME NEW r \in Runs, AcquireMigrationLock(r) \/ Stamp(r) \/ Report(r) \/ Fail(r)
      PROVE  ReportInv'
  BY <1>5 DEF AcquireMigrationLock, Stamp, Report, Fail, TypeInv, Accepted
<1>6. ASSUME NEW r \in Runs, Upgrade(r) \/ Downgrade(r) PROVE ReportInv'
  BY <1>6 DEF Upgrade, Downgrade, Alter, Accepted
<1>7. CASE StartBackend \/ StopBackend \/ UNCHANGED vars
  BY <1>7 DEF StartBackend, StopBackend, vars, Accepted
<1> QED
  BY <1>1, <1>2, <1>3, <1>4, <1>5, <1>6, <1>7, NextCases

\* A run that reports success and was the last to migrate has left the database
\* at its target and, at head, one that the backend's validation accepts
\* (database_admin.main, validate_runtime_database).
THEOREM ReportsAreTrueHolds == Spec => []ReportsAreTrue
<1>1. Spec => []ReportInv
  BY ReportInit, ReportNext, MaintenanceInvariant, PTL DEF Spec
<1>2. ReportInv => ReportsAreTrue
  BY DEF ReportInv, MigratedInv, ProvisionedInv, ReportsAreTrue
<1> QED
  BY <1>1, <1>2, PTL
=============================================================================
