------------------------------- MODULE Backup -------------------------------
(***************************************************************************)
(* BackupService of KeyLore: the export of the tables and the restore of   *)
(* a payload while the server goes on writing.  The local database queues  *)
(* its statements, so that the reads of an export are one snapshot and a   *)
(* transaction has the database for itself; on Postgres the reads of an    *)
(* export are independent, and others commit between the statements of a   *)
(* restore, which runs at READ COMMITTED.  On either database a request    *)
(* that makes a row reads what it depends on in one statement and inserts  *)
(* the row in a later one.                                                 *)
(*                                                                         *)
(* A row is its table, key, tenant and the row it references; its other    *)
(* columns are left out.  access_tokens and refresh_tokens are one table,  *)
(* as are the two kinds of requests; the audit trail is left out.          *)
(***************************************************************************)
EXTENDS Storage, Naturals, FiniteSets, Sequences

CONSTANTS
  Tenants, NoTenant,
  Rows,          \* the rows that may come to exist
  InitialRows,
  Payloads,      \* the sets of rows that clients send to be restored
  NoId,          \* the reference of a row that has none
  Operators,
  TenantOf,      \* [Operators -> Tenants \cup {NoTenant}]: actor.tenantId
  Writers,       \* requests of the rest of the server that make a row
  NoRow,
  Slots,         \* slots for exports
  NoExport, NoTransaction

\* The tables in the order in which a restore deletes their rows.
DeletedTables ==
  <<"tokens", "requests", "runs", "clients", "rules", "credentials", "tenants">>

ExportedTables == {DeletedTables[i] : i \in DOMAIN DeletedTables}

\* codes: authorization codes and assertion ids; they and the rate limits are
\* not part of a backup.
Tables == ExportedTables \cup {"codes", "limits"}

\* Foreign keys, all of them ON DELETE CASCADE.
References(table) ==
  CASE table \in {"tokens", "codes"} -> "clients"
    [] table = "runs" -> "credentials"
    [] OTHER -> "nothing"

Same(row, other) == row.table = other.table /\ row.id = other.id

\* What a foreign key looks at; it knows no tenants.
IsParent(parent, row) ==
  /\ parent.table = References(row.table)
  /\ parent.id = row.parent

\* What the primary keys and the foreign keys demand of a set of rows.
Unique(rows) == \A row, other \in rows : Same(row, other) => row = other

Linked(rows) ==
  \A row \in rows : row.parent # NoId => \E parent \in rows : IsParent(parent, row)

ASSUME BackupAssumption ==
  /\ NoTenant \notin Tenants
  /\ TenantOf \in [Operators -> Tenants \cup {NoTenant}]
  /\ NoRow \notin Rows
  /\ \A row \in Rows :
       /\ DOMAIN row = {"table", "id", "tenant", "parent"}
       /\ row.table \in Tables
       /\ row.tenant \in Tenants \cup {NoTenant}
       /\ row.table = "limits" <=> row.tenant = NoTenant
       /\ References(row.table) = "nothing" <=> row.parent = NoId
  /\ InitialRows \subseteq Rows
  /\ Unique(InitialRows) /\ Linked(InitialRows)
  \* What the schema of a backup can hold; parsing compares no keys and no tenants.
  /\ \A rows \in Payloads :
       rows \subseteq Rows /\ \A row \in rows : row.table \in ExportedTables

VARIABLES
  db,       \* the committed rows
  writers,  \* the row that each request is about to insert
  exports,  \* what each export has read, and the backups
  restore   \* the transaction of the restore in progress

backupVars == <<database, db, writers, exports, restore>>

-----------------------------------------------------------------------------
(* Rows *)

WithChildren(gone, rows) ==
  gone \cup {row \in rows : \E parent \in gone : IsParent(parent, row)}

Owned(rows, tenant) == {row \in rows : tenant \in {NoTenant, row.tenant}}

-----------------------------------------------------------------------------
(* The writes of the rest of the server *)

\* The queue of the local database holds everybody back during a transaction.
QueueIsFree == database = "local" => restore = NoTransaction

\* On Postgres a write waits for the rows that the transaction has deleted.
Locked(rows) ==
  /\ restore # NoTransaction
  /\ \E locked \in restore.gone, row \in rows : Same(locked, row) \/ IsParent(locked, row)

\* What a request reads before it makes a row: the client of a token or the
\* credential of a run, whose tenant the row gets; the tenant of a credential or
\* a client.  A client is created under a name that is free, or written back.
MayBegin(row) ==
  /\ row.parent # NoId =>
       \E parent \in db : IsParent(parent, row) /\ parent.tenant = row.tenant
  /\ row.table \in {"credentials", "clients"} =>
       \E tenant \in db : tenant.table = "tenants" /\ tenant.id = row.tenant
  /\ row.table = "clients" => \A other \in db : Same(row, other) => other = row

BeginWrite(w, row) ==
  /\ writers[w] = NoRow
  /\ QueueIsFree
  /\ MayBegin(row)
  /\ writers' = [writers EXCEPT ![w] = row]
  /\ UNCHANGED <<database, db, exports, restore>>

\* Clients are upserted, tenant included.
Replaced(row) == {other \in db : row.table = "clients" /\ Same(row, other)}

\* The insertion finds its parent by the key alone.
InsertRow(w) ==
  LET row == writers[w]
      others == db \ Replaced(row)
  IN
  /\ row # NoRow
  /\ QueueIsFree /\ ~Locked({row})
  /\ \A other \in others : ~Same(row, other)
  /\ row.parent # NoId => \E parent \in db : IsParent(parent, row)
  /\ db' = others \cup {row}
  /\ writers' = [writers EXCEPT ![w] = NoRow]
  /\ UNCHANGED <<database, exports, restore>>

\* A later check or the insertion refuses, or the connection is lost.
AbandonWrite(w) ==
  /\ writers[w] # NoRow
  /\ writers' = [writers EXCEPT ![w] = NoRow]
  /\ UNCHANGED <<database, db, exports, restore>>

\* Credentials and rules are deleted by operators, the others by cleanups.
Erase(row) ==
  LET gone == WithChildren({row}, db) IN
  /\ row \in db
  /\ row.table \in {"credentials", "rules", "codes", "limits"}
  /\ QueueIsFree /\ ~Locked(gone)
  /\ db' = db \ gone
  /\ UNCHANGED <<database, writers, exports, restore>>

-----------------------------------------------------------------------------
(* Export *)

\* filterBackupForTenant
Filtered(rows, tenant) == Owned(rows, tenant)

OneByOne(by) == [by |-> by, left |-> ExportedTables, rows |-> {}]

\* exportBackup issues its reads at once: the local database runs them in a
\* row, Postgres on as many connections as its pool has.
Started(by) ==
  IF database = "local"
  THEN [by |-> by, left |-> {}, rows |-> {row \in db : row.table \in ExportedTables}]
  ELSE OneByOne(by)

StartExport(slot, by) ==
  /\ exports[slot] # NoExport => exports[slot].left = {}
  /\ QueueIsFree
  /\ exports' = [exports EXCEPT ![slot] = Started(by)]
  /\ UNCHANGED <<database, db, writers, restore>>

ReadTable(slot, table) ==
  LET export == exports[slot] IN
  /\ export # NoExport
  /\ table \in export.left
  /\ exports' = [exports EXCEPT ![slot] =
       [by |-> export.by, left |-> export.left \ {table},
        rows |-> export.rows \cup {row \in db : row.table = table}]]
  /\ UNCHANGED <<database, db, writers, restore>>

IsBackup(slot) == exports[slot] # NoExport /\ exports[slot].left = {}

Contents(slot) == Filtered(exports[slot].rows, TenantOf[exports[slot].by])

-----------------------------------------------------------------------------
(* Restore *)

\* assertTenantScopedBackup
Admitted(rows, tenant) ==
  tenant # NoTenant =>
    /\ \E row \in rows : row.table = "tenants" /\ row.tenant = tenant
    /\ \A row \in rows : row.tenant = tenant

DeletionsOfTenant(tenant) == DeletedTables

\* The deletions of an unscoped restore end with the rate limits.
Deletions(tenant) ==
  IF tenant = NoTenant THEN Append(DeletedTables, "limits") ELSE DeletedTables

\* Any payload that parses is restored, whoever made it.  Bound: one restore
\* at a time.
StartRestore(by, rows) ==
  /\ restore = NoTransaction
  /\ Admitted(rows, TenantOf[by])
  /\ restore' = [by |-> by, rows |-> rows, gone |-> {}, todo |-> Deletions(TenantOf[by])]
  /\ UNCHANGED <<database, db, writers, exports>>

InScopeOfAll(row, by) == TRUE

\* A tenant-scoped restore deletes WHERE tenant_id is that of its actor.
InScope(row, by) == TenantOf[by] \in {NoTenant, row.tenant}

\* A statement sees what is committed when it starts; the cascades follow.
DeleteTable ==
  LET left == db \ restore.gone
      rows == {row \in left : row.table = Head(restore.todo) /\ InScope(row, restore.by)}
  IN
  /\ restore # NoTransaction
  /\ restore.todo # << >>
  /\ restore' = [restore EXCEPT !.gone = @ \cup WithChildren(rows, left),
                                !.todo = Tail(@)]
  /\ UNCHANGED <<database, db, writers, exports>>

\* The rows of the payload are inserted, parents first, beside whatever was
\* committed by others since the deletions.
InsertAndCommit ==
  LET after == (db \ restore.gone) \cup restore.rows IN
  /\ restore # NoTransaction
  /\ restore.todo = << >>
  /\ \A row \in db \ restore.gone, new \in restore.rows : ~Same(row, new)
  /\ Unique(restore.rows)
  /\ Linked(after)
  /\ db' = after
  /\ restore' = NoTransaction
  /\ UNCHANGED <<database, writers, exports>>

\* A key is taken, a reference misses its row, or the connection is lost.
RollBack ==
  /\ restore # NoTransaction
  /\ restore' = NoTransaction
  /\ UNCHANGED <<database, db, writers, exports>>

-----------------------------------------------------------------------------
BackupInit ==
  /\ database \in Databases
  /\ db = InitialRows
  /\ writers = [w \in Writers |-> NoRow]
  /\ exports = [slot \in Slots |-> NoExport]
  /\ restore = NoTransaction

BackupNext ==
  \/ \E w \in Writers, row \in Rows : BeginWrite(w, row)
  \/ \E w \in Writers : InsertRow(w) \/ AbandonWrite(w)
  \/ \E row \in Rows : Erase(row)
  \/ \E slot \in Slots, by \in Operators : StartExport(slot, by)
  \/ \E slot \in Slots, table \in ExportedTables : ReadTable(slot, table)
  \/ \E by \in Operators, rows \in Payloads : StartRestore(by, rows)
  \/ DeleteTable \/ InsertAndCommit \/ RollBack

BackupSpec == BackupInit /\ [][BackupNext]_backupVars

-----------------------------------------------------------------------------
(* Properties *)

BackupTypeOK ==
  /\ database \in Databases
  /\ db \subseteq Rows
  /\ writers \in [Writers -> Rows \cup {NoRow}]
  /\ \A slot \in Slots : exports[slot] \in
       [by : Operators, left : SUBSET ExportedTables, rows : SUBSET Rows] \cup {NoExport}
  /\ restore = NoTransaction \/
       (/\ restore.by \in Operators
        /\ restore.rows \subseteq Rows
        /\ restore.gone \subseteq Rows)

\* A full backup of a local database is one that an empty database takes:
\* no key occurs twice and each row comes with the row it references, whatever
\* was written, erased and restored before (exportBackup).
LocalBackupsAreComplete ==
  database = "local" =>
    \A slot \in Slots : IsBackup(slot) /\ TenantOf[exports[slot].by] = NoTenant =>
      Unique(Contents(slot)) /\ Linked(Contents(slot))

\* After an unscoped restore a local database holds the rows of the payload
\* and no others: no table, and no row in the way, was forgotten
\* (restoreBackupPayload).
FullRestoreReplacesAll ==
  [][(database = "local" /\ InsertAndCommit /\ TenantOf[restore.by] = NoTenant) =>
       db' = restore.rows]_backupVars

\* What a tenant-scoped restore inserts is of its tenant, and what it deletes is
\* of its tenant or referenced a row of it, whatever payload it was given
\* and whatever was written meanwhile.
ScopedRestoresAreContained ==
  [][(InsertAndCommit /\ TenantOf[restore.by] # NoTenant) =>
       /\ \A row \in db' \ db : row.tenant = TenantOf[restore.by]
       /\ \A row \in db \ db' :
            \/ row.tenant = TenantOf[restore.by]
            \/ \E parent \in db :
                 IsParent(parent, row) /\ parent.tenant = TenantOf[restore.by]]_backupVars
=============================================================================
