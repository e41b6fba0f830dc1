----------------------------- MODULE TableIndex -----------------------------
(***************************************************************************)
(* The cached index of Iceberg tables, as the other components see it: one *)
(* row per table, replaced as a whole by a committed metadata sync.  The   *)
(* sync itself is iceberg/service.py; here it is one step, because its     *)
(* only commit publishes every row it changed.                             *)
(***************************************************************************)

CONSTANTS
  Table,        \* identifiers of indexed tables
  Environment,  \* environments a table can belong to
  FileCount,    \* values of TableMetrics.file_count
  SyncedRow     \* the rows a sync may write

(* `v3` is format_version >= 3, `protected` says that a protected ref is   *)
(* cached, `files` and `commit` are the metrics row: the number of data    *)
(* files and how old the last commit is.                                   *)
CommitAge == {"unknown", "fresh", "stale"}

TableRow ==
  [present : BOOLEAN, environment : Environment, v3 : BOOLEAN,
   protected : BOOLEAN, files : FileCount, commit : CommitAge]

ASSUME TableIndexAssumption ==
  /\ Table # {} /\ Environment # {}
  /\ SyncedRow \subseteq TableRow
  /\ \A row \in SyncedRow : row.present

VARIABLE table

TableIndexTypeOK == table \in [Table -> TableRow]

(* The index starts with every table synced once.                          *)
TableIndexInit == table \in [Table -> SyncedRow]

(* A sync commits a new row for a table it still finds in the catalog.     *)
SyncTable(t) ==
  /\ table[t].present
  /\ \E row \in SyncedRow : table' = [table EXCEPT ![t] = row]

(* The row of the table is deleted; its identifier never comes back.       *)
RemoveTable(t) ==
  /\ table[t].present
  /\ table' = [table EXCEPT ![t].present = FALSE]
=============================================================================
