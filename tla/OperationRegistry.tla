------------------------- MODULE OperationRegistry -------------------------
(***************************************************************************)
(* The operation descriptors (operations/registry.py).  op() derives every *)
(* flag of a descriptor from its safety class and category, and keyword    *)
(* arguments override some of them: an override is written with EXCEPT.    *)
(* SQL templates, descriptions, the form of the parameters and engines     *)
(* other than Spark are left out: no property depends on them.             *)
(***************************************************************************)

SafetyClass ==
  {"READ", "METADATA", "WRITE", "REWRITE", "DESTRUCTIVE", "MIGRATION_ADMIN"}

Gate ==
  {"dry_run_required", "affected_row_estimate", "restore_point_required",
   "idempotent_retry", "approval_required", "same_location_collision_check",
   "path_authority_check", "protected_ref_check",
   "reader_compatibility_check", "retention_window_min_3_days",
   "query_window_check", "irreversible_change_check", "snapshot_exists",
   "approval_required_in_prod", "namespace_empty_check"}

(* The values of the parameter target_version that a dry run can carry:    *)
(* a request body holds a string or a number, and the two are different.   *)
NotGiven == "not given"
TargetVersion == {NotGiven, "string 2", "string 3", "number 3"}

Descriptor ==
  [safety_class : SafetyClass, gates : SUBSET Gate,
   approval_required : BOOLEAN, restore_point_required : BOOLEAN,
   requires_table : BOOLEAN, writes_data : BOOLEAN,
   native_metadata : BOOLEAN, spark_required : BOOLEAN,
   target_default : TargetVersion, target_options : SUBSET TargetVersion]

(* default_gates: the gates of a class when the descriptor names none.     *)
DefaultGates ==
  [READ            |-> {},
   METADATA        |-> {"dry_run_required"},
   WRITE           |-> {"dry_run_required", "affected_row_estimate"},
   REWRITE         |-> {"dry_run_required", "restore_point_required",
                        "idempotent_retry"},
   DESTRUCTIVE     |-> {"dry_run_required", "restore_point_required",
                        "approval_required"},
   MIGRATION_ADMIN |-> {"dry_run_required", "same_location_collision_check",
                        "idempotent_retry"}]

NativeCategory ==
  {"Namespace", "Table DDL", "Schema", "Partition", "Metadata tables",
   "Branch and tag", "Snapshots"}

(* op(): onTable says whether the SQL template names the table, spark      *)
(* whether Spark is among the supported engines.                           *)
Op(class, category, onTable, spark) ==
  [safety_class           |-> class,
   gates                  |-> DefaultGates[class],
   approval_required      |-> class = "DESTRUCTIVE",
   restore_point_required |-> class \in {"DESTRUCTIVE", "REWRITE"},
   requires_table         |-> onTable,
   writes_data            |-> class \in {"WRITE", "REWRITE", "DESTRUCTIVE"},
   native_metadata        |-> class \in {"READ", "METADATA"}
                              /\ category \in NativeCategory,
   spark_required         |-> class \in {"REWRITE", "DESTRUCTIVE"} /\ spark,
   target_default         |-> NotGiven,
   target_options         |-> {}]

-----------------------------------------------------------------------------
(* One descriptor of each kind the registry holds.                         *)

create_namespace == Op("METADATA", "Namespace", FALSE, TRUE)

alter_namespace_location ==
  [Op("METADATA", "Namespace", FALSE, TRUE) EXCEPT
     !.gates = {"dry_run_required", "path_authority_check"}]

drop_namespace ==
  [Op("DESTRUCTIVE", "Namespace", FALSE, TRUE) EXCEPT
     !.gates = {"dry_run_required", "namespace_empty_check",
                "approval_required"}]

(* The form offers the versions as strings: options=["2", "3"], default    *)
(* "3".                                                                    *)
upgrade_format ==
  [Op("DESTRUCTIVE", "Table DDL", TRUE, TRUE) EXCEPT
     !.gates = {"dry_run_required", "reader_compatibility_check",
                "irreversible_change_check", "restore_point_required",
                "approval_required"},
     !.target_default = "string 3",
     !.target_options = {"string 2", "string 3"}]

set_default ==
  [Op("METADATA", "Schema", TRUE, TRUE) EXCEPT
     !.gates = {"reader_compatibility_check"}]

insert_into == Op("WRITE", "DML", TRUE, TRUE)

rollback_to_snapshot ==
  [Op("METADATA", "Snapshots", TRUE, TRUE) EXCEPT
     !.approval_required = TRUE,
     !.restore_point_required = TRUE,
     !.gates = {"snapshot_exists", "restore_point_required",
                "approval_required_in_prod"}]

rewrite_data_files == Op("REWRITE", "Maintenance", TRUE, TRUE)

expire_snapshots ==
  [Op("DESTRUCTIVE", "Maintenance", TRUE, TRUE) EXCEPT
     !.gates = {"dry_run_required", "query_window_check",
                "protected_ref_check", "restore_point_required",
                "approval_required"}]

remove_orphan_files ==
  [Op("DESTRUCTIVE", "Maintenance", TRUE, TRUE) EXCEPT
     !.gates = {"dry_run_required", "retention_window_min_3_days",
                "path_authority_check", "restore_point_required",
                "approval_required"}]

(* approval_required is among the gates here, but the flag of that name    *)
(* keeps the default of the class, FALSE.                                  *)
rewrite_table_path ==
  [Op("MIGRATION_ADMIN", "Migration", TRUE, TRUE) EXCEPT
     !.gates = {"same_location_collision_check", "path_authority_check",
                "approval_required"}]

backfill_default ==
  [Op("WRITE", "Retention", TRUE, TRUE) EXCEPT
     !.gates = {"dry_run_required", "affected_row_estimate",
                "restore_point_required"},
     !.restore_point_required = TRUE]

(* OPERATION_BY_ID.                                                        *)
Registry ==
  [create_namespace         |-> create_namespace,
   alter_namespace_location |-> alter_namespace_location,
   drop_namespace           |-> drop_namespace,
   upgrade_format           |-> upgrade_format,
   set_default              |-> set_default,
   insert_into              |-> insert_into,
   rollback_to_snapshot     |-> rollback_to_snapshot,
   rewrite_data_files       |-> rewrite_data_files,
   expire_snapshots         |-> expire_snapshots,
   remove_orphan_files      |-> remove_orphan_files,
   rewrite_table_path       |-> rewrite_table_path,
   backfill_default         |-> backfill_default]
=============================================================================
