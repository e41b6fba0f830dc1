---------------------------- MODULE LiveMetadata ----------------------------
(***************************************************************************)
(* What a sync derives from the metadata files of an Iceberg table         *)
(* (iceberg/live_metadata.py, _replace_table_metadata in                   *)
(* iceberg/service.py).                                                    *)
(*                                                                         *)
(* A table, as its metadata and manifests describe it, is a record:        *)
(*   head        the current snapshot, 0 when there is none                *)
(*   snapshots   the snapshots, numbered in the order of their commits     *)
(*   day         the day each was committed                                *)
(*   manifests   per snapshot the manifests of its manifest list           *)
(*   refs        branches and tags; aged are those with a maximal age      *)
(* Conversions of types, schemas, specs, logs and column statistics are    *)
(* left out. No caller passes force_full_history, so only the manifests of *)
(* the current snapshot are read.                                          *)
(***************************************************************************)
EXTENDS Naturals, FiniteSets, Functions

CONSTANTS
  File,     \* data and delete files: records with content, size, rows, part
  Target    \* write_target_file_size_bytes of the store, or 512 MB

EntryStatus == {"ADDED", "EXISTING", "DELETED"}
Manifest(S) ==
  [by : S, entries : SUBSET [file : File, entry_status : EntryStatus]]
Ref(S) == [ref_type : {"branch", "tag"}, snapshot : S, aged : BOOLEAN]

(* parse_table: the manifests listed, and the entries of those that could  *)
(* be read. listed says whether the manifest list could be, lost is the    *)
(* set of manifests that could not; each failure is kept as an error.      *)
ManifestRows(t, listed) ==
  IF t.head # 0 /\ listed THEN t.manifests[t.head] ELSE {}

FileRows(t, listed, lost) ==
  UNION {{[by |-> m.by, entry |-> e] : e \in m.entries}
           : m \in ManifestRows(t, listed) \ lost}

(* A wrong filter: entries of files that the snapshot removed count.       *)
CurrentOrDeleted(rows) == rows

Current(rows) == {r \in rows : r.entry.entry_status # "DELETED"}

ParseErrors(t, listed, lost) ==
  t.head # 0 /\ (~listed \/ lost \cap ManifestRows(t, listed) # {})

(* A wrong count: small delete files are small files.                      *)
SmallMetrics(t, manifests, current) ==
  LET data == {r \in current : r.entry.file.content = "DATA"}
      file(r) == r.entry.file
  IN [file_count        |-> Cardinality(data),
      data_size         |-> SumFunction([r \in data |-> file(r).size]),
      record_count      |-> SumFunction([r \in data |-> file(r).rows]),
      delete_file_count |-> Cardinality(current \ data),
      snapshot_count    |-> Cardinality(t.snapshots),
      manifest_count    |-> Cardinality(manifests),
      small             |-> Cardinality({r \in current :
                                           file(r).size < Target})]

(* _metrics. small is the count behind small_file_ratio.                   *)
Metrics(t, manifests, current) ==
  LET data == {r \in current : r.entry.file.content = "DATA"}
      file(r) == r.entry.file
  IN [file_count        |-> Cardinality(data),
      data_size         |-> SumFunction([r \in data |-> file(r).size]),
      record_count      |-> SumFunction([r \in data |-> file(r).rows]),
      delete_file_count |-> Cardinality(current \ data),
      snapshot_count    |-> Cardinality(t.snapshots),
      manifest_count    |-> Cardinality(manifests),
      small             |-> Cardinality({r \in data : file(r).size < Target})]

NoMetrics ==
  [file_count |-> 0, data_size |-> 0, record_count |-> 0,
   delete_file_count |-> 0, snapshot_count |-> 0, manifest_count |-> 0,
   small |-> 0]

(* _partition_summaries.                                                   *)
PartitionSummaries(current) ==
  LET of(p) == {r \in current : r.entry.file.part = p}
      data(p) == {r \in of(p) : r.entry.file.content = "DATA"}
  IN {[partition         |-> p,
       file_count        |-> Cardinality(data(p)),
       record_count      |-> SumFunction([r \in data(p) |->
                                            r.entry.file.rows]),
       total_size        |-> SumFunction([r \in data(p) |->
                                            r.entry.file.size]),
       delete_file_count |-> Cardinality(of(p) \ data(p))]
        : p \in {r.entry.file.part : r \in current}}

(* _refs: a branch is protected unless it ages out.                        *)
RefRows(t) ==
  {[ref_type |-> r.ref_type, snapshot |-> r.snapshot,
    is_protected |-> r.ref_type = "branch" /\ ~r.aged] : r \in t.refs}

(* A wrong import: each snapshot gets the day of the metadata file.        *)
StampedByHead(t, listed, lost) ==
  LET current == Current(FileRows(t, listed, lost)) IN
  [metrics    |-> Metrics(t, ManifestRows(t, listed), current),
   snapshots  |-> t.snapshots,
   day        |-> [s \in t.snapshots |-> t.day[t.head]],
   refs       |-> RefRows(t),
   partitions |-> PartitionSummaries(current),
   marks      |-> IF ParseErrors(t, listed, lost) THEN {"parse_errors"}
                  ELSE {}]

(* _replace_table_metadata: everything the index holds about the table is  *)
(* replaced, marks of earlier failures included.                           *)
Indexed(t, listed, lost) ==
  LET current == Current(FileRows(t, listed, lost)) IN
  [metrics    |-> Metrics(t, ManifestRows(t, listed), current),
   snapshots  |-> t.snapshots,
   day        |-> [s \in t.snapshots |-> t.day[s]],
   refs       |-> RefRows(t),
   partitions |-> PartitionSummaries(current),
   marks      |-> IF ParseErrors(t, listed, lost) THEN {"parse_errors"}
                  ELSE {}]

(* The row that a sync inserts before it parses anything.                  *)
NewRow ==
  [metrics |-> NoMetrics, snapshots |-> {}, day |-> [s \in {} |-> 0],
   refs |-> {}, partitions |-> {}, marks |-> {}]
=============================================================================
