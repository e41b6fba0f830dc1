---------------------------- MODULE LayoutAdvice ----------------------------
(***************************************************************************)
(* What is computed from the metrics of an indexed table: the layout       *)
(* profile, the what-if projection, the write-distribution and clustering  *)
(* advice (layout/, tuning/, advisor/) and the health score (health/).     *)
(*                                                                         *)
(* The code computes with binary floats. Here a ratio or depth is a whole  *)
(* number of the unit its comment names, rounded where the code rounds, so *)
(* that results may differ in the last digit. Texts, the Parquet and       *)
(* materialized-view advice, and dimensions that only repeat a metric are  *)
(* left out.                                                               *)
(***************************************************************************)
EXTENDS Integers, FiniteSets, Sequences

Least(a, b) == IF a < b THEN a ELSE b
Most(a, b) == IF a > b THEN a ELSE b
Ceil(a, b) == -((-a) \div b)

(* round(): to the even neighbour when both are equally near.              *)
Round(a, b) ==
  LET q == a \div b
      r == 2 * (a % b)
  IN IF r > b \/ (r = b /\ q % 2 = 1) THEN q + 1 ELSE q

(* sorted(): the indices in S by rising key, equal ones as they come.      *)
Before(key, i, j) == key[i] < key[j] \/ (key[i] = key[j] /\ i < j)

InOrder(S, key) ==
  [n \in 1..Cardinality(S) |->
     CHOOSE i \in S : Cardinality({j \in S : Before(key, j, i)}) = n - 1]

Sorted(values) ==
  LET order == InOrder(DOMAIN values, values)
  IN [n \in DOMAIN order |-> values[order[n]]]

-----------------------------------------------------------------------------
(* LayoutStatsService.                                                     *)

(* round(small_file_ratio, 4), in ten-thousandths.                         *)
SmallRatio(m) ==
  IF m.file_count = 0 THEN 0 ELSE Round(10000 * m.small, m.file_count)

(* _clustering_candidates: depths in hundredths. columns are the fields of *)
(* the schema, sort_fields those of the current sort order; a field that   *)
(* has no key "source" sorts nothing.                                      *)
SortColumns(sort_fields) ==
  {f.source : f \in {f \in sort_fields : "source" \in DOMAIN f}}

SortedDepth(m) ==
  IF m.file_count = 0 THEN 100
  ELSE Round(100 * m.file_count + 200 * m.small, m.file_count)

UnsortedDepth(m) ==
  IF m.file_count = 0 THEN 200
  ELSE Round(200 * m.file_count + 800 * m.small, m.file_count)

Candidates(m, columns, sort_fields) ==
  [i \in 1..Least(Len(columns), 6) |->
     LET sorted == columns[i].name \in SortColumns(sort_fields)
     IN [column |-> columns[i].name,
         cardinality |-> columns[i].cardinality,
         in_sort_order |-> sorted,
         depth |-> IF sorted THEN SortedDepth(m) ELSE UnsortedDepth(m)]]

(* profile.                                                                *)
Profile(m, columns, sort_fields) ==
  [file_count |-> m.file_count,
   avg_file_size |-> IF m.file_count = 0 THEN 0
                     ELSE m.data_size \div m.file_count,
   small_ratio |-> SmallRatio(m),
   clustering |-> Candidates(m, columns, sort_fields)]

-----------------------------------------------------------------------------
(* WhatIfService. A query names the first column of its filter and its     *)
(* selectivity in hundredths; a change has a kind and a target.            *)

Files(p) == Most(p.file_count, 1)

DepthOf(p, column) ==
  LET of == {i \in DOMAIN p.clustering : p.clustering[i].column = column}
      first == CHOOSE i \in of : \A j \in of : i <= j
  IN IF of = {} THEN 20000 + 8 * p.small_ratio
     ELSE 100 * p.clustering[first].depth

CurrentFiles(p, column) ==
  Most(1, Ceil(Files(p) * Least(100000, DepthOf(p, column)), 100000))

(* _granularity_factor, as a pair of numerator and denominator.            *)
Granularity(to) ==
  CASE to = "hour"  -> <<24, 1>>
    [] to = "day"   -> <<7, 1>>
    [] to = "month" -> <<1, 4>>
    [] OTHER        -> <<4, 1>>

(* _parse_int(change.to) or the default: 0 counts as not given, and one    *)
(* below zero is taken as it is.                                           *)
Given(to, default) == IF to = 0 THEN default ELSE to

Unclamped(p, change, query, current, target) ==
  CASE change.kind = "resort" ->
         Most(1, Ceil(query.selectivity * Files(p), 100))
    [] change.kind = "repartition" ->
         LET f == Granularity(change.to)
         IN Most(1, Ceil(current * f[2], f[1]))
    [] change.kind = "refile_size" ->
         LET size == Given(change.to, target)
             count == IF size < 0 THEN 1
                      ELSE Most(1, Ceil(Files(p) * p.avg_file_size, size))
         IN Most(1, Ceil(current * count, Files(p)))

ProjectedFiles(p, change, query, current, target) ==
  Most(1, Least(Unclamped(p, change, query, current, target), Files(p)))

(* _reduction_pct, in tenths of a percent.                                 *)
Reduction(current, projected) ==
  IF current <= 0 \/ projected >= current THEN 0
  ELSE Round(1000 * (current - projected), current)

ProjectQuery(p, change, query, target) ==
  LET current == CurrentFiles(p, query.column)
      projected == ProjectedFiles(p, change, query, current, target)
      size == IF change.kind = "refile_size"
              THEN Given(change.to, p.avg_file_size) ELSE p.avg_file_size
  IN [current_files |-> current, projected_files |-> projected,
      files_reduction |-> Reduction(current, projected),
      bytes_reduction |-> Reduction(current * p.avg_file_size,
                                    projected * size)]

(* _median: the mean of the two in the middle is rounded to a tenth.       *)
Median(values) ==
  LET s == Sorted(values)
      mid == Len(values) \div 2
  IN IF values = <<>> THEN 0
     ELSE IF Len(values) % 2 = 1 THEN s[mid + 1]
     ELSE Round(s[mid] + s[mid + 1], 2)

Simulate(p, change, queries, target) ==
  LET of == [i \in DOMAIN queries |->
               ProjectQuery(p, change, queries[i], target)]
      cut == [i \in DOMAIN queries |-> of[i].files_reduction]
      rising == Sorted(cut)
  IN [queries |-> of,
      typical |-> Median(cut),
      best |-> IF cut = <<>> THEN 0 ELSE rising[Len(cut)],
      worst |-> IF cut = <<>> THEN 0 ELSE rising[1]]

-----------------------------------------------------------------------------
(* TuningService.distribution_advice, in tenths of a percent.              *)
DistributionAdvice(p, partitioned) ==
  IF partitioned /\ \E i \in DOMAIN p.clustering : p.clustering[i].in_sort_order
  THEN [mode |-> "range", reduction |-> 700]
  ELSE IF partitioned /\ p.small_ratio > 3000
       THEN [mode |-> "hash", reduction |-> Round(p.small_ratio * 80, 1000)]
       ELSE [mode |-> "none", reduction |-> 0]

(* AdvisorService. The candidates in S are ranked by falling score, equal  *)
(* ones in the order of the schema.                                        *)
CardinalityWeight(hint) ==
  CASE hint = "high" -> 10 [] hint = "medium" -> 6 [] hint = "low" -> 2
    [] OTHER -> 5

Score(c, filter) ==
  (IF c.column \in filter THEN 10 ELSE 3)
    * CardinalityWeight(c.cardinality) * c.depth

Ranked(p, S, filter) ==
  LET spared == [i \in DOMAIN p.clustering |-> -Score(p.clustering[i], filter)]
      order == InOrder(S, spared)
  IN [n \in DOMAIN order |-> p.clustering[order[n]]]

(* The depth of a sorted column, from a ratio that was rounded before.     *)
ProjectedDepth(p) == Round(1000000 + 200 * p.small_ratio, 10000)

(* clustering_advice, for a table with at least one candidate.             *)
ClusteringAdvice(p, filter, target) ==
  LET all == DOMAIN p.clustering
      ranked == Ranked(p, all, filter)
      multi == Ranked(p, {i \in all : p.clustering[i].column \in filter}, filter)
      chosen == IF Len(multi) >= 2 THEN SubSeq(multi, 1, Least(Len(multi), 3))
                ELSE <<ranked[1]>>
      queries == [i \in DOMAIN chosen |->
                    [column |-> chosen[i].column, selectivity |-> 5]]
  IN [strategy |-> IF Len(multi) >= 2 THEN "zorder" ELSE "sort",
      columns |-> [i \in DOMAIN chosen |-> chosen[i].column],
      current_depth |-> chosen[1].depth,
      projected_depth |-> ProjectedDepth(p),
      scan_reduction |->
        Simulate(p, [kind |-> "resort", to |-> "sort"], queries,
                 target).typical]

-----------------------------------------------------------------------------
(* HealthService.evaluate_table. health_score of the row is 0 for every    *)
(* table that a sync inserts, and 0 counts as not set.                     *)

Floor100(spent) == Most(0, 100 - spent)

FileScore(m) ==
  IF m.file_count = 0 THEN 100
  ELSE Most(0, (100 * (m.file_count - m.small)) \div m.file_count)

DeleteScore(m) ==
  LET count == Most(m.file_count, 1)
  IN (100 * (count - Least(m.delete_file_count, count))) \div count

MetadataScore(m) == Floor100(Most(m.manifest_count - 100, 0) \div 5)

(* A wrong penalty: snapshots below 50 cost points, further ones nothing.  *)
FewSnapshotsScore(m) == Floor100(Most(50 - m.snapshot_count, 0) \div 4)

SnapshotScore(m) == Floor100(Most(m.snapshot_count - 50, 0) \div 4)

HealthScore(m, owned, format_version, stored) ==
  LET weighted ==
        Round(25 * FileScore(m) + 20 * DeleteScore(m) + 20 * MetadataScore(m)
                + 15 * SnapshotScore(m) + 10 * (IF owned THEN 100 ELSE 30)
                + 10 * (IF format_version = 3 THEN 70 ELSE 90), 100)
  IN Least(weighted, IF stored = 0 THEN weighted ELSE stored)

(* The operations that its findings recommend.                             *)
Recommended(m, format_version) ==
  {o \in {"rewrite_data_files", "rewrite_position_deletes",
          "expire_snapshots", "upgrade_format"} :
     CASE o = "rewrite_data_files" ->
            m.file_count > 0 /\ 10 * m.small >= 4 * m.file_count
       [] o = "rewrite_position_deletes" ->
            2 * m.delete_file_count >= Most(m.file_count, 1)
       [] o = "expire_snapshots" -> m.snapshot_count >= 100
       [] o = "upgrade_format" -> format_version = 3}

-----------------------------------------------------------------------------
(* Bounded inputs: a target of 4 units, tables of up to 3 files of up to   *)
(* twice the target, and one whose ratio of small files loses digits when  *)
(* it is rounded; schemas; and sort orders as rows of the index may hold   *)
(* them: a sync stores the fields of an order by source_id.                *)
GoodSize == 4

Column(name, cardinality) == [name |-> name, cardinality |-> cardinality]
Schemas ==
  {<<>>, <<Column("region", "low"), Column("at", "medium"),
           Column("user_id", "high")>>}
SortFields == {{}, {[source_id |-> 1]}, {[source |-> "at"]}}

Selectivity == {-10, 0, 5, 100, 250}
Change ==
  [kind : {"resort"}, to : {"sort"}]
  \cup [kind : {"repartition"}, to : {"hour", "day", "week", "month"}]
  \cup [kind : {"refile_size"}, to : {-1, 0, 1, GoodSize, 3 * GoodSize}]

Queries(columns) ==
  {[i \in DOMAIN columns |->
      [column |-> columns[i].name, selectivity |-> s]] : s \in Selectivity}
  \cup {<<[column |-> "other", selectivity |-> s]>> : s \in Selectivity}

(* A target size that makes no sense, and that nothing refuses.            *)
BelowZero(change) == change.kind = "refile_size" /\ change.to < 0

(* Whatever is asked, a projection touches at least one file and no more   *)
(* than there are, and its summary is ordered. Bytes are a share only when *)
(* the target is: a negative one projects negative bytes, and cuts them by *)
(* more than there are.                                                    *)
ProjectionInRange(p, change, queries) ==
  LET r == Simulate(p, change, queries, GoodSize) IN
  /\ \A i \in DOMAIN queries :
       LET q == r.queries[i] IN
       /\ q.current_files \in 1..Files(p)
       /\ q.projected_files \in 1..Files(p)
       /\ q.files_reduction \in 0..1000
       /\ ~BelowZero(change) => q.bytes_reduction \in 0..1000
  /\ r.worst <= r.typical /\ r.typical <= r.best

(* A target of the size the files have changes nothing; a larger one or a  *)
(* finer granularity never touches more files.                             *)
FilesOf(p, kind, to, column) ==
  ProjectQuery(p, [kind |-> kind, to |-> to],
               [column |-> column, selectivity |-> 5], GoodSize)

ProjectionFollowsGoodSize(p, column) ==
  /\ p.avg_file_size > 0 =>
       LET same == FilesOf(p, "refile_size", p.avg_file_size, column) IN
       same.files_reduction = 0 /\ same.bytes_reduction = 0
  /\ \A a, b \in {1, GoodSize, 3 * GoodSize} :
       a < b => FilesOf(p, "refile_size", b, column).projected_files
                  <= FilesOf(p, "refile_size", a, column).projected_files
  /\ \A g \in {<<"hour", "day">>, <<"day", "week">>, <<"week", "month">>} :
       FilesOf(p, "repartition", g[1], column).projected_files
         <= FilesOf(p, "repartition", g[2], column).projected_files

(* The advisor's depth is the one the profile shows once the table is      *)
(* sorted as advised, and no more than the present one. Both hold up to a  *)
(* hundredth: the advisor starts from the ratio that the profile shows,    *)
(* the profile from the exact one.                                         *)
AdviceComesTrue(m, columns, sort_fields, filter) ==
  LET p == Profile(m, columns, sort_fields)
      a == ClusteringAdvice(p, filter, GoodSize)
      later == Profile(m, columns, {[source |-> a.columns[1]]})
      shown == DepthOf(later, a.columns[1])
  IN /\ a.projected_depth <= a.current_depth + 1
     /\ shown <= 100 * (a.projected_depth + 1)
     /\ 100 * a.projected_depth <= shown + 100
     /\ a.scan_reduction \in 0..1000

Shape ==
  {[file_count |-> 252, small |-> 17, data_size |-> 252 * GoodSize]} \cup
  {m \in [file_count : 0..3, small : 0..3,
          data_size : 0..(6 * GoodSize)] :
     /\ m.small <= m.file_count /\ m.data_size <= 2 * GoodSize * m.file_count
     /\ m.small = 0 => m.data_size >= GoodSize * m.file_count}

AdviceHoldsFor(m, columns, sort_fields) ==
  LET p == Profile(m, columns, sort_fields) IN
  /\ \A change \in Change, queries \in Queries(columns) :
       ProjectionInRange(p, change, queries)
  /\ \A i \in DOMAIN columns : ProjectionFollowsGoodSize(p, columns[i].name)
  /\ \A filter \in SUBSET {columns[i].name : i \in DOMAIN columns} :
       columns # <<>> => AdviceComesTrue(m, columns, sort_fields, filter)
  /\ DistributionAdvice(p, TRUE).reduction \in 0..1000

AdviceHolds(m) ==
  \A columns \in Schemas, sort_fields \in SortFields :
    AdviceHoldsFor(m, columns, sort_fields)

AdviceHoldsOnShape == \A m \in Shape : AdviceHolds(m)

=============================================================================
