----------------------------- MODULE Retention -----------------------------
(***************************************************************************)
(* The simulation of a snapshot expiry (retention/service.py), over the    *)
(* index of a table. Snapshots are numbered in the order of their commits, *)
(* which is taken to be the order of committed_at. A cutoff is a day.      *)
(* Reclaimable bytes are left out, and so are retention.pinned, which no   *)
(* reader writes, and the preview of a cleanup.                            *)
(***************************************************************************)
EXTENDS Integers, FiniteSets

(* _protected_snapshot_ids.                                                *)
Protected(ix) ==
  {r.snapshot : r \in {r \in ix.refs : r.ref_type = "tag" \/ r.is_protected}}

(* A wrong order: the list is not reversed, and the oldest are kept.       *)
Older(ix, s) == Cardinality({r \in ix.snapshots : r < s})

(* snapshots[: retain_last] of the list with the newest first. A negative  *)
(* number counts from the end, as Python slices do.                        *)
Newer(ix, s) == Cardinality({r \in ix.snapshots : r > s})
Retained(ix, n) ==
  LET kept == IF n >= 0 THEN n ELSE Cardinality(ix.snapshots) + n
  IN {s \in ix.snapshots : Newer(ix, s) < kept}

Window(ix, q) ==
  {s \in ix.snapshots \ Retained(ix, q.retain_last)
     : ix.day[s] < q.older_than}

EarliestOf(ix, remaining) ==
  {ix.day[s] : s \in {s \in remaining : \A r \in remaining : s <= r}}

(* simulate_expire; earliest is empty when nothing remains.                *)
SimulateExpire(ix, q) ==
  LET expiring == Window(ix, q) \ Protected(ix)
      remaining == ix.snapshots \ expiring
  IN [expiring |-> expiring,
      protected_excluded |-> Window(ix, q) \cap Protected(ix),
      retained_count |-> Cardinality(remaining),
      earliest |-> EarliestOf(ix, remaining)]

-----------------------------------------------------------------------------
(* What applying a simulation leaves, as the index would show it after the *)
(* next sync.                                                              *)
After(ix, q) ==
  LET kept == ix.snapshots \ SimulateExpire(ix, q).expiring
  IN [ix EXCEPT !.snapshots = kept, !.day = [s \in kept |-> ix.day[s]]]

(* A simulated expiry is the whole of it: once applied, the same request   *)
(* finds nothing more, the number of snapshots is the one shown, none is   *)
(* older than the earliest time travel shown, and the newest snapshots     *)
(* asked for and those that references protect are still there.            *)
ExpiryIsWhole(ix, q) ==
  LET shown == SimulateExpire(ix, q)
      left == After(ix, q)
      newer(s) == {r \in ix.snapshots : r > s}
  IN /\ SimulateExpire(left, q).expiring = {}
     /\ Cardinality(left.snapshots) = shown.retained_count
     /\ \A s \in left.snapshots : \A d \in shown.earliest : d <= ix.day[s]
     /\ \A s \in ix.snapshots :
          \/ Cardinality(newer(s)) < q.retain_last
          \/ \E r \in ix.refs : r.snapshot = s /\ r.ref_type = "tag"
          => s \in left.snapshots
=============================================================================
