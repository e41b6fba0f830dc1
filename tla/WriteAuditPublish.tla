------------------------- MODULE WriteAuditPublish -------------------------
(***************************************************************************)
(* Write-Audit-Publish runs (wap/service.py).  The handler loads the table *)
(* row, then the metrics row when a check asks for it, and commits a job   *)
(* that is already finished when the branch is published.                  *)
(***************************************************************************)
EXTENDS Naturals, TableIndex, JobStore

CONSTANTS
  Payload,   \* the requests a client may send
  NoPayload

VARIABLES
  auditing,  \* the WAP handler on each thread
  published  \* what a run of a job reported when it was created

(* A check: the number of files that rowcount asks for, the oldest commit  *)
(* freshness allows, or one that needs a query engine.                     *)
Check ==
  [type : {"rowcount"}, min : Nat] \cup [type : {"freshness", "sql"}]

ASSUME PayloadAssumption ==
  /\ Payload \subseteq [checks : SUBSET Check,
                        publish : {"auto_if_green", "require_approval"}]
  /\ NoPayload \notin Payload

WapPhase == {"idle", "loaded", "audited"}

WapTypeOK ==
  /\ auditing \in [Session -> [phase : WapPhase, table : Table,
                               green : BOOLEAN,
                               payload : Payload \cup {NoPayload}]]
  /\ published \in [JobId -> {"none", "held", "requires_approval",
                              "published"}]

WapIdle ==
  [phase |-> "idle", table |-> CHOOSE t \in Table : TRUE, green |-> FALSE,
   payload |-> NoPayload]

WapInit ==
  /\ auditing = [s \in Session |-> WapIdle]
  /\ published = [j \in JobId |-> "none"]

(* _evaluate_check fails.  A metrics row that is gone counts no files and  *)
(* has no commit; a check that needs an engine is skipped.                 *)
CheckFails(t, c) ==
  \/ /\ c.type = "rowcount"
     /\ (IF table[t].present THEN table[t].files ELSE 0) < c.min
  \/ /\ c.type = "freshness"
     /\ table[t].present /\ table[t].commit = "stale"

Green(t, checks) == \A c \in checks : ~CheckFails(t, c)

(* _decide_publish.                                                        *)
Verdict(green, payload) ==
  IF ~green THEN "held"
  ELSE IF payload.publish = "require_approval" THEN "requires_approval"
  ELSE "published"

WapBegin(s, t, p) ==
  /\ auditing[s].phase = "idle"
  /\ table[t].present
  /\ auditing' = [auditing EXCEPT ![s] =
       [phase |-> "loaded", table |-> t, green |-> FALSE, payload |-> p]]
  /\ UNCHANGED <<table, job, run, cancelling, published>>

WapAudit(s) ==
  /\ auditing[s].phase = "loaded"
  /\ auditing' = [auditing EXCEPT
       ![s].phase = "audited",
       ![s].green = Green(auditing[s].table, auditing[s].payload.checks)]
  /\ UNCHANGED <<table, job, run, cancelling, published>>

(* A wrong mapping: a run that waits for an approval counts as finished.   *)
WapStatusIfGreen(verdict) ==
  IF verdict = "held" THEN "queued" ELSE "succeeded"

(* A wrong mapping: the verdict is taken for a status.                     *)
WapStatusOfVerdict(verdict) ==
  IF verdict = "published" THEN "succeeded" ELSE verdict

WapStatus(verdict) == IF verdict = "published" THEN "succeeded" ELSE "queued"

WapCommit(s, j) ==
  LET verdict == Verdict(auditing[s].green, auditing[s].payload) IN
  /\ auditing[s].phase = "audited"
  /\ InsertJob(j,
       [kind |-> "wap", status |-> WapStatus(verdict), request |-> NoRequest],
       [status |-> WapStatus(verdict), engine |-> "control-plane",
        command |-> verdict = "published", restore |-> FALSE,
        ended |-> IF verdict = "published" THEN 1 ELSE 0])
  /\ published' = [published EXCEPT ![j] = verdict]
  /\ auditing' = [auditing EXCEPT ![s] = WapIdle]
  /\ UNCHANGED <<table, cancelling>>

WapAbort(s) ==
  /\ auditing[s].phase # "idle"
  /\ auditing' = [auditing EXCEPT ![s] = WapIdle]
  /\ UNCHANGED <<table, job, run, cancelling, published>>
-----------------------------------------------------------------------------
(* A run that was held, or that waits for an approval, never counts as     *)
(* published afterwards, and a published one never stops counting: the     *)
(* verdict the client was told, the status of the job and the publish      *)
(* command in its run agree for ever, in spite of cancel handlers that     *)
(* loaded the job (wap/service.py:65-72, jobs/router.py:117-123).          *)
VerdictStands ==
  \A j \in JobId : job[j].kind = "wap" =>
    /\ published[j] = "published" <=> job[j].status = "succeeded"
    /\ published[j] = "published" <=> run[j].command
    /\ published[j] # "published" => job[j].status \in {"queued", "cancelled"}
=============================================================================
