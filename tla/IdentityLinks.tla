---------------------------- MODULE IdentityLinks ----------------------------
(***************************************************************************)
(* Admins reviewing identity links while jobs rewrite them.                *)
(***************************************************************************)
EXTENDS LinkJobs

linkSystemVars == << linkVars, reviewVars, jobVars >>

ReviewAction(r) == ReviewStep(r) /\ UNCHANGED jobVars

(* Every request answered, every job over.                                 *)
AllDone ==
  /\ \A r \in Reviews : review[r] \in {"new"} \cup ReviewAnswers
  /\ \A j \in Jobs : task[j] \in {"lost", "over", "unhandled"}
  /\ UNCHANGED linkSystemVars

Init == LinkInit /\ ReviewInit /\ JobsInit

Next ==
  \/ \E r \in Reviews : ReviewAction(r)
  \/ \E j \in Jobs : JobStep(j)
  \/ AllDone

(* The worker goes on with what it has; triggering a job and reviewing a   *)
(* link are the admins' choice, and no fault has to happen.                *)
Fairness == \A j \in Jobs : WF_linkSystemVars(WorkerStep(j))

Spec     == Init /\ [][Next]_linkSystemVars
FairSpec == Spec /\ Fairness

-----------------------------------------------------------------------------
(* The shape of every row, request and job.                                *)
LinksTypeOK == LinkTypeOK /\ ReviewTypeOK /\ JobsTypeOK

(* match_confidence is null exactly for MANUAL links, which the schema     *)
(* documents and no constraint enforces: whatever a stale session flushes  *)
(* over a row that a job or another admin rewrote, the pair stays together. *)
NullConfidenceIsManual ==
  \A p \in DOMAIN links : links[p].score = NoConfidence <=> links[p].method = "manual"

(* A link with a reviewer is marked as reviewed by an admin, although the  *)
(* two columns are written by different statements.                        *)
ReviewersAreAdmins == \A p \in DOMAIN links : links[p].reviewer # Nobody => links[p].byAdmin

(* The batch of a job refers only to real players it finds in the table    *)
(* (the order of ingest_rows and upsert_candidates in the sync).           *)
NoOrphans == \A j \in Jobs : task[j] = "upsert" => Orphans(found[j]) = {}

(* A job that has ended never gets another status, run again or not        *)
(* (the guards of IngestionJob and _fail_job).                             *)
EndedJobsStayEnded ==
  [][\A j \in Jobs : status[j] \in Ended => status'[j] = status[j]]_linkSystemVars

(* A job that reached the queue is in the end succeeded or failed in the   *)
(* table (tasks.py: BaseException, and the rollback before the failed      *)
(* status), unless its last attempt raised before the `try`, where nothing *)
(* handles it, or in _fail_job itself; nothing else leaves it queued or    *)
(* running for ever.                                                       *)
JobsEnd == \A j \in Jobs : task[j] = "waiting" ~> status[j] \in Ended \/ task[j] = "unhandled"

(* What tasks.py says of its tasks: "on any failure" the row gets the      *)
(* status failed.  No job is left queued or running by what raised in it.  *)
FailuresAreRecorded == \A j \in Jobs : task[j] = "waiting" ~> status[j] \in Ended
=============================================================================
