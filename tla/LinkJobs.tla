------------------------------- MODULE LinkJobs -------------------------------
(***************************************************************************)
(* The ingestion jobs that write identity links, from the admin's request  *)
(* to the end of the Arq job: the clean rematch, and the Transfermarkt     *)
(* sync as far as its PLAYERS stage.  `status` is the ingestion_job row an *)
(* admin polls; `task` is where the request or the worker is.              *)
(***************************************************************************)
EXTENDS LinkReview

CONSTANTS
  Jobs,        (* The jobs admins trigger.                                 *)
  Kinds,       (* What each may be: "sync", "resume" (skip_populated) or   *)
               (* "rematch".                                               *)
  Matchings,   (* The results PlayerIdentityMatchingService.match may have. *)
  JobFaults,   (* "queue", "work", "shutdown", "crash".                    *)
  MaxReruns    (* Bound: how often a job is run again, below Arq's max_tries. *)

ASSUME JobsAssumption ==
  /\ Kinds \in [Jobs -> SUBSET {"sync", "resume", "rematch"}]
  /\ \A m \in Matchings : m \subseteq Candidate /\ \A c, d \in m : c.player = d.player => c = d
  /\ JobFaults \subseteq {"queue", "work", "shutdown", "crash"}
  /\ MaxReruns \in Nat

VARIABLES
  kind,        (* What the admin asked for.                                *)
  status,      (* ingestion_job.status, "absent" before the row.           *)
  task,        (* What the request or the worker does next for the job.    *)
  found,       (* The `candidates` of its attempt.                         *)
  stopping,    (* The worker's shutdown cancelled the attempt.             *)
  reruns       (* Runs after the first.                                    *)

jobVars == << kind, status, task, found, stopping, reruns >>

(* In the task's `try`.                                                    *)
Working == {"starting", "wipe", "match", "ingest", "upsert", "finish"}
Tasks   == Working \cup {"none", "enqueue", "lost", "waiting", "failing", "crashed", "over",
                         "unhandled"}
Ended   == {"succeeded", "failed"}

TaskGoes(j, from, to) == task[j] = from /\ task' = [task EXCEPT ![j] = to]
StatusGoes(j, to)     == status' = [status EXCEPT ![j] = to]

(* The candidates whose real player is in the given rows.                  *)
Among(candidates, rows) == {c \in candidates : c.real \in rows}

-----------------------------------------------------------------------------
(* The admin's POST: the row is committed, then the job is enqueued.       *)
CreateJob(j) ==
  /\ TaskGoes(j, "none", "enqueue")
  /\ StatusGoes(j, "queued")
  /\ \E k \in Kinds[j] : kind' = [kind EXCEPT ![j] = k]
  /\ UNCHANGED << linkVars, reviewVars, found, stopping, reruns >>

Enqueue(j) ==
  /\ TaskGoes(j, "enqueue", "waiting")
  /\ UNCHANGED << linkVars, reviewVars, kind, status, found, stopping, reruns >>

(* Redis is down: 500, and the row stays queued.                           *)
EnqueueFails(j) ==
  /\ "queue" \in JobFaults
  /\ TaskGoes(j, "enqueue", "lost")
  /\ UNCHANGED << linkVars, reviewVars, kind, status, found, stopping, reruns >>

(* The worker takes the job up: session_scope, job_repository.get and the  *)
(* services, before the `try`.                                             *)
Load(j) ==
  /\ TaskGoes(j, "waiting", "starting")
  /\ UNCHANGED << linkVars, reviewVars, kind, status, found, stopping, reruns >>

(* What raises outside the `try` or in its handler reaches Arq alone: it   *)
(* runs again what its own shutdown cancelled, and drops the rest.         *)
LeavesTheTask(j, why) ==
  /\ why \in JobFaults
  /\ IF why = "shutdown"
     THEN /\ reruns[j] < MaxReruns
          /\ task' = [task EXCEPT ![j] = "waiting"]
          /\ reruns' = [reruns EXCEPT ![j] = @ + 1]
     ELSE task' = [task EXCEPT ![j] = "unhandled"] /\ UNCHANGED reruns

LoadFails(j, why) ==
  /\ task[j] = "waiting"
  /\ LeavesTheTask(j, why)
  /\ UNCHANGED << linkVars, reviewVars, kind, status, found, stopping >>

(* mark_running, and the branch of skip_populated: a sync that resumes     *)
(* over a real_player table with rows matches nothing.                     *)
StartJob(j) ==
  /\ status[j] = "queued"
  /\ StatusGoes(j, "running")
  /\ TaskGoes(j, "starting", IF kind[j] = "rematch" THEN "wipe"
                             ELSE IF kind[j] = "resume" /\ realPlayers # {} THEN "finish"
                             ELSE "match")
  /\ UNCHANGED << linkVars, reviewVars, kind, found, stopping, reruns >>

(* mark_running raises: an earlier attempt has been here.                  *)
StartRefused(j) ==
  /\ status[j] # "queued"
  /\ TaskGoes(j, "starting", "failing")
  /\ UNCHANGED << linkVars, reviewVars, kind, status, found, stopping, reruns >>

Wipe(j) ==
  /\ TaskGoes(j, "wipe", "match")
  /\ DeleteAll
  /\ UNCHANGED << realPlayers, reviewVars, kind, status, found, stopping, reruns >>

(* Faulty variant of the next definition: links before real players.       *)
MatchBeforeIngest(j) ==
  /\ TaskGoes(j, "match", "upsert")
  /\ \E m \in Matchings : found' = [found EXCEPT ![j] = m]
  /\ UNCHANGED << linkVars, reviewVars, kind, status, stopping, reruns >>

(* A rematch matches the real players in the table, a sync those of its    *)
(* players.csv, which it has yet to write.                                 *)
Match(j) ==
  /\ TaskGoes(j, "match", IF kind[j] = "rematch" THEN "upsert" ELSE "ingest")
  /\ \E m \in Matchings :
       found' = [found EXCEPT ![j] = IF kind[j] = "rematch" THEN Among(m, realPlayers) ELSE m]
  /\ UNCHANGED << linkVars, reviewVars, kind, status, stopping, reruns >>

(* ingest_rows commits players.csv in chunks ...                           *)
IngestChunk(j) ==
  /\ task[j] = "ingest"
  /\ \E r \in RealPlayers \ realPlayers : realPlayers' = realPlayers \cup {r}
  /\ UNCHANGED << links, lastId, reviewVars, jobVars >>

(* ... until all of them are there.                                        *)
IngestEnds(j) ==
  /\ realPlayers = RealPlayers
  /\ TaskGoes(j, "ingest", "upsert")
  /\ UNCHANGED << linkVars, reviewVars, kind, status, found, stopping, reruns >>

Upsert(j) ==
  /\ Orphans(found[j]) = {} /\ ~Collides(found[j])
  /\ TaskGoes(j, "upsert", "finish")
  /\ UpsertCandidates(found[j])
  /\ found' = [found EXCEPT ![j] = {}]
  /\ UNCHANGED << realPlayers, reviewVars, kind, status, stopping, reruns >>

(* IntegrityError.                                                         *)
UpsertRefused(j) ==
  /\ Orphans(found[j]) # {} \/ Collides(found[j])
  /\ TaskGoes(j, "upsert", "failing")
  /\ UNCHANGED << linkVars, reviewVars, kind, status, found, stopping, reruns >>

(* mark_succeeded; the stages after PLAYERS touch no link.                 *)
FinishJob(j) ==
  /\ TaskGoes(j, "finish", "over")
  /\ StatusGoes(j, "succeeded")
  /\ UNCHANGED << linkVars, reviewVars, kind, found, stopping, reruns >>

(* The source, the database or Arq's timeout ("work"), or the worker's     *)
(* shutdown raises in the `try`.                                           *)
Raise(j, why) ==
  /\ why \in {"work", "shutdown"} \cap JobFaults
  /\ task[j] \in Working
  /\ task' = [task EXCEPT ![j] = "failing"]
  /\ stopping' = [stopping EXCEPT ![j] = (why = "shutdown")]
  /\ UNCHANGED << linkVars, reviewVars, kind, status, found, reruns >>

(* Arq runs again what its own shutdown cancelled.                         *)
AfterFailure(j) == IF stopping[j] /\ reruns[j] < MaxReruns THEN "waiting" ELSE "over"

(* Faulty variants of the next definition: mark_failed without its guard,  *)
(* and no handler for CancelledError.                                      *)
FailJobAnyway(j) ==
  /\ TaskGoes(j, "failing", AfterFailure(j))
  /\ StatusGoes(j, "failed")
  /\ reruns' = [reruns EXCEPT ![j] = IF AfterFailure(j) = "waiting" THEN @ + 1 ELSE @]
  /\ found' = [found EXCEPT ![j] = {}] /\ stopping' = [stopping EXCEPT ![j] = FALSE]
  /\ UNCHANGED << linkVars, reviewVars, kind >>

FailJobSilently(j) ==
  /\ TaskGoes(j, "failing", AfterFailure(j))
  /\ reruns' = [reruns EXCEPT ![j] = IF AfterFailure(j) = "waiting" THEN @ + 1 ELSE @]
  /\ found' = [found EXCEPT ![j] = {}] /\ stopping' = [stopping EXCEPT ![j] = FALSE]
  /\ UNCHANGED << linkVars, reviewVars, kind, status >>

(* _fail_job: rollback, then mark_failed unless the job has ended.         *)
FailJob(j) ==
  /\ TaskGoes(j, "failing", AfterFailure(j))
  /\ StatusGoes(j, IF status[j] \in Ended THEN status[j] ELSE "failed")
  /\ reruns' = [reruns EXCEPT ![j] = IF AfterFailure(j) = "waiting" THEN @ + 1 ELSE @]
  /\ found' = [found EXCEPT ![j] = {}] /\ stopping' = [stopping EXCEPT ![j] = FALSE]
  /\ UNCHANGED << linkVars, reviewVars, kind >>

(* The rollback, the get or the update of _fail_job raises in its turn.    *)
HandlerFails(j, why) ==
  /\ task[j] = "failing"
  /\ LeavesTheTask(j, why)
  /\ found' = [found EXCEPT ![j] = {}] /\ stopping' = [stopping EXCEPT ![j] = FALSE]
  /\ UNCHANGED << linkVars, reviewVars, kind, status >>

(* The worker dies: in the job, or after its last commit and before Arq    *)
(* has noted the result.                                                   *)
Crash(j) ==
  /\ "crash" \in JobFaults
  /\ task[j] \in Working \cup {"failing"} \/ (task[j] = "over" /\ status[j] = "succeeded")
  /\ reruns[j] < MaxReruns
  /\ task' = [task EXCEPT ![j] = "crashed"]
  /\ found' = [found EXCEPT ![j] = {}] /\ stopping' = [stopping EXCEPT ![j] = FALSE]
  /\ UNCHANGED << linkVars, reviewVars, kind, status, reruns >>

Redeliver(j) ==
  /\ TaskGoes(j, "crashed", "waiting")
  /\ reruns' = [reruns EXCEPT ![j] = @ + 1]
  /\ UNCHANGED << linkVars, reviewVars, kind, status, found, stopping >>

WorkerStep(j) ==
  \/ Enqueue(j) \/ Load(j)  \/ StartJob(j)    \/ StartRefused(j)
  \/ Wipe(j)    \/ Match(j) \/ IngestChunk(j) \/ IngestEnds(j)
  \/ Upsert(j)  \/ UpsertRefused(j) \/ FinishJob(j) \/ FailJob(j) \/ Redeliver(j)

JobStep(j) ==
  \/ CreateJob(j) \/ WorkerStep(j) \/ EnqueueFails(j) \/ Crash(j)
  \/ \E why \in {"work", "shutdown"} : Raise(j, why) \/ LoadFails(j, why) \/ HandlerFails(j, why)

JobsInit ==
  /\ kind = [j \in Jobs |-> "unknown"]
  /\ status = [j \in Jobs |-> "absent"] /\ task = [j \in Jobs |-> "none"]
  /\ found = [j \in Jobs |-> {}]
  /\ stopping = [j \in Jobs |-> FALSE] /\ reruns = [j \in Jobs |-> 0]

JobsTypeOK ==
  /\ kind \in [Jobs -> {"unknown", "sync", "resume", "rematch"}]
  /\ status \in [Jobs -> {"absent", "queued", "running"} \cup Ended]
  /\ task \in [Jobs -> Tasks]
  /\ found \in [Jobs -> SUBSET Candidate]
  /\ stopping \in [Jobs -> BOOLEAN] /\ reruns \in [Jobs -> 0 .. MaxReruns]
=============================================================================
