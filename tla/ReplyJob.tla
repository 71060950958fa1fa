------------------------------ MODULE ReplyJob ------------------------------
(***************************************************************************)
(* generate_chat_reply_task, the Arq job that writes one reply, with       *)
(* ChatService.send_message inside it and the queue around it.  A job      *)
(* value names what the job does next; an exception raised while it is     *)
(* there takes it to Handler of that value.                                *)
(***************************************************************************)
EXTENDS SendMessage

CONSTANTS
  MaxDeltas,  (* Bound: deltas streamed by one attempt.                    *)
  MaxTries    (* Arq's max_tries, 5 in the deployed worker.                *)

ASSUME BoundsAssumption == MaxDeltas \in Nat /\ MaxTries \in Nat \ {0}

VARIABLES
  cancelled,  (* Why Arq cancelled the current attempt, "no" if it did not. *)
  tries,      (* Attempts started.                                         *)
  deltas,     (* Deltas the current attempt has streamed.                  *)
  prompt      (* The `history` the attempt loaded, without its own message. *)

jobVars == << job, cancelled, tries, deltas, prompt >>

Generating == {"loading", "generating", "saving", "caching", "publishing"}
Failing    == {"unavailable", "failing", "recording"}
Running    == Generating \cup Failing \cup {"clearing", "expiring"}
JobStates  == Running \cup {"none", "queued", "crashed", "done"}

(* except ChatServiceUnavailable, except BaseException, finally, caller.   *)
Handler(state) ==
  CASE state \in Generating \cup {"unavailable"} -> "failing"
    [] state \in {"failing", "recording"}        -> "clearing"
    [] state \in {"clearing", "expiring"}        -> "ended"

JobGoes(s, from, to) == job[s] = from /\ job' = [job EXCEPT ![s] = to]

(* The attempt is over.  Arq re-runs only what its own shutdown cancelled. *)
AfterAttempt(s, why) == IF why = "shutdown" /\ tries[s] < MaxTries THEN "queued" ELSE "done"

Raise(s, why) ==
  LET next == Handler(job[s])
  IN  job' = [job EXCEPT ![s] = IF next = "ended" THEN AfterAttempt(s, why) ELSE next]

-----------------------------------------------------------------------------
(* Faulty variants of StartJob: SET, which moves the cursor, and DELETE.    *)
StartJobMovingCursor(s) ==
  /\ JobGoes(s, "queued", "loading")
  /\ flagCursor' = IF flag = None THEN 0 ELSE LastStreamCursor
  /\ refreshers' = IF flag = None THEN refreshers ELSE refreshers \cup {s}
  /\ tries' = [tries EXCEPT ![s] = @ + 1]
  /\ cancelled' = [cancelled EXCEPT ![s] = "no"]
  /\ deltas' = [deltas EXCEPT ![s] = 0]
  /\ UNCHANGED << messages, failures, streamVars, flag, cache, nextSeq, sendVars, prompt >>

StartJobReleasing(s) ==
  /\ JobGoes(s, "queued", "loading")
  /\ flag' = None /\ flagCursor' = 0 /\ refreshers' = {}
  /\ tries' = [tries EXCEPT ![s] = @ + 1]
  /\ cancelled' = [cancelled EXCEPT ![s] = "no"]
  /\ deltas' = [deltas EXCEPT ![s] = 0]
  /\ UNCHANGED << messages, failures, streamVars, cache, nextSeq, sendVars, prompt >>

(* EXPIRE restarts the TTL of whatever reservation is there.               *)
StartJob(s) ==
  /\ JobGoes(s, "queued", "loading")
  /\ refreshers' = IF flag = None THEN refreshers ELSE refreshers \cup {s}
  /\ tries' = [tries EXCEPT ![s] = @ + 1]
  /\ cancelled' = [cancelled EXCEPT ![s] = "no"]
  /\ deltas' = [deltas EXCEPT ![s] = 0]
  /\ UNCHANGED << messages, failures, streamVars, flag, flagCursor, cache, nextSeq,
                  sendVars, prompt >>

(* Faulty variant of the next action: an empty cache is not rebuilt.       *)
LoadPromptHistoryCacheOnly(s) ==
  /\ JobGoes(s, "loading", "generating")
  /\ prompt' = [prompt EXCEPT ![s] = cache]
  /\ UNCHANGED << storeVars, sendVars, cancelled, tries, deltas >>

(* The cache if it holds anything, else the rows, written back; a rebuild  *)
(* that fails leaves an empty prompt.                                      *)
LoadPromptHistory(s) ==
  /\ JobGoes(s, "loading", "generating")
  /\ \E history \in IF cache # {} THEN {cache}
                    ELSE {CompleteTurns(messages)} \cup IF "db" \in Faults THEN {{}} ELSE {} :
       /\ prompt' = [prompt EXCEPT ![s] = history]
       /\ cache' \in {history} \cup IF "redis" \in Faults THEN {cache} ELSE {}
  /\ UNCHANGED << messages, failures, streamVars, flagVars, nextSeq,
                  sendVars, cancelled, tries, deltas >>

StreamDelta(s) ==
  /\ job[s] = "generating"
  /\ deltas[s] < MaxDeltas
  /\ deltas' = [deltas EXCEPT ![s] = @ + 1]
  /\ XAdd("Delta", s)
  /\ UNCHANGED << messages, failures, gone, streamTtl, flagVars, cache, nextSeq,
                  sendVars, job, cancelled, tries, prompt >>

(* OpenRouterRequestFailed becomes ChatServiceUnavailable ...              *)
ModelUnavailable(s) ==
  /\ "llm" \in Faults
  /\ JobGoes(s, "generating", "unavailable")
  /\ UNCHANGED << storeVars, sendVars, cancelled, tries, deltas, prompt >>

(* ... which the inner handler announces before the outer one records it.  *)
PublishUnavailable(s) ==
  /\ JobGoes(s, "unavailable", "recording")
  /\ XAdd("Error", s)
  /\ UNCHANGED << messages, failures, gone, streamTtl, flagVars, cache, nextSeq,
                  sendVars, cancelled, tries, deltas, prompt >>

(* Any other exception of the tool loop, e.g. a tool's query failing.      *)
ToolFails(s) ==
  /\ "tool" \in Faults
  /\ JobGoes(s, "generating", "failing")
  /\ UNCHANGED << storeVars, sendVars, cancelled, tries, deltas, prompt >>

(* The loop resolved: append_message reads MAX(sequence) + 1 ...           *)
ReadReplySequence(s) ==
  /\ JobGoes(s, "generating", "saving")
  /\ nextSeq' = [nextSeq EXCEPT ![s] = NextSequence]
  /\ UNCHANGED << messages, failures, streamVars, flagVars, cache, sendVars,
                  cancelled, tries, deltas, prompt >>

(* ... and INSERT, touch, COMMIT in a session of their own.                *)
SaveReply(s) ==
  /\ JobGoes(s, "saving", "caching")
  /\ SequenceFree(s)
  /\ InsertRow("assistant", s)
  /\ UNCHANGED << failures, streamVars, flagVars, cache, nextSeq, sendVars,
                  cancelled, tries, deltas, prompt >>

ReplyUnsavable(s) == ~SequenceFree(s) \/ "db" \in Faults

(* Faulty variant of the next action: the failure is only logged.          *)
SaveReplyFailsSilently(s) ==
  /\ ReplyUnsavable(s)
  /\ JobGoes(s, "saving", "caching")
  /\ UNCHANGED << storeVars, sendVars, cancelled, tries, deltas, prompt >>

SaveReplyFails(s) ==
  /\ ReplyUnsavable(s)
  /\ JobGoes(s, "saving", "caching")
  /\ XAdd("PersistenceFailed", s)
  /\ UNCHANGED << messages, failures, gone, streamTtl, flagVars, cache, nextSeq, sendVars,
                  cancelled, tries, deltas, prompt >>

(* save_history writes the whole prompt back; its failure is swallowed.    *)
CacheReply(s) ==
  /\ JobGoes(s, "caching", "publishing")
  /\ cache' \in {prompt[s] \cup {<<s, s>>}} \cup IF "redis" \in Faults THEN {cache} ELSE {}
  /\ UNCHANGED << messages, failures, streamVars, flagVars, nextSeq, sendVars,
                  cancelled, tries, deltas, prompt >>

PublishDone(s) ==
  /\ JobGoes(s, "publishing", "clearing")
  /\ XAdd("MessageDone", s)
  /\ UNCHANGED << messages, failures, gone, streamTtl, flagVars, cache, nextSeq,
                  sendVars, cancelled, tries, deltas, prompt >>

(* Faulty variant of the next action: watchers are not told.               *)
PublishErrorUnheard(s) ==
  /\ JobGoes(s, "failing", "recording")
  /\ UNCHANGED << storeVars, sendVars, cancelled, tries, deltas, prompt >>

PublishError(s) ==
  /\ JobGoes(s, "failing", "recording")
  /\ XAdd("Error", s)
  /\ UNCHANGED << messages, failures, gone, streamTtl, flagVars, cache, nextSeq,
                  sendVars, cancelled, tries, deltas, prompt >>

(* user_message_id is UNIQUE, and a failed write is logged and swallowed.  *)
RecordTurnFailure(s) ==
  /\ JobGoes(s, "recording", "clearing")
  /\ failures' \in {failures \cup {s}} \cup IF "db" \in Faults THEN {failures} ELSE {}
  /\ UNCHANGED << messages, streamVars, flagVars, cache, nextSeq, sendVars,
                  cancelled, tries, deltas, prompt >>

(* finally: DELETE the key, whoever set it ...                             *)
ClearFlag(s) ==
  /\ JobGoes(s, "clearing", "expiring")
  /\ flag' = None /\ flagCursor' = 0 /\ refreshers' = {}
  /\ UNCHANGED << messages, failures, streamVars, cache, nextSeq, sendVars,
                  cancelled, tries, deltas, prompt >>

(* ... and leave the stream to expire.                                     *)
ExpireStream(s) ==
  /\ JobGoes(s, "expiring", AfterAttempt(s, cancelled[s]))
  /\ SetStreamTtl
  /\ UNCHANGED << messages, failures, log, gone, flagVars, cache, nextSeq, sendVars,
                  cancelled, tries, deltas, prompt >>

-----------------------------------------------------------------------------
(* A Redis call of the job raises (a failed save of the history is part of *)
(* CacheReply).  The first one, StartJob's, stands before the try: nothing *)
(* is announced, recorded or deleted then, and Arq does not try again.     *)
RedisFails(s) ==
  /\ "redis" \in Faults
  /\ \/ JobGoes(s, "queued", "done")
     \/ /\ \/ job[s] \in {"loading", "generating", "publishing", "unavailable", "failing",
                          "clearing", "expiring"}
           \/ job[s] = "saving" /\ ReplyUnsavable(s)
        /\ Raise(s, cancelled[s])
  /\ UNCHANGED << storeVars, sendVars, cancelled, tries, deltas, prompt >>

(* Arq cancels the attempt, at its 300 s timeout or because the worker is  *)
(* told to stop.  CancelledError surfaces at the await the job is in.      *)
Cancel(s, why) ==
  /\ why \in {"timeout", "shutdown"} \cap Faults
  /\ job[s] \in Running
  /\ cancelled[s] = "no"
  /\ cancelled' = [cancelled EXCEPT ![s] = why]
  /\ Raise(s, why)
  /\ UNCHANGED << storeVars, sendVars, tries, deltas, prompt >>

(* The worker process dies; no handler runs.                               *)
Crash(s) ==
  /\ "crash" \in Faults
  /\ job[s] \in Running
  /\ job' = [job EXCEPT ![s] = "crashed"]
  /\ UNCHANGED << storeVars, sendVars, cancelled, tries, deltas, prompt >>

(* Arq runs the job again once its own in-progress key has gone, an hour   *)
(* later: the reservation's 300 s are long over.                           *)
Redeliver(s) ==
  /\ flag # s
  /\ JobGoes(s, "crashed", IF tries[s] < MaxTries THEN "queued" ELSE "done")
  /\ UNCHANGED << storeVars, sendVars, cancelled, tries, deltas, prompt >>

JobProgress(s) ==
  \/ StartJob(s)           \/ LoadPromptHistory(s) \/ StreamDelta(s)
  \/ ModelUnavailable(s)   \/ PublishUnavailable(s) \/ ToolFails(s)
  \/ ReadReplySequence(s)  \/ SaveReply(s)         \/ SaveReplyFails(s)
  \/ CacheReply(s)         \/ PublishDone(s)       \/ PublishError(s)
  \/ RecordTurnFailure(s)  \/ ClearFlag(s)         \/ ExpireStream(s)
  \/ RedisFails(s)         \/ Redeliver(s)

JobInit ==
  /\ job = [s \in Sends |-> "none"]
  /\ cancelled = [s \in Sends |-> "no"]
  /\ tries = [s \in Sends |-> 0]
  /\ deltas = [s \in Sends |-> 0]
  /\ prompt = [s \in Sends |-> {}]

JobTypeOK ==
  /\ job \in [Sends -> JobStates]
  /\ cancelled \in [Sends -> {"no", "timeout", "shutdown"}]
  /\ tries \in [Sends -> Nat]
  /\ deltas \in [Sends -> 0 .. MaxDeltas]
  /\ prompt \in [Sends -> SUBSET Turn]
=============================================================================
