----------------------------- MODULE SendMessage -----------------------------
(***************************************************************************)
(* POST /conversations/{id}/messages: reserve the turn, persist the user's *)
(* row, announce it on the turn stream, enqueue the reply job.  A request  *)
(* is a coroutine, so other requests, jobs and readers run between any two *)
(* of its awaits; each action below is the code between two of them.       *)
(* start_turn (the conversation row and its categorisation) has run: it    *)
(* touches none of the state here.                                         *)
(***************************************************************************)
EXTENDS ChatStore

VARIABLES
  sendPc,    (* What each request does next, or how it was answered.       *)
  cursor,    (* The local `cursor`, read before the reservation.           *)
  job        (* Each request's generate_chat_reply_task, see ReplyJob.     *)

sendVars == << sendPc, cursor >>

SendSteps   == {"new", "reserve", "sequence", "persist", "announce", "enqueue"}
SendAnswers == {"accepted", "rejected", "failed"}      (* 202, 409, 500.    *)

(* The request holds a reservation it has not handed to a job yet.         *)
Sending(s) == sendPc[s] \in {"sequence", "persist", "announce", "enqueue"}

SendGoes(s, from, to) ==
  /\ sendPc[s] = from
  /\ sendPc' = [sendPc EXCEPT ![s] = to]

-----------------------------------------------------------------------------
ReadCursor(s) ==
  /\ SendGoes(s, "new", "reserve")
  /\ cursor' = [cursor EXCEPT ![s] = LastStreamCursor]
  /\ UNCHANGED << storeVars, job >>

(* Faulty variant of Reserve: SET without NX.                              *)
ReserveUnguarded(s) ==
  /\ SendGoes(s, "reserve", "sequence")
  /\ flag' = s /\ flagCursor' = cursor[s] /\ refreshers' = {}
  /\ UNCHANGED << messages, failures, streamVars, cache, nextSeq, cursor, job >>

(* SET NX EX: the key's value is the cursor read a step ago.               *)
Reserve(s) ==
  /\ SendGoes(s, "reserve", "sequence")
  /\ flag = None
  /\ flag' = s /\ flagCursor' = cursor[s] /\ refreshers' = {}
  /\ UNCHANGED << messages, failures, streamVars, cache, nextSeq, cursor, job >>

RejectTurnInProgress(s) ==
  /\ SendGoes(s, "reserve", "rejected")
  /\ flag # None
  /\ UNCHANGED << storeVars, cursor, job >>

(* append_message: SELECT MAX(sequence) + 1 ...                            *)
ReadUserSequence(s) ==
  /\ SendGoes(s, "sequence", "persist")
  /\ nextSeq' = [nextSeq EXCEPT ![s] = NextSequence]
  /\ UNCHANGED << messages, failures, streamVars, flagVars, cache, cursor, job >>

(* Faulty variant of the next action: the commit is left to someone else.  *)
PersistUserMessageLater(s) ==
  /\ SendGoes(s, "persist", "announce")
  /\ UNCHANGED << storeVars, cursor, job >>

(* ... and INSERT, touch, COMMIT.                                          *)
PersistUserMessage(s) ==
  /\ SendGoes(s, "persist", "announce")
  /\ SequenceFree(s)
  /\ InsertRow("user", s)
  /\ UNCHANGED << failures, streamVars, flagVars, cache, nextSeq, cursor, job >>

(* Another writer took the sequence: IntegrityError, the reservation stays. *)
PersistConflict(s) ==
  /\ SendGoes(s, "persist", "failed")
  /\ ~SequenceFree(s)
  /\ UNCHANGED << storeVars, cursor, job >>

AnnounceUserMessage(s) ==
  /\ SendGoes(s, "announce", "enqueue")
  /\ XAdd("UserMessage", s)
  /\ UNCHANGED << messages, failures, gone, streamTtl, flagVars, cache, nextSeq, cursor, job >>

EnqueueChatReply(s) ==
  /\ SendGoes(s, "enqueue", "accepted")
  /\ job' = [job EXCEPT ![s] = "queued"]
  /\ UNCHANGED << storeVars, cursor >>

(* Postgres, Redis or the queue raises, or the API process dies: nothing   *)
(* in the handler gives the reservation back.                              *)
EndpointFails(s) ==
  /\ "endpoint" \in Faults
  /\ Sending(s)
  /\ sendPc' = [sendPc EXCEPT ![s] = "failed"]
  /\ UNCHANGED << storeVars, cursor, job >>

SendProgress(s) ==
  \/ ReadCursor(s)          \/ Reserve(s)            \/ RejectTurnInProgress(s)
  \/ ReadUserSequence(s)    \/ PersistUserMessage(s) \/ PersistConflict(s)
  \/ AnnounceUserMessage(s) \/ EnqueueChatReply(s)

SendInit ==
  /\ sendPc = [s \in Sends |-> "new"]
  /\ cursor = [s \in Sends |-> 0]

SendTypeOK ==
  /\ sendPc \in [Sends -> SendSteps \cup SendAnswers]
  /\ cursor \in [Sends -> Nat]
=============================================================================
