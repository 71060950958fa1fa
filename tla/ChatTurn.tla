------------------------------ MODULE ChatTurn ------------------------------
(***************************************************************************)
(* One conversation end to end: concurrent send requests, their Arq jobs,  *)
(* and the expiry of the Redis keys they share.  Faults selects what may   *)
(* go wrong; nothing here assumes that a step is fast.                     *)
(***************************************************************************)
EXTENDS ReplyJob

vars == << storeVars, sendVars, jobVars >>

(* The turn holds its reservation: from SET NX until the job's DELETE.     *)
InFlight(s) ==
  \/ Sending(s)
  \/ job[s] \in {"queued"} \cup (Running \ {"expiring"})

(* Inside Arq's timeout, which is no longer than the key's TTL.            *)
InTime(s) == job[s] \in Running /\ cancelled[s] # "timeout"

-----------------------------------------------------------------------------
(* Faulty variants of FlagExpires: SET without EX, and a TTL that does not  *)
(* cover the job.                                                          *)
FlagNeverExpires == FALSE /\ UNCHANGED vars

FlagExpiresAnytime ==
  /\ flag # None
  /\ flag' = None /\ flagCursor' = 0 /\ refreshers' = {}
  /\ UNCHANGED << messages, failures, streamVars, cache, nextSeq, sendVars, jobVars >>

(* The 300 s of the reservation run out.  A job restarts them as it starts *)
(* and is cancelled within them, so they cannot run out under a job that   *)
(* is in time; they can while a turn is still being sent, waits in the     *)
(* queue, or is cleaning up after its timeout, which "lease" admits.       *)
FlagExpires ==
  /\ flag # None
  /\ \A s \in refreshers : ~InTime(s)
  /\ "lease" \in Faults \/ ~InFlight(flag)
  /\ flag' = None /\ flagCursor' = 0 /\ refreshers' = {}
  /\ UNCHANGED << messages, failures, streamVars, cache, nextSeq, sendVars, jobVars >>

(* The 900 s an earlier turn left on the stream run out; ids keep growing. *)
StreamExpires ==
  /\ "streamTtl" \in Faults
  /\ streamTtl = "pending"
  /\ gone' = Len(log) /\ streamTtl' = "none"
  /\ UNCHANGED << messages, failures, log, flagVars, cache, nextSeq, sendVars, jobVars >>

(* 24 hours without a save, or an eviction.                                *)
CacheExpires ==
  /\ "cacheTtl" \in Faults
  /\ cache # {}
  /\ cache' = {}
  /\ UNCHANGED << messages, failures, streamVars, flagVars, nextSeq, sendVars, jobVars >>

-----------------------------------------------------------------------------
SendAction(s) == /\ SendProgress(s) \/ EndpointFails(s)
                 /\ UNCHANGED << cancelled, tries, deltas, prompt >>
JobAction(s)  == \/ JobProgress(s)
                 \/ \E why \in {"timeout", "shutdown"} : Cancel(s, why)
                 \/ Crash(s)

(* Every request answered, every job over, no reservation left.            *)
Quiet ==
  /\ \A s \in Sends : sendPc[s] \in SendAnswers /\ job[s] \in {"none", "done"}
  /\ flag = None
  /\ UNCHANGED vars

Init == StoreInit /\ SendInit /\ JobInit

Next ==
  \/ \E s \in Sends : SendAction(s) \/ JobAction(s)
  \/ FlagExpires
  \/ StreamExpires
  \/ CacheExpires
  \/ Quiet

(* Requests and jobs keep running once started, the worker keeps taking    *)
(* jobs, and Redis expires keys.  Sending is the user's choice: no request *)
(* has to start, and no fault has to happen.                               *)
Fairness ==
  /\ \A s \in Sends : /\ WF_vars(Sending(s) /\ SendProgress(s) /\ UNCHANGED << cancelled, tries, deltas, prompt >>)
                      /\ WF_vars(JobProgress(s))
  /\ WF_vars(FlagExpires)

Spec     == Init /\ [][Next]_vars
FairSpec == Spec /\ Fairness

-----------------------------------------------------------------------------
(* The shape of every row, key and local variable.                         *)
TypeOK == StoreTypeOK /\ SendTypeOK /\ JobTypeOK

HasRow(role, s)    == \E i \in DOMAIN messages : messages[i] = [role |-> role, turn |-> s]
Published(type, s) == \E i \in DOMAIN log : log[i] = [type |-> type, turn |-> s]

(* Nothing is said about a message before its row is committed: stream     *)
(* entries, failure rows and reply rows all belong to a turn whose user    *)
(* row is in Postgres, whatever fails, expires, is re-run or overlaps      *)
(* (the order of persist_user_message, xadd and enqueue in send_message).  *)
EverythingIsAboutASavedMessage ==
  /\ \A i \in DOMAIN log : HasRow("user", log[i].turn)
  /\ \A s \in failures : HasRow("user", s)
  /\ \A i \in DOMAIN messages : \E j \in 1 .. i :
        messages[j] = [role |-> "user", turn |-> messages[i].turn]

(* A turn that is announced as done has its reply in Postgres, or the      *)
(* watcher was warned on the same stream that it was not saved             *)
(* (send_message's persistence block).                                     *)
DoneIsSavedOrWarned ==
  \A s \in Sends :
    Published("MessageDone", s) => HasRow("assistant", s) \/ Published("PersistenceFailed", s)

(* At most one turn runs at a time (the SET NX reservation).               *)
OneTurnAtATime == \A s, t \in Sends : InFlight(s) /\ InFlight(t) => s = t

(* A watcher that attaches while a turn runs is given that turn from its   *)
(* user message on (resume_turn_cursor).                                   *)
ReplaysItsUserMessage ==
  \A s \in Sends :
    flag = s /\ Published("UserMessage", s) =>
      \E i \in EntriesAfter(ResumeTurnCursor) : log[i] = [type |-> "UserMessage", turn |-> s]

(* A turn that has loaded its prompt knows every earlier turn that was     *)
(* answered and saved (_load_prompt_history, save_history).                *)
PromptKnowsSavedTurns ==
  \A s \in Sends : job[s] \in Generating \ {"loading"} => CompleteTurns(messages) \ {<<s, s>>} \subseteq prompt[s]

-----------------------------------------------------------------------------
(* Inductive forms of the first two: a job exists only for an accepted     *)
(* message, and a reply on its way to MessageDone is saved or warned of.   *)
SavedInv ==
  /\ EverythingIsAboutASavedMessage
  /\ \A s \in Sends :
       /\ sendPc[s] \in {"announce", "enqueue", "accepted"} => HasRow("user", s)
       /\ job[s] # "none" => sendPc[s] = "accepted"

DoneInv ==
  /\ DoneIsSavedOrWarned
  /\ \A s \in Sends : job[s] \in {"caching", "publishing"} =>
       HasRow("assistant", s) \/ Published("PersistenceFailed", s)

(* Inductive form of ReplaysItsUserMessage where no stream expires: the    *)
(* reservation's cursor was read before the turn's own entry was added.    *)
ReplayInv ==
  /\ gone = 0
  /\ \A s \in Sends : cursor[s] <= Len(log)
  /\ flag # None => sendPc[flag] \notin {"new", "reserve"} /\ flagCursor = cursor[flag]
  /\ \A i \in DOMAIN log : log[i].type = "UserMessage" =>
       sendPc[log[i].turn] \notin {"new", "reserve"} /\ i > cursor[log[i].turn]

-----------------------------------------------------------------------------
(* Every accepted message is answered on the stream, with the end of a     *)
(* reply or with an error (the except branches of the job), where the job  *)
(* can reach Redis: its first EXPIRE stands before the try, and an error   *)
(* that cannot be published is not heard.                                  *)
AcceptedTurnsEnd ==
  \A s \in Sends :
    sendPc[s] = "accepted" ~> Published("MessageDone", s) \/ Published("Error", s)

(* No failure blocks the conversation for good: a reservation goes, by the *)
(* job's finally or by its TTL.                                            *)
ReservationsEnd == \A s \in Sends : flag = s ~> flag # s
=============================================================================
