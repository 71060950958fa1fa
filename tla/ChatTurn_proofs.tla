--------------------------- MODULE ChatTurn_proofs ---------------------------
(***************************************************************************)
(* What holds of ChatTurn whatever fails, for any set of requests.         *)
(***************************************************************************)
EXTENDS ChatTurn, TLAPS

(* Appending a row keeps the table well formed.                            *)
LEMMA RowTyped ==
  ASSUME NEW rows \in Seq(Row), NEW s \in Sends, NEW role \in {"user", "assistant"}
  PROVE  Append(rows, [role |-> role, turn |-> s]) \in Seq(Row)
BY DEF Row

(* XADD keeps the stream well formed, and what is gone a prefix of it.     *)
LEMMA XAddTyped ==
  ASSUME log \in Seq(Entry), gone \in 0 .. Len(log), NEW s \in Sends,
         NEW type \in {"UserMessage", "Delta", "PersistenceFailed", "MessageDone", "Error"},
         XAdd(type, s), gone' = gone
  PROVE  log' \in Seq(Entry) /\ gone' \in 0 .. Len(log')
BY DEF Entry, XAdd

(* A rebuild yields turns.                                                 *)
LEMMA CompleteTurnsTyped ==
  ASSUME NEW rows \in Seq(Row)
  PROVE  CompleteTurns(rows) \subseteq Turn
<1> SUFFICES ASSUME NEW i \in 1 .. Len(rows) - 1
             PROVE  <<rows[i].turn, rows[i + 1].turn>> \in Turn
  BY DEF CompleteTurns
<1>1. rows[i] \in Row /\ rows[i + 1] \in Row
  OBVIOUS
<1> QED
  BY <1>1 DEF Row, Turn

(* A step keeps the shape of every row, key and local variable.            *)
LEMMA TypeStep ==
  ASSUME TypeOK, [Next]_vars
  PROVE  TypeOK'
<1> USE NoneAssumption, BoundsAssumption
    DEF TypeOK, StoreTypeOK, SendTypeOK, JobTypeOK, SendSteps, SendAnswers,
        JobStates, Running, Generating, Failing,
        storeVars, sendVars, jobVars, streamVars, flagVars
<1>1. ASSUME NEW s \in Sends, SendAction(s)
     PROVE  TypeOK'
  <2>0. UNCHANGED << cancelled, tries, deltas, prompt >>
    BY <1>1 DEF SendAction
  <2>1. CASE ReadCursor(s)
    BY <2>1, <2>0 DEF ReadCursor, SendGoes, LastStreamCursor
  <2>2. CASE Reserve(s)
    BY <2>2, <2>0 DEF Reserve, SendGoes
  <2>3. CASE RejectTurnInProgress(s)
    BY <2>3, <2>0 DEF RejectTurnInProgress, SendGoes
  <2>4. CASE ReadUserSequence(s)
    BY <2>4, <2>0, SMTT(30) DEF ReadUserSequence, SendGoes, NextSequence
  <2>5. CASE PersistUserMessage(s)
    BY <2>5, <2>0, RowTyped DEF PersistUserMessage, SendGoes, InsertRow
  <2>6. CASE PersistConflict(s)
    BY <2>6, <2>0 DEF PersistConflict, SendGoes
  <2>7. CASE AnnounceUserMessage(s)
    <3>1. log' \in Seq(Entry) /\ gone' \in 0 .. Len(log')
      BY <2>7, XAddTyped DEF AnnounceUserMessage
    <3> QED
      BY <2>7, <2>0, <3>1 DEF AnnounceUserMessage, SendGoes
  <2>8. CASE EnqueueChatReply(s)
    BY <2>8, <2>0 DEF EnqueueChatReply, SendGoes
  <2>9. CASE EndpointFails(s)
    BY <2>9, <2>0 DEF EndpointFails, SendGoes
  <2> QED
    BY <1>1, <2>1, <2>2, <2>3, <2>4, <2>5, <2>6, <2>7, <2>8, <2>9 DEF SendAction, SendProgress
<1>2. ASSUME NEW s \in Sends, JobAction(s)
     PROVE  TypeOK'
  <2>1. CASE StartJob(s)
    BY <2>1, SMTT(30) DEF StartJob, JobGoes
  <2>2. CASE LoadPromptHistory(s)
    <3>1. PICK history \in SUBSET Turn :
            prompt' = [prompt EXCEPT ![s] = history] /\ cache' \in {history, cache}
      BY <2>2, CompleteTurnsTyped, Zenon DEF LoadPromptHistory
    <3> QED
      BY <2>2, <3>1 DEF LoadPromptHistory, JobGoes
  <2>3. CASE StreamDelta(s)
    <3>1. log' \in Seq(Entry) /\ gone' \in 0 .. Len(log')
      BY <2>3, XAddTyped DEF StreamDelta
    <3>2. deltas[s] \in 0 .. MaxDeltas /\ deltas[s] + 1 \in 0 .. MaxDeltas
      BY <2>3 DEF StreamDelta
    <3>3. deltas' \in [Sends -> 0 .. MaxDeltas]
      BY <2>3, <3>2 DEF StreamDelta
    <3>4. StoreTypeOK'
      BY <2>3, <3>1 DEF StreamDelta
    <3> QED
      BY <2>3, <3>3, <3>4 DEF StreamDelta
  <2>4. CASE ModelUnavailable(s)
    BY <2>4 DEF ModelUnavailable, JobGoes
  <2>5. CASE PublishUnavailable(s)
    <3>1. log' \in Seq(Entry) /\ gone' \in 0 .. Len(log')
      BY <2>5, XAddTyped DEF PublishUnavailable
    <3> QED
      BY <2>5, <3>1 DEF PublishUnavailable, JobGoes
  <2>6. CASE ToolFails(s)
    BY <2>6 DEF ToolFails, JobGoes
  <2>7. CASE ReadReplySequence(s)
    BY <2>7, SMTT(30) DEF ReadReplySequence, JobGoes, NextSequence
  <2>8. CASE SaveReply(s)
    BY <2>8, RowTyped DEF SaveReply, JobGoes, InsertRow
  <2>9. CASE SaveReplyFails(s)
    <3>1. log' \in Seq(Entry) /\ gone' \in 0 .. Len(log')
      BY <2>9, XAddTyped DEF SaveReplyFails
    <3> QED
      BY <2>9, <3>1 DEF SaveReplyFails, JobGoes
  <2>10. CASE CacheReply(s)
    <3>1. prompt[s] \cup {<<s, s>>} \subseteq Turn
      BY DEF Turn
    <3>2. cache' \subseteq Turn
      BY <2>10, <3>1 DEF CacheReply
    <3> QED
      BY <2>10, <3>2 DEF CacheReply, JobGoes
  <2>11. CASE PublishDone(s)
    <3>1. log' \in Seq(Entry) /\ gone' \in 0 .. Len(log')
      BY <2>11, XAddTyped DEF PublishDone
    <3> QED
      BY <2>11, <3>1 DEF PublishDone, JobGoes
  <2>12. CASE PublishError(s)
    <3>1. log' \in Seq(Entry) /\ gone' \in 0 .. Len(log')
      BY <2>12, XAddTyped DEF PublishError
    <3> QED
      BY <2>12, <3>1 DEF PublishError, JobGoes
  <2>13. CASE RecordTurnFailure(s)
    BY <2>13 DEF RecordTurnFailure, JobGoes
  <2>14. CASE ClearFlag(s)
    BY <2>14 DEF ClearFlag, JobGoes
  <2>15. CASE ExpireStream(s)
    BY <2>15 DEF ExpireStream, JobGoes, SetStreamTtl, AfterAttempt
  <2>16. CASE RedisFails(s)
    BY <2>16 DEF RedisFails, JobGoes, Raise, Handler, AfterAttempt
  <2>17. CASE Redeliver(s)
    BY <2>17 DEF Redeliver, JobGoes
  <2>18. CASE Crash(s)
    BY <2>18 DEF Crash, JobGoes
  <2>19. ASSUME NEW why \in {"timeout", "shutdown"}, Cancel(s, why)
        PROVE  TypeOK'
    BY <2>19 DEF Cancel, Raise, Handler, AfterAttempt
  <2> QED
    BY <1>2, <2>1, <2>2, <2>3, <2>4, <2>5, <2>6, <2>7, <2>8, <2>9, <2>10, <2>11,
       <2>12, <2>13, <2>14, <2>15, <2>16, <2>17, <2>18, <2>19
    DEF JobAction, JobProgress
<1>3. CASE FlagExpires
  BY <1>3 DEF FlagExpires
<1>4. CASE StreamExpires
  BY <1>4 DEF StreamExpires
<1>5. CASE CacheExpires
  BY <1>5 DEF CacheExpires
<1>6. CASE UNCHANGED vars
  BY <1>6 DEF vars
<1> QED
  BY <1>1, <1>2, <1>3, <1>4, <1>5, <1>6 DEF Next, Quiet

(* Every row, key and local variable keeps its shape.                      *)
THEOREM TypeCorrect == Spec => []TypeOK
<1>1. Init => TypeOK
  BY NoneAssumption, BoundsAssumption
  DEF Init, StoreInit, SendInit, JobInit, TypeOK, StoreTypeOK, SendTypeOK, JobTypeOK, SendSteps, JobStates
<1> QED
  BY <1>1, TypeStep, PTL DEF Spec

-----------------------------------------------------------------------------
(* What a step can do to the rows, the stream and the failures.            *)

(* Only persist_user_message and the reply's own session add rows.         *)
LEMMA MessagesStep ==
  ASSUME [Next]_vars
  PROVE  \/ UNCHANGED messages
         \/ \E s \in Sends : PersistUserMessage(s) \/ SaveReply(s)
BY DEF Next, SendAction, SendProgress, JobAction, JobProgress, Quiet, vars, storeVars, sendVars, jobVars,
       ReadCursor, Reserve, RejectTurnInProgress, ReadUserSequence, PersistConflict,
       AnnounceUserMessage, EnqueueChatReply, EndpointFails,
       StartJob, LoadPromptHistory, StreamDelta, ModelUnavailable, PublishUnavailable, ToolFails,
       ReadReplySequence, SaveReplyFails, CacheReply, PublishDone, PublishError,
       RecordTurnFailure, ClearFlag, ExpireStream, RedisFails, Redeliver, Crash, Cancel,
       FlagExpires, StreamExpires, CacheExpires

(* Only the announcement and a running job publish.                        *)
LEMMA LogStep ==
  ASSUME [Next]_vars
  PROVE  \/ UNCHANGED log
         \/ \E s \in Sends : sendPc[s] = "announce" /\ XAdd("UserMessage", s)
         \/ \E s \in Sends : SaveReplyFails(s)
         \/ \E s \in Sends : PublishDone(s)
         \/ \E s \in Sends, type \in {"Delta", "Error"} : job[s] \in Running /\ XAdd(type, s)
BY DEF Next, SendAction, SendProgress, JobAction, JobProgress, Quiet, vars, storeVars, sendVars, jobVars,
       streamVars, Running, Generating, Failing, SendGoes, JobGoes,
       ReadCursor, Reserve, RejectTurnInProgress, ReadUserSequence, PersistUserMessage, PersistConflict,
       AnnounceUserMessage, EnqueueChatReply, EndpointFails,
       StartJob, LoadPromptHistory, StreamDelta, ModelUnavailable, PublishUnavailable, ToolFails,
       ReadReplySequence, SaveReply, CacheReply, PublishError,
       RecordTurnFailure, ClearFlag, ExpireStream, RedisFails, Redeliver, Crash, Cancel,
       FlagExpires, StreamExpires, CacheExpires

(* Only the reply job's except branch records failures.                    *)
LEMMA FailuresStep ==
  ASSUME [Next]_vars
  PROVE  \/ UNCHANGED failures
         \/ \E s \in Sends : RecordTurnFailure(s)
BY DEF Next, SendAction, SendProgress, JobAction, JobProgress, Quiet, vars, storeVars, sendVars, jobVars,
       ReadCursor, Reserve, RejectTurnInProgress, ReadUserSequence, PersistUserMessage, PersistConflict,
       AnnounceUserMessage, EnqueueChatReply, EndpointFails,
       StartJob, LoadPromptHistory, StreamDelta, ModelUnavailable, PublishUnavailable, ToolFails,
       ReadReplySequence, SaveReply, SaveReplyFails, CacheReply, PublishDone, PublishError,
       ClearFlag, ExpireStream, RedisFails, Redeliver, Crash, Cancel,
       FlagExpires, StreamExpires, CacheExpires

(* A request is announced after its row, enqueued after its announcement,  *)
(* accepted as its job appears, and stays accepted.                        *)
LEMMA SendStep ==
  ASSUME TypeOK, [Next]_vars, NEW s \in Sends
  PROVE  /\ sendPc'[s] = "announce" => sendPc[s] = "announce" \/ PersistUserMessage(s)
         /\ sendPc'[s] = "enqueue" => sendPc[s] \in {"announce", "enqueue"}
         /\ sendPc'[s] = "accepted" => sendPc[s] \in {"enqueue", "accepted"}
         /\ sendPc[s] = "accepted" => sendPc'[s] = "accepted"
         /\ job[s] = "none" /\ job'[s] # "none" => sendPc'[s] = "accepted"
<1> DEFINE Goal == /\ sendPc'[s] = "announce" => sendPc[s] = "announce" \/ PersistUserMessage(s)
                   /\ sendPc'[s] = "enqueue" => sendPc[s] \in {"announce", "enqueue"}
                   /\ sendPc'[s] = "accepted" => sendPc[s] \in {"enqueue", "accepted"}
                   /\ sendPc[s] = "accepted" => sendPc'[s] = "accepted"
                   /\ job[s] = "none" /\ job'[s] # "none" => sendPc'[s] = "accepted"
<1> USE DEF TypeOK, SendTypeOK, JobTypeOK, sendVars
<1>1. ASSUME NEW t \in Sends, PersistUserMessage(t)
      PROVE  Goal
  BY <1>1 DEF PersistUserMessage, SendGoes
<1>2. ASSUME NEW t \in Sends, SendProgress(t), ~PersistUserMessage(t)
      PROVE  Goal
  BY <1>2 DEF SendProgress, SendGoes, ReadCursor, Reserve, RejectTurnInProgress, ReadUserSequence,
              PersistConflict, AnnounceUserMessage, EnqueueChatReply
<1>3. ASSUME NEW t \in Sends, EndpointFails(t)
      PROVE  Goal
  BY <1>3 DEF EndpointFails, Sending
<1>4. ASSUME NEW t \in Sends, JobAction(t)
      PROVE  Goal
  <2>1. UNCHANGED sendPc
    BY <1>4 DEF JobAction, JobProgress,
           StartJob, LoadPromptHistory, StreamDelta, ModelUnavailable, PublishUnavailable, ToolFails,
           ReadReplySequence, SaveReply, SaveReplyFails, CacheReply, PublishDone, PublishError,
           RecordTurnFailure, ClearFlag, ExpireStream, RedisFails, Redeliver, Crash, Cancel
  <2>2. \/ UNCHANGED job
        \/ job[t] # "none" /\ \E state : job' = [job EXCEPT ![t] = state]
    BY <1>4 DEF JobAction, JobProgress, JobGoes, Raise, Running, Generating, Failing,
           StartJob, LoadPromptHistory, StreamDelta, ModelUnavailable, PublishUnavailable, ToolFails,
           ReadReplySequence, SaveReply, SaveReplyFails, CacheReply, PublishDone, PublishError,
           RecordTurnFailure, ClearFlag, ExpireStream, RedisFails, Redeliver, Crash, Cancel
  <2> QED
    BY <2>1, <2>2
<1>5. CASE UNCHANGED << sendPc, job >>
  BY <1>5
<1> QED
  <2>1. \/ \E t \in Sends : SendProgress(t) \/ EndpointFails(t) \/ JobAction(t)
        \/ UNCHANGED << sendPc, job >>
    BY DEF Next, SendAction, FlagExpires, StreamExpires, CacheExpires, Quiet, vars, jobVars
  <2> QED
    BY <2>1, <1>1, <1>2, <1>3, <1>4, <1>5

(* Rows are never deleted or changed, nor entries of the stream's history. *)
LEMMA RowsStay ==
  ASSUME TypeOK, [Next]_vars, NEW role, NEW s \in Sends, HasRow(role, s)
  PROVE  HasRow(role, s)'
<1>1. PICK i \in DOMAIN messages : messages[i] = [role |-> role, turn |-> s]
  BY DEF HasRow
<1>2. UNCHANGED messages \/ \E row : messages' = Append(messages, row)
  BY MessagesStep DEF PersistUserMessage, SaveReply, InsertRow
<1>3. messages \in Seq(Row)
  BY DEF TypeOK, StoreTypeOK
<1>4. i \in DOMAIN messages' /\ messages'[i] = messages[i]
  BY <1>1, <1>2, <1>3
<1> QED
  BY <1>1, <1>4 DEF HasRow

(* A saved user message has its row, and a saved reply its own.            *)
LEMMA RowInserted ==
  ASSUME messages \in Seq(Row), NEW role \in {"user", "assistant"}, NEW s \in Sends, InsertRow(role, s)
  PROVE  HasRow(role, s)'
<1> DEFINE row == [role |-> role, turn |-> s]
<1>1. messages' = Append(messages, row)
  BY DEF InsertRow
<1>2. messages'[Len(messages) + 1] = row /\ Len(messages) + 1 \in DOMAIN messages'
  BY <1>1, RowTyped
<1> QED
  BY <1>2 DEF HasRow

-----------------------------------------------------------------------------
(* Every row belongs to a turn whose user row is not after it.             *)
Asked(rows) ==
  \A i \in DOMAIN rows : \E j \in 1 .. i : rows[j] = [role |-> "user", turn |-> rows[i].turn]

(* A user row, or a reply to a user row, may be appended.                  *)
LEMMA AskedAppend ==
  ASSUME NEW rows \in Seq(Row), Asked(rows),
         NEW role \in {"user", "assistant"}, NEW s \in Sends,
         role = "user" \/ \E k \in DOMAIN rows : rows[k] = [role |-> "user", turn |-> s]
  PROVE  Asked(Append(rows, [role |-> role, turn |-> s]))
<1> DEFINE row  == [role |-> role, turn |-> s]
           more == Append(rows, row)
<1>1. /\ DOMAIN more = 1 .. Len(rows) + 1
      /\ more[Len(rows) + 1] = row
      /\ DOMAIN rows = 1 .. Len(rows) /\ Len(rows) \in Nat
      /\ \A i \in 1 .. Len(rows) : more[i] = rows[i]
  BY RowTyped
<1> SUFFICES ASSUME NEW i \in 1 .. Len(rows) + 1
             PROVE  \E j \in 1 .. i : more[j] = [role |-> "user", turn |-> more[i].turn]
  BY <1>1 DEF Asked
<1> HIDE DEF more
<1>2. CASE i \in 1 .. Len(rows)
  <2>1. PICK j \in 1 .. i : rows[j] = [role |-> "user", turn |-> rows[i].turn]
    BY <1>1, <1>2 DEF Asked
  <2> QED
    BY <1>1, <1>2, <2>1
<1>3. CASE i = Len(rows) + 1 /\ role = "user"
  BY <1>1, <1>3
<1>4. CASE i = Len(rows) + 1 /\ \E k \in DOMAIN rows : rows[k] = [role |-> "user", turn |-> s]
  BY <1>1, <1>4
<1> QED
  BY <1>2, <1>3, <1>4

(* Stream entries, failure rows and replies all belong to a saved user     *)
(* message: from SavedInv, which adds that an announced message is saved   *)
(* and that only accepted messages have jobs.                              *)
THEOREM AboutSavedMessages == Spec => []EverythingIsAboutASavedMessage
<1>1. Init => SavedInv
  BY DEF Init, StoreInit, SendInit, JobInit, SavedInv, EverythingIsAboutASavedMessage
<1>2. TypeOK /\ SavedInv /\ [Next]_vars => SavedInv'
  <2> SUFFICES ASSUME TypeOK, SavedInv, [Next]_vars
               PROVE  SavedInv'
    OBVIOUS
  <2> DEFINE Saved(s) == \E j \in DOMAIN messages' : messages'[j] = [role |-> "user", turn |-> s]
  <2>1. ASSUME NEW s \in Sends, HasRow("user", s)
        PROVE  Saved(s)
    BY <2>1, RowsStay DEF HasRow
  <2>2. ASSUME NEW s \in Sends, sendPc[s] \in {"announce", "enqueue", "accepted"}
        PROVE  Saved(s)
    BY <2>1, <2>2 DEF SavedInv
  <2>3. ASSUME NEW s \in Sends, job[s] # "none"
        PROVE  Saved(s)
    BY <2>2, <2>3 DEF SavedInv
  <2>4. \A i \in DOMAIN log' : Saved(log'[i].turn)
    <3>1. log \in Seq(Entry)
      BY DEF TypeOK, StoreTypeOK
    <3>2. \A i \in DOMAIN log : log[i].turn \in Sends
      <4> SUFFICES ASSUME NEW i \in DOMAIN log
                   PROVE  log[i].turn \in Sends
        OBVIOUS
      <4>1. log[i] \in Entry
        BY <3>1
      <4> QED
        BY <4>1 DEF Entry
    <3>3. \A i \in DOMAIN log : Saved(log[i].turn)
      BY <2>1, <3>2 DEF SavedInv, EverythingIsAboutASavedMessage
    <3>4. CASE UNCHANGED log
      BY <3>3, <3>4
    <3>5. ASSUME NEW s \in Sends, Saved(s), NEW type, XAdd(type, s)
          PROVE  \A i \in DOMAIN log' : Saved(log'[i].turn)
      <4>1. log' = Append(log, [type |-> type, turn |-> s])
        BY <3>5 DEF XAdd
      <4>2. \A i \in DOMAIN log' : \/ log'[i].turn = s
                                   \/ i \in DOMAIN log /\ log'[i].turn = log[i].turn
        BY <3>1, <4>1
      <4> QED
        BY <3>3, <3>5, <4>2
    <3> HIDE DEF Saved
    <3> QED
      BY LogStep, <2>2, <2>3, <3>4, <3>5
      DEF SaveReplyFails, PublishDone, JobGoes, Running, Generating, Failing
  <2>5. \A s \in failures' : Saved(s)
    <3>1. failures \subseteq Sends /\ \A s \in failures : HasRow("user", s)
      BY DEF TypeOK, StoreTypeOK, SavedInv, EverythingIsAboutASavedMessage
    <3> HIDE DEF Saved
    <3> QED
      BY FailuresStep, <2>1, <2>3, <3>1 DEF RecordTurnFailure, JobGoes
  <2>6. Asked(messages')
    <3>1. messages \in Seq(Row) /\ Asked(messages)
      BY DEF TypeOK, StoreTypeOK, SavedInv, EverythingIsAboutASavedMessage, Asked
    <3>2. CASE UNCHANGED messages
      BY <3>1, <3>2
    <3>3. ASSUME NEW s \in Sends, PersistUserMessage(s)
          PROVE  Asked(messages')
      BY <3>1, <3>3, AskedAppend DEF PersistUserMessage, InsertRow
    <3>4. ASSUME NEW s \in Sends, SaveReply(s)
          PROVE  Asked(messages')
      <4>1. HasRow("user", s)
        BY <3>4 DEF SavedInv, SaveReply, JobGoes
      <4>2. \E k \in DOMAIN messages : messages[k] = [role |-> "user", turn |-> s]
        BY <4>1 DEF HasRow
      <4>3. messages' = Append(messages, [role |-> "assistant", turn |-> s])
        BY <3>4 DEF SaveReply, InsertRow
      <4> QED
        BY <3>1, <4>2, <4>3, AskedAppend
    <3> QED
      BY MessagesStep, <3>2, <3>3, <3>4
  <2>7. ASSUME NEW s \in Sends, sendPc'[s] \in {"announce", "enqueue", "accepted"}
        PROVE  Saved(s)
    <3>1. CASE PersistUserMessage(s)
      BY <3>1, RowInserted DEF PersistUserMessage, TypeOK, StoreTypeOK, HasRow
    <3> QED
      BY <2>7, <2>2, <3>1, SendStep
  <2>8. ASSUME NEW s \in Sends, job'[s] # "none"
        PROVE  sendPc'[s] = "accepted"
    BY <2>8, SendStep DEF SavedInv
  <2> QED
    BY <2>4, <2>5, <2>6, <2>7, <2>8 DEF SavedInv, EverythingIsAboutASavedMessage, HasRow, Asked
<1>3. SavedInv => EverythingIsAboutASavedMessage
  BY DEF SavedInv
<1> QED
  BY <1>1, <1>2, <1>3, TypeCorrect, PTL DEF Spec

-----------------------------------------------------------------------------
(* Nothing an XADD put on the stream is forgotten by its history.          *)
LEMMA EntriesStay ==
  ASSUME TypeOK, [Next]_vars, NEW type, NEW s \in Sends, Published(type, s)
  PROVE  Published(type, s)'
<1>1. PICK i \in DOMAIN log : log[i] = [type |-> type, turn |-> s]
  BY DEF Published
<1>2. UNCHANGED log \/ \E entry : log' = Append(log, entry)
  BY LogStep DEF SaveReplyFails, PublishDone, XAdd
<1>3. log \in Seq(Entry)
  BY DEF TypeOK, StoreTypeOK
<1>4. i \in DOMAIN log' /\ log'[i] = log[i]
  BY <1>1, <1>2, <1>3
<1> QED
  BY <1>1, <1>4 DEF Published

(* What is XADDed is published.                                            *)
LEMMA EntryAdded ==
  ASSUME log \in Seq(Entry), NEW type, NEW s \in Sends, XAdd(type, s)
  PROVE  Published(type, s)'
<1>1. log' = Append(log, [type |-> type, turn |-> s])
  BY DEF XAdd
<1>2. Len(log) + 1 \in DOMAIN log' /\ log'[Len(log) + 1] = [type |-> type, turn |-> s]
  BY <1>1
<1> QED
  BY <1>2 DEF Published

(* A MessageDone is on the stream because its own job put it there.        *)
LEMMA DoneStep ==
  ASSUME TypeOK, [Next]_vars, NEW s \in Sends, Published("MessageDone", s)'
  PROVE  Published("MessageDone", s) \/ PublishDone(s)
<1>1. PICK i \in DOMAIN log' : log'[i] = [type |-> "MessageDone", turn |-> s]
  BY DEF Published
<1>2. log \in Seq(Entry)
  BY DEF TypeOK, StoreTypeOK
<1>3. CASE i \in DOMAIN log /\ log'[i] = log[i]
  BY <1>1, <1>3 DEF Published
<1>4. CASE UNCHANGED log
  BY <1>1, <1>4 DEF Published
<1>5. ASSUME NEW type, NEW t \in Sends, XAdd(type, t)
      PROVE  (i \in DOMAIN log /\ log'[i] = log[i]) \/ (type = "MessageDone" /\ t = s)
  <2>1. log' = Append(log, [type |-> type, turn |-> t])
    BY <1>5 DEF XAdd
  <2>2. (i \in DOMAIN log /\ log'[i] = log[i]) \/ log'[i] = [type |-> type, turn |-> t]
    BY <1>1, <1>2, <2>1
  <2> QED
    BY <1>1, <2>2
<1> QED
  BY LogStep, <1>3, <1>4, <1>5 DEF PublishDone, SaveReplyFails

(* A job reaches its save's outcome, and MessageDone, only through one of  *)
(* the two branches of the persistence block.                              *)
LEMMA OutcomeStep ==
  ASSUME TypeOK, [Next]_vars, NEW s \in Sends, job'[s] \in {"caching", "publishing"}
  PROVE  job[s] \in {"caching", "publishing"} \/ SaveReply(s) \/ SaveReplyFails(s)
<1> USE DEF TypeOK, JobTypeOK, SendTypeOK
<1>1. ASSUME NEW t \in Sends, SendAction(t)
      PROVE  job[s] \in {"caching", "publishing"}
  BY <1>1 DEF SendAction, SendProgress, sendVars,
     ReadCursor, Reserve, RejectTurnInProgress, ReadUserSequence, PersistUserMessage, PersistConflict,
     AnnounceUserMessage, EnqueueChatReply, EndpointFails
<1>2. ASSUME NEW t \in Sends, JobProgress(t) \/ Crash(t),
             ~SaveReply(t), ~SaveReplyFails(t), ~ExpireStream(t), ~RedisFails(t)
      PROVE  job[s] \in {"caching", "publishing"}
  BY <1>2 DEF JobProgress, JobGoes,
     StartJob, LoadPromptHistory, StreamDelta, ModelUnavailable, PublishUnavailable, ToolFails,
     ReadReplySequence, CacheReply, PublishDone, PublishError,
     RecordTurnFailure, ClearFlag, Redeliver, Crash
<1>3. ASSUME NEW t \in Sends, SaveReply(t) \/ SaveReplyFails(t), t # s
      PROVE  job[s] \in {"caching", "publishing"}
  BY <1>3 DEF SaveReply, SaveReplyFails, JobGoes
<1>4. ASSUME NEW t \in Sends, ExpireStream(t)
      PROVE  job[s] \in {"caching", "publishing"}
  BY <1>4 DEF ExpireStream, JobGoes, AfterAttempt
<1>5. ASSUME NEW t \in Sends, NEW why, Raise(t, why), job[t] \in Running
      PROVE  job[s] \in {"caching", "publishing"}
  BY <1>5 DEF Raise, AfterAttempt, Handler, Running, Generating, Failing
<1>6. ASSUME NEW t \in Sends, RedisFails(t) \/ \E why \in {"timeout", "shutdown"} : Cancel(t, why)
      PROVE  job[s] \in {"caching", "publishing"}
  <2>1. CASE JobGoes(t, "queued", "done")
    BY <2>1 DEF JobGoes
  <2>2. CASE ~JobGoes(t, "queued", "done")
    BY <1>5, <1>6, <2>2 DEF RedisFails, Cancel, Running, Generating, Failing
  <2> QED BY <2>1, <2>2
<1>7. ASSUME UNCHANGED job
      PROVE  job[s] \in {"caching", "publishing"}
  BY <1>7
<1> QED
  <2>1. \/ \E t \in Sends : SendAction(t) \/ JobAction(t)
        \/ UNCHANGED job
    BY DEF Next, FlagExpires, StreamExpires, CacheExpires, Quiet, vars, jobVars
  <2> QED
    BY <2>1, <1>1, <1>2, <1>3, <1>4, <1>6, <1>7 DEF JobAction

(* A turn announced as done is saved, or its watchers were warned: from    *)
(* DoneInv, which follows the reply from the save's outcome to MessageDone. *)
THEOREM DoneMeansSavedOrWarned == Spec => []DoneIsSavedOrWarned
<1>1. Init => DoneInv
  BY DEF Init, StoreInit, JobInit, DoneInv, DoneIsSavedOrWarned, Published
<1>2. TypeOK /\ DoneInv /\ [Next]_vars => DoneInv'
  <2> SUFFICES ASSUME TypeOK, DoneInv, [Next]_vars
               PROVE  DoneInv'
    OBVIOUS
  <2>1. ASSUME NEW s \in Sends, HasRow("assistant", s) \/ Published("PersistenceFailed", s)
        PROVE  (HasRow("assistant", s) \/ Published("PersistenceFailed", s))'
    BY <2>1, RowsStay, EntriesStay
  <2>2. ASSUME NEW s \in Sends, job[s] \in {"caching", "publishing"}
        PROVE  (HasRow("assistant", s) \/ Published("PersistenceFailed", s))'
    BY <2>1, <2>2 DEF DoneInv
  <2>3. ASSUME NEW s \in Sends, job'[s] \in {"caching", "publishing"}
        PROVE  (HasRow("assistant", s) \/ Published("PersistenceFailed", s))'
    <3>1. CASE SaveReply(s)
      BY <3>1, RowInserted DEF SaveReply, TypeOK, StoreTypeOK
    <3>2. CASE SaveReplyFails(s)
      BY <3>2, EntryAdded DEF SaveReplyFails, TypeOK, StoreTypeOK
    <3> QED
      BY <2>2, <2>3, <3>1, <3>2, OutcomeStep
  <2>4. ASSUME NEW s \in Sends, Published("MessageDone", s)'
        PROVE  (HasRow("assistant", s) \/ Published("PersistenceFailed", s))'
    <3>1. CASE Published("MessageDone", s)
      BY <3>1, <2>1 DEF DoneInv, DoneIsSavedOrWarned
    <3>2. CASE PublishDone(s)
      BY <3>2, <2>2 DEF PublishDone, JobGoes
    <3>3. Published("MessageDone", s) \/ PublishDone(s)
      BY <2>4, DoneStep
    <3> QED
      BY <3>1, <3>2, <3>3
  <2> QED
    BY <2>3, <2>4 DEF DoneInv, DoneIsSavedOrWarned
<1>3. DoneInv => DoneIsSavedOrWarned
  BY DEF DoneInv
<1> QED
  BY <1>1, <1>2, <1>3, TypeCorrect, PTL DEF Spec

-----------------------------------------------------------------------------
(* Only SET NX, the job's DELETE and the TTL touch the reservation.        *)
LEMMA FlagStep ==
  ASSUME [Next]_vars
  PROVE  \/ UNCHANGED << flag, flagCursor >>
         \/ \E s \in Sends : Reserve(s) \/ ClearFlag(s)
         \/ FlagExpires
BY DEF Next, SendAction, SendProgress, JobAction, JobProgress, Quiet, vars, storeVars, sendVars, jobVars,
       flagVars, ReadCursor, RejectTurnInProgress, ReadUserSequence, PersistUserMessage, PersistConflict,
       AnnounceUserMessage, EnqueueChatReply, EndpointFails,
       StartJob, LoadPromptHistory, StreamDelta, ModelUnavailable, PublishUnavailable, ToolFails,
       ReadReplySequence, SaveReply, SaveReplyFails, CacheReply, PublishDone, PublishError,
       RecordTurnFailure, ExpireStream, RedisFails, Redeliver, Crash, Cancel,
       StreamExpires, CacheExpires

(* The stream loses entries only when its key expires.                     *)
LEMMA GoneStep ==
  ASSUME [Next]_vars
  PROVE  UNCHANGED gone \/ StreamExpires
BY DEF Next, SendAction, SendProgress, JobAction, JobProgress, Quiet, vars, storeVars, sendVars, jobVars, streamVars,
       ReadCursor, Reserve, RejectTurnInProgress, ReadUserSequence, PersistUserMessage, PersistConflict,
       AnnounceUserMessage, EnqueueChatReply, EndpointFails,
       StartJob, LoadPromptHistory, StreamDelta, ModelUnavailable, PublishUnavailable, ToolFails,
       ReadReplySequence, SaveReply, SaveReplyFails, CacheReply, PublishDone, PublishError,
       RecordTurnFailure, ClearFlag, ExpireStream, RedisFails, Redeliver, Crash, Cancel,
       FlagExpires, CacheExpires

(* A request reads its cursor first, and once.                             *)
LEMMA CursorStep ==
  ASSUME TypeOK, [Next]_vars, NEW s \in Sends
  PROVE  /\ cursor'[s] = cursor[s] \/ ReadCursor(s)
         /\ sendPc[s] \notin {"new", "reserve"} => sendPc'[s] \notin {"new", "reserve"}
<1> DEFINE Goal == /\ cursor'[s] = cursor[s] \/ ReadCursor(s)
                   /\ sendPc[s] \notin {"new", "reserve"} => sendPc'[s] \notin {"new", "reserve"}
<1> USE DEF TypeOK, SendTypeOK
<1>1. ASSUME NEW t \in Sends, ReadCursor(t)
      PROVE  Goal
  BY <1>1 DEF ReadCursor, SendGoes
<1>2. ASSUME NEW t \in Sends, SendProgress(t), ~ReadCursor(t)
      PROVE  Goal
  BY <1>2 DEF SendProgress, SendGoes, sendVars, Reserve, RejectTurnInProgress, ReadUserSequence,
              PersistUserMessage, PersistConflict, AnnounceUserMessage, EnqueueChatReply
<1>3. ASSUME NEW t \in Sends, EndpointFails(t)
      PROVE  Goal
  BY <1>3 DEF EndpointFails, Sending
<1>4. CASE UNCHANGED sendVars
  BY <1>4 DEF sendVars
<1>5. ASSUME NEW t \in Sends, JobAction(t)
      PROVE  UNCHANGED sendVars
  BY <1>5 DEF JobAction, JobProgress,
     StartJob, LoadPromptHistory, StreamDelta, ModelUnavailable, PublishUnavailable, ToolFails,
     ReadReplySequence, SaveReply, SaveReplyFails, CacheReply, PublishDone, PublishError,
     RecordTurnFailure, ClearFlag, ExpireStream, RedisFails, Redeliver, Crash, Cancel
<1>6. \/ \E t \in Sends : SendProgress(t) \/ EndpointFails(t) \/ JobAction(t)
      \/ UNCHANGED sendVars
  BY DEF Next, SendAction, FlagExpires, StreamExpires, CacheExpires, Quiet, vars
<1> QED
  BY <1>1, <1>2, <1>3, <1>4, <1>5, <1>6

(* The history of the stream grows at its end, one entry at a time.        *)
LEMMA LogGrows ==
  ASSUME TypeOK, [Next]_vars
  PROVE  /\ Len(log) <= Len(log')
         /\ \A i \in DOMAIN log' :
              \/ i \in DOMAIN log /\ log'[i] = log[i]
              \/ /\ i = Len(log) + 1
                 /\ log'[i].type = "UserMessage" => sendPc[log'[i].turn] = "announce"
<1>1. log \in Seq(Entry)
  BY DEF TypeOK, StoreTypeOK
<1>2. CASE UNCHANGED log
  BY <1>1, <1>2
<1>3. ASSUME NEW type, NEW s \in Sends, XAdd(type, s), type = "UserMessage" => sendPc[s] = "announce"
      PROVE  /\ Len(log) <= Len(log')
             /\ \A i \in DOMAIN log' :
                  \/ i \in DOMAIN log /\ log'[i] = log[i]
                  \/ /\ i = Len(log) + 1
                     /\ log'[i].type = "UserMessage" => sendPc[log'[i].turn] = "announce"
  <2> DEFINE entry == [type |-> type, turn |-> s]
  <2>1. log' = Append(log, entry)
    BY <1>3 DEF XAdd
  <2>2. entry.type = type /\ entry.turn = s
    OBVIOUS
  <2> HIDE DEF entry
  <2>3. /\ Len(log) <= Len(log')
        /\ \A i \in DOMAIN log' :
             \/ i \in DOMAIN log /\ log'[i] = log[i]
             \/ i = Len(log) + 1 /\ log'[i] = entry
    BY <1>1, <2>1
  <2> QED
    BY <1>3, <2>2, <2>3
<1> QED
  BY LogStep, <1>2, <1>3 DEF SaveReplyFails, PublishDone

(* Where no stream expires, a reservation's cursor is older than its turn's *)
(* own message on the stream.                                              *)
LEMMA ReplayInvariant ==
  "streamTtl" \notin Faults => (Spec => [](TypeOK /\ ReplayInv))
<1> SUFFICES ASSUME "streamTtl" \notin Faults
             PROVE  Spec => [](TypeOK /\ ReplayInv)
  OBVIOUS
<1>1. Init => ReplayInv
  BY DEF Init, StoreInit, SendInit, ReplayInv
<1>2. TypeOK /\ ReplayInv /\ [Next]_vars => ReplayInv'
  <2> SUFFICES ASSUME TypeOK, ReplayInv, [Next]_vars
               PROVE  ReplayInv'
    OBVIOUS
  <2> DEFINE Early == {"new", "reserve"}
  <2>1. /\ log \in Seq(Entry) /\ Len(log) \in Nat /\ gone = 0
        /\ cursor \in [Sends -> Nat] /\ flag \in Sends \cup {None}
    BY DEF TypeOK, StoreTypeOK, SendTypeOK, ReplayInv
  <2>2. gone' = 0
    BY <2>1, GoneStep DEF StreamExpires
  <2>3. ASSUME NEW s \in Sends
        PROVE  /\ cursor'[s] = cursor[s] \/ sendPc[s] = "new"
               /\ cursor'[s] <= Len(log)
    <3>1. CASE ReadCursor(s)
      BY <2>1, <3>1 DEF ReadCursor, SendGoes, LastStreamCursor
    <3>2. CASE cursor'[s] = cursor[s]
      BY <3>2 DEF ReplayInv
    <3> QED
      BY <3>1, <3>2, CursorStep
  <2>4. ASSUME NEW s \in Sends
        PROVE  cursor'[s] <= Len(log')
    <3>1. cursor'[s] <= Len(log) /\ Len(log) <= Len(log') /\ cursor[s] \in Nat
      BY <2>1, <2>3, LogGrows
    <3>2. cursor'[s] \in Nat /\ Len(log') \in Nat
      BY TypeStep DEF TypeOK, StoreTypeOK, SendTypeOK
    <3> QED
      BY <2>1, <3>1, <3>2
  <2>5. flag' # None => sendPc'[flag'] \notin Early /\ flagCursor' = cursor'[flag']
    <3>1. CASE UNCHANGED << flag, flagCursor >>
      <4> SUFFICES ASSUME flag # None
                   PROVE  sendPc'[flag] \notin Early /\ flagCursor = cursor'[flag]
        BY <3>1
      <4>1. flag \in Sends /\ sendPc[flag] \notin Early /\ flagCursor = cursor[flag]
        BY <2>1 DEF ReplayInv
      <4> QED
        BY <4>1, <2>3, CursorStep
    <3>2. ASSUME NEW s \in Sends, Reserve(s)
          PROVE  flag' = s /\ sendPc'[s] \notin Early /\ flagCursor' = cursor'[s]
      BY <3>2 DEF Reserve, SendGoes, TypeOK, SendTypeOK
    <3> QED
      BY <3>1, <3>2, FlagStep DEF ClearFlag, FlagExpires
  <2>6. ASSUME NEW i \in DOMAIN log', log'[i].type = "UserMessage"
        PROVE  sendPc'[log'[i].turn] \notin Early /\ i > cursor'[log'[i].turn]
    <3>1. PICK s \in Sends : s = log'[i].turn
      <4>1. log' \in Seq(Entry)
        BY TypeStep DEF TypeOK, StoreTypeOK
      <4>2. log'[i] \in Entry
        BY <4>1
      <4> QED
        BY <4>2 DEF Entry
    <3>2. CASE i \in DOMAIN log /\ log'[i] = log[i]
      <4>1. sendPc[s] \notin Early /\ i > cursor[s]
        BY <2>6, <3>1, <3>2 DEF ReplayInv
      <4> QED
        BY <3>1, <4>1, <2>3, CursorStep
    <3>3. CASE i = Len(log) + 1 /\ sendPc[s] = "announce"
      <4>1. cursor'[s] <= Len(log) /\ cursor'[s] = cursor[s]
        BY <2>3, <3>3
      <4>2. sendPc'[s] \notin Early
        BY <3>3, CursorStep
      <4> QED
        BY <2>1, <3>1, <3>3, <4>1, <4>2
    <3> QED
      BY <2>6, <3>1, <3>2, <3>3, LogGrows
  <2> QED
    BY <2>2, <2>4, <2>5, <2>6 DEF ReplayInv
<1> QED
  BY <1>1, <1>2, TypeCorrect, PTL DEF Spec

(* Where no stream expires, a watcher that attaches during a turn is given *)
(* that turn from its user message on: from ReplayInv.  Only the expiry of *)
(* the stream key is excluded; the reservation may expire, be given up by  *)
(* another job and be taken again, and any other fault may happen.         *)
THEOREM WatchersSeeTheUserMessage ==
  "streamTtl" \notin Faults => (Spec => []ReplaysItsUserMessage)
<1>1. TypeOK /\ ReplayInv => ReplaysItsUserMessage
  <2> SUFFICES ASSUME TypeOK, ReplayInv, NEW s \in Sends, flag = s, Published("UserMessage", s)
               PROVE  \E i \in EntriesAfter(ResumeTurnCursor) : log[i] = [type |-> "UserMessage", turn |-> s]
    BY DEF ReplaysItsUserMessage
  <2>1. PICK i \in DOMAIN log : log[i] = [type |-> "UserMessage", turn |-> s]
    BY DEF Published
  <2>2. i > cursor[s] /\ ResumeTurnCursor = cursor[s]
    BY <2>1, NoneAssumption DEF ReplayInv, ResumeTurnCursor
  <2>3. i > gone
    BY <2>1 DEF ReplayInv, TypeOK, StoreTypeOK
  <2> QED
    BY <2>1, <2>2, <2>3 DEF EntriesAfter
<1> QED
  BY <1>1, ReplayInvariant, PTL
=============================================================================
