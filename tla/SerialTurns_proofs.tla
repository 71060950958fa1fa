------------------------- MODULE SerialTurns_proofs -------------------------
(***************************************************************************)
(* A conversation whose reservation outlives its turns is serial, for any  *)
(* set of requests and whatever else fails.                                *)
(***************************************************************************)
EXTENDS SerialTurns, ChatTurn_proofs

(* What one step can do to one turn s.                                     *)
Writing(s) == sendPc[s] = "persist" \/ job[s] = "saving"

TurnGoesOn(s) ==
  /\ InFlight(s)' => InFlight(s) \/ Reserve(s)
  /\ Unsaid(s)' => Unsaid(s)
  /\ AwaitingReply(s)' => AwaitingReply(s) \/ PersistUserMessage(s)
  /\ Writing(s)' => \/ Writing(s) /\ nextSeq'[s] = nextSeq[s]
                    \/ nextSeq'[s] = NextSequence /\ UNCHANGED messages
  /\ job'[s] # "crashed" /\ cancelled'[s] # "shutdown"
  /\ job'[s] # "none" => sendPc'[s] = "accepted"

LEMMA TurnStep ==
  ASSUME TypeOK, RunsOnce, [Next]_vars, NEW s \in Sends
  PROVE  TurnGoesOn(s)
<1> USE LeaseAssumption
    DEF TypeOK, StoreTypeOK, SendTypeOK, JobTypeOK, RunsOnce, TurnGoesOn, InFlight, Sending, Unsaid,
        AwaitingReply, Writing, Running, Generating, Failing, LeaseFaults, storeVars, sendVars
<1>1. ASSUME NEW t \in Sends, SendProgress(t), ~Reserve(t), ~PersistUserMessage(t), UNCHANGED cancelled
      PROVE  TurnGoesOn(s)
  BY <1>1, SMTT(30) DEF SendProgress, SendGoes, ReadCursor, RejectTurnInProgress, ReadUserSequence,
              PersistConflict, AnnounceUserMessage, EnqueueChatReply
<1>2. ASSUME NEW t \in Sends, Reserve(t) \/ PersistUserMessage(t), UNCHANGED cancelled
      PROVE  TurnGoesOn(s)
  BY <1>2 DEF SendGoes, Reserve, PersistUserMessage
<1>3. ASSUME NEW t \in Sends, EndpointFails(t), UNCHANGED cancelled
      PROVE  TurnGoesOn(s)
  BY <1>3 DEF EndpointFails
<1>4. ASSUME NEW t \in Sends,
             StartJob(t) \/ LoadPromptHistory(t) \/ StreamDelta(t) \/ ModelUnavailable(t)
               \/ PublishUnavailable(t) \/ ToolFails(t) \/ ReadReplySequence(t)
      PROVE  TurnGoesOn(s)
  BY <1>4 DEF JobGoes, StartJob, LoadPromptHistory, StreamDelta, ModelUnavailable,
              PublishUnavailable, ToolFails, ReadReplySequence
<1>5. ASSUME NEW t \in Sends,
             SaveReply(t) \/ SaveReplyFails(t) \/ CacheReply(t) \/ PublishDone(t) \/ PublishError(t)
               \/ RecordTurnFailure(t) \/ ClearFlag(t)
      PROVE  TurnGoesOn(s)
  BY <1>5 DEF JobGoes, SaveReply, SaveReplyFails, CacheReply, PublishDone, PublishError,
              RecordTurnFailure, ClearFlag
<1>6. ASSUME NEW t \in Sends, ExpireStream(t)
      PROVE  TurnGoesOn(s)
  BY <1>6 DEF JobGoes, ExpireStream, AfterAttempt
<1>7. ASSUME NEW t \in Sends, Redeliver(t) \/ Crash(t)
      PROVE  TurnGoesOn(s)
  BY <1>7 DEF JobGoes, Redeliver, Crash
<1>8. ASSUME NEW t \in Sends, RedisFails(t)
      PROVE  TurnGoesOn(s)
  <2>1. CASE JobGoes(t, "queued", "done")
    BY <1>8, <2>1 DEF JobGoes, RedisFails
  <2>2. CASE ~JobGoes(t, "queued", "done")
    BY <1>8, <2>2 DEF RedisFails, Raise, Handler, AfterAttempt
  <2> QED BY <2>1, <2>2
<1>9. ASSUME NEW t \in Sends, NEW why \in {"timeout", "shutdown"}, Cancel(t, why)
      PROVE  TurnGoesOn(s)
  BY <1>9, ZenonT(30) DEF Cancel, Raise, Handler, AfterAttempt
<1>10. ASSUME UNCHANGED << sendPc, job, cancelled, nextSeq >>
       PROVE  TurnGoesOn(s)
  BY <1>10
<1> QED
  <2>1. \/ \E t \in Sends : SendAction(t) \/ JobAction(t)
        \/ UNCHANGED << sendPc, job, cancelled, nextSeq >>
    BY DEF Next, FlagExpires, StreamExpires, CacheExpires, Quiet, vars, jobVars
  <2>2. ASSUME NEW t \in Sends, SendAction(t)
        PROVE  TurnGoesOn(s)
    BY <2>2, <1>1, <1>2, <1>3 DEF SendAction
  <2>3. ASSUME NEW t \in Sends, JobAction(t)
        PROVE  TurnGoesOn(s)
    BY <2>3, <1>4, <1>5, <1>6, <1>7, <1>8, <1>9 DEF JobAction, JobProgress
  <2> QED
    BY <2>1, <2>2, <2>3, <1>10

(* A reservation is only given up by the turn that holds it.               *)
LEMMA OwnershipStep ==
  ASSUME TypeOK, RunsOnce, RunningTurnOwnsReservation, [Next]_vars
  PROVE  RunningTurnOwnsReservation'
<1> SUFFICES ASSUME NEW s \in Sends, InFlight(s)'
             PROVE  flag' = s
  BY DEF RunningTurnOwnsReservation
<1>1. CASE Reserve(s)
  BY <1>1 DEF Reserve
<1>2. CASE InFlight(s) /\ ~Reserve(s)
  <2>1. flag = s
    BY <1>2 DEF RunningTurnOwnsReservation
  <2>2. ASSUME NEW t \in Sends, Reserve(t)
        PROVE  FALSE
    BY <2>1, <2>2, NoneAssumption DEF Reserve
  <2>3. ASSUME NEW t \in Sends, ClearFlag(t)
        PROVE  FALSE
    <3>1. InFlight(t)
      BY <2>3 DEF ClearFlag, JobGoes, InFlight, Running, Failing
    <3>2. t = s
      BY <2>1, <3>1 DEF RunningTurnOwnsReservation
    <3>3. ~InFlight(s)'
      BY <2>3, <3>2 DEF ClearFlag, JobGoes, InFlight, Sending, sendVars, RunsOnce, TypeOK, JobTypeOK, Running
    <3> QED
      BY <3>3
  <2>4. CASE FlagExpires
    BY <2>1, <2>4, <1>2, LeaseAssumption DEF FlagExpires, LeaseFaults
  <2> QED
    BY <2>1, <2>2, <2>3, <2>4, FlagStep
<1> QED
  BY <1>1, <1>2, TurnStep DEF TurnGoesOn

(* Only the turn under way writes.                                         *)
LEMMA WriterAlone ==
  ASSUME RunningTurnOwnsReservation, NEW s \in Sends, PersistUserMessage(s) \/ SaveReply(s),
         NEW t \in Sends, InFlight(t)
  PROVE  t = s
<1>1. InFlight(s)
  BY DEF PersistUserMessage, SaveReply, SendGoes, JobGoes, InFlight, Sending, Running, Generating
<1> QED
  BY <1>1 DEF RunningTurnOwnsReservation

(* A reply that is due belongs to a turn under way, and so does a write.   *)
LEMMA DueInFlight ==
  ASSUME NEW s \in Sends, AwaitingReply(s) \/ Writing(s)
  PROVE  InFlight(s)
BY DEF AwaitingReply, Writing, InFlight, Sending, Running, Generating

(* Where a turn's rows are after one more row.                             *)
LEMMA RowsOfAppend ==
  ASSUME messages \in Seq(Row), NEW s \in Sends, NEW role \in {"user", "assistant"}, InsertRow(role, s)
  PROVE  /\ Len(messages') = Len(messages) + 1
         /\ messages'[Len(messages) + 1] = [role |-> role, turn |-> s]
         /\ \A i \in DOMAIN messages : messages'[i] = messages[i]
         /\ DOMAIN messages' = DOMAIN messages \cup {Len(messages) + 1}
         /\ \A t \in Sends \ {s} : RowsOf(t)' = RowsOf(t)
         /\ RowsOf(s)' = RowsOf(s) \cup {Len(messages) + 1}
<1> DEFINE row == [role |-> role, turn |-> s]
<1>1. messages' = Append(messages, row)
  BY DEF InsertRow
<1>2. /\ Len(messages') = Len(messages) + 1
      /\ messages'[Len(messages) + 1] = row
      /\ \A i \in DOMAIN messages : messages'[i] = messages[i]
      /\ DOMAIN messages' = DOMAIN messages \cup {Len(messages) + 1}
  BY <1>1, RowTyped
<1>3. row.turn = s
  OBVIOUS
<1> HIDE DEF row
<1>4. \A t \in Sends : RowsOf(t)' = {i \in DOMAIN messages' : messages'[i].turn = t}
  BY DEF RowsOf
<1> QED
  BY <1>2, <1>3, <1>4 DEF RowsOf, row

(* A step that writes a row; its turn waits for a reply exactly if the row *)
(* was the user's.                                                         *)
LEMMA PersistStep ==
  ASSUME TypeOK, RunsOnce, NEW s \in Sends, PersistUserMessage(s)
  PROVE  InsertRow("user", s) /\ Unsaid(s) /\ ~Unsaid(s)' /\ nextSeq[s] = nextSeq'[s] /\ ~Writing(s)'
BY DEF PersistUserMessage, SendGoes, Unsaid, Writing, TypeOK, SendTypeOK, RunsOnce

LEMMA SaveStep ==
  ASSUME TypeOK, RunsOnce, NEW s \in Sends, SaveReply(s)
  PROVE  InsertRow("assistant", s) /\ AwaitingReply(s) /\ ~AwaitingReply(s)' /\ ~Unsaid(s)' /\ ~Writing(s)'
BY DEF SaveReply, JobGoes, Unsaid, Writing, AwaitingReply, TypeOK, JobTypeOK, RunsOnce, sendVars

LEMMA RowsStep ==
  ASSUME TypeOK, SerialInv, [Next]_vars
  PROVE  RowsInv'
<1> SUFFICES ASSUME NEW s \in Sends
             PROVE  /\ Unsaid(s)' => RowsOf(s)' = {}
                    /\ AwaitingReply(s)' =>
                         /\ RowsOf(s)' = {Len(messages')}
                         /\ messages'[Len(messages')] = [role |-> "user", turn |-> s]
  BY DEF RowsInv
<1> USE DEF SerialInv
<1>0. TurnGoesOn(s) /\ messages \in Seq(Row)
  BY TurnStep DEF TypeOK, StoreTypeOK
<1>1. CASE UNCHANGED messages /\ ~PersistUserMessage(s)
  BY <1>0, <1>1 DEF RowsInv, TurnGoesOn, RowsOf
<1>2. CASE PersistUserMessage(s)
  <2>1. RowsOf(s) = {}
    BY <1>2, PersistStep DEF RowsInv
  <2> QED
    BY <1>0, <1>2, <2>1, PersistStep, RowsOfAppend
<1>3. CASE SaveReply(s)
  BY <1>3, SaveStep
<1>4. ASSUME NEW t \in Sends, t # s, PersistUserMessage(t) \/ SaveReply(t)
      PROVE  /\ Unsaid(s)' => RowsOf(s)' = {}
             /\ ~AwaitingReply(s)'
  <2>1. RowsOf(s)' = RowsOf(s)
    BY <1>0, <1>4, PersistStep, SaveStep, RowsOfAppend
  <2>2. ~AwaitingReply(s) /\ ~PersistUserMessage(s)
    <3>1. ~InFlight(s)
      BY <1>4, WriterAlone
    <3> QED
      BY <3>1, DueInFlight DEF PersistUserMessage, SendGoes, InFlight, Sending
  <2> QED
    BY <1>0, <2>1, <2>2 DEF RowsInv, TurnGoesOn
<1> QED
  BY <1>1, <1>2, <1>3, <1>4, MessagesStep

LEMMA SequenceStep ==
  ASSUME TypeOK, SerialInv, [Next]_vars
  PROVE  SequenceIsFresh'
<1> SUFFICES ASSUME NEW s \in Sends, Writing(s)'
             PROVE  nextSeq'[s] = Len(messages') + 1
  BY DEF SequenceIsFresh, Writing, NextSequence
<1> USE DEF SerialInv
<1>0. TurnGoesOn(s)
  BY TurnStep
<1>1. CASE nextSeq'[s] = NextSequence /\ UNCHANGED messages
  BY <1>1 DEF NextSequence
<1>2. CASE Writing(s) /\ nextSeq'[s] = nextSeq[s] /\ UNCHANGED messages
  BY <1>2 DEF SequenceIsFresh, Writing, NextSequence
<1>3. CASE Writing(s) /\ ~ UNCHANGED messages
  <2>1. PICK t \in Sends : PersistUserMessage(t) \/ SaveReply(t)
    BY <1>3, MessagesStep
  <2>2. t = s
    BY <1>3, <2>1, WriterAlone, DueInFlight
  <2> QED
    BY <2>1, <2>2, PersistStep, SaveStep
<1> QED
  BY <1>0, <1>1, <1>2, <1>3 DEF TurnGoesOn

THEOREM SerialInvariant == Spec => [](TypeOK /\ SerialInv)
<1>1. Init => SerialInv
  BY DEF Init, StoreInit, SendInit, JobInit, SerialInv, RunsOnce, RunningTurnOwnsReservation, InFlight,
     Sending, Running, Generating, Failing, RowsInv, Unsaid, AwaitingReply, RowsOf, SequenceIsFresh
<1>2. TypeOK /\ SerialInv /\ [Next]_vars => SerialInv'
  <2> SUFFICES ASSUME TypeOK, SerialInv, [Next]_vars
               PROVE  SerialInv'
    OBVIOUS
  <2>1. RunsOnce'
    BY TurnStep DEF SerialInv, RunsOnce, TurnGoesOn
  <2> QED
    BY <2>1, OwnershipStep, RowsStep, SequenceStep DEF SerialInv
<1> QED
  BY <1>1, <1>2, TypeCorrect, PTL DEF Spec

(* The turn under way owns the reservation: no DELETE frees another's.     *)
THEOREM ReservationOwned == Spec => []RunningTurnOwnsReservation
BY SerialInvariant, PTL DEF SerialInv

(* At most one turn runs at a time while the reservation outlives it.      *)
THEOREM SerialOneTurnAtATime == Spec => []OneTurnAtATime
<1>1. RunningTurnOwnsReservation => OneTurnAtATime
  BY DEF RunningTurnOwnsReservation, OneTurnAtATime
<1> QED
  BY <1>1, ReservationOwned, PTL

(* No append_message inserts behind a stale MAX(sequence).                 *)
THEOREM SequencesFresh == Spec => []SequenceIsFresh
BY SerialInvariant, PTL DEF SerialInv

(* A reply row directly follows its own message, and there is one of it.   *)
THEOREM RepliesInOrder == Spec => []RepliesFollowTheirMessage
<1>1. Init => RepliesFollowTheirMessage
  BY DEF Init, StoreInit, RepliesFollowTheirMessage
<1>2. TypeOK /\ SerialInv /\ RepliesFollowTheirMessage /\ [Next]_vars => RepliesFollowTheirMessage'
  <2> SUFFICES ASSUME TypeOK, SerialInv, RepliesFollowTheirMessage, [Next]_vars
               PROVE  RepliesFollowTheirMessage'
    OBVIOUS
  <2>0. messages \in Seq(Row) /\ Len(messages) \in Nat /\ DOMAIN messages = 1 .. Len(messages)
    BY DEF TypeOK, StoreTypeOK
  <2>1. CASE UNCHANGED messages
    BY <2>1 DEF RepliesFollowTheirMessage
  <2>2. ASSUME NEW s \in Sends, PersistUserMessage(s)
        PROVE  RepliesFollowTheirMessage'
    <3>1. InsertRow("user", s)
      BY <2>2 DEF PersistUserMessage
    <3>0. /\ DOMAIN messages' = DOMAIN messages \cup {Len(messages) + 1}
          /\ messages'[Len(messages) + 1].role = "user"
          /\ \A i \in DOMAIN messages : messages'[i] = messages[i]
      <4>1. messages'[Len(messages) + 1] = [role |-> "user", turn |-> s]
        BY <2>0, <3>1, RowsOfAppend
      <4>2. [role |-> "user", turn |-> s].role = "user"
        OBVIOUS
      <4>3. /\ DOMAIN messages' = DOMAIN messages \cup {Len(messages) + 1}
            /\ \A i \in DOMAIN messages : messages'[i] = messages[i]
        BY <2>0, <3>1, RowsOfAppend
      <4> QED
        BY <4>1, <4>2, <4>3
    <3>2. \A i \in DOMAIN messages' : messages'[i].role = "assistant" => i \in DOMAIN messages
      BY <3>0
    <3>3. \A i \in DOMAIN messages : messages'[i].role = "assistant" => messages[i].role = "assistant"
      BY <2>0, <3>1, RowsOfAppend
    <3>4. \A i \in DOMAIN messages : i > 1 => i - 1 \in DOMAIN messages
      BY <2>0
    <3>5. ASSUME NEW i \in DOMAIN messages, messages[i].role = "assistant",
                 NEW j \in DOMAIN messages', messages'[j] = messages'[i]
          PROVE  j = i
      <4>1. messages'[j].role = "assistant"
        BY <3>0, <3>5
      <4>2. j \in DOMAIN messages
        BY <3>2, <4>1
      <4> QED
        BY <3>0, <3>5, <4>2 DEF RepliesFollowTheirMessage
    <3> QED
      BY <2>0, <3>1, <3>2, <3>3, <3>4, <3>5, RowsOfAppend DEF RepliesFollowTheirMessage
  <2>3. ASSUME NEW s \in Sends, SaveReply(s)
        PROVE  RepliesFollowTheirMessage'
    <3> DEFINE n == Len(messages)
    <3>1. InsertRow("assistant", s)
      BY <2>3 DEF SaveReply
    <3>2. RowsOf(s) = {n} /\ messages[n] = [role |-> "user", turn |-> s]
      BY <2>3, SaveStep DEF SerialInv, RowsInv
    <3>3. n \in DOMAIN messages
      BY <3>2 DEF RowsOf
    <3>4. \A i \in DOMAIN messages : messages[i] # [role |-> "assistant", turn |-> s]
      BY <3>2 DEF RowsOf
    <3>5. /\ messages'[n + 1] = [role |-> "assistant", turn |-> s]
          /\ DOMAIN messages' = DOMAIN messages \cup {n + 1}
          /\ \A i \in DOMAIN messages : messages'[i] = messages[i]
      BY <2>0, <3>1, RowsOfAppend
    <3>6. ASSUME NEW i \in DOMAIN messages, messages'[i].role = "assistant"
          PROVE  /\ i > 1 /\ messages'[i - 1] = [role |-> "user", turn |-> messages'[i].turn]
                 /\ \A j \in DOMAIN messages' : messages'[j] = messages'[i] => j = i
      <4>1. i > 1 => i - 1 \in DOMAIN messages
        BY <2>0
      <4> QED
        BY <3>4, <3>5, <3>6, <4>1 DEF RepliesFollowTheirMessage
    <3>7. n + 1 > 1 /\ messages'[n + 1 - 1] = [role |-> "user", turn |-> messages'[n + 1].turn]
      BY <2>0, <3>2, <3>3, <3>5
    <3>8. \A j \in DOMAIN messages' : messages'[j] = messages'[n + 1] => j = n + 1
      BY <3>4, <3>5
    <3> QED
      BY <3>5, <3>6, <3>7, <3>8 DEF RepliesFollowTheirMessage
  <2> QED
    BY <2>1, <2>2, <2>3, MessagesStep
<1> QED
  BY <1>1, <1>2, SerialInvariant, PTL DEF Spec

-----------------------------------------------------------------------------
(* The conversation implements SerialConversation: the current turn is the *)
(* one that holds the reservation and is under way, the transcript is the  *)
(* table of rows.                                                          *)
THEOREM SerialRefinement == Spec => ImplementsSerialConversation
<1>1. Init => Serial!SerialInit
  BY DEF Init, StoreInit, Serial!SerialInit, CurrentTurn
<1>2. TypeOK /\ SerialInv /\ [Next]_vars => [Serial!SerialNext]_<< messages, CurrentTurn >>
  <2> SUFFICES ASSUME TypeOK, SerialInv, [Next]_vars
               PROVE  \/ UNCHANGED messages /\ CurrentTurn' = CurrentTurn
                      \/ Serial!SerialNext
    OBVIOUS
  <2> USE NoneAssumption DEF SerialInv, Serial!SerialNext
  <2>0. /\ messages \in Seq(Row)
        /\ flag \in Sends \cup {None} /\ flag' \in Sends \cup {None}
        /\ RunningTurnOwnsReservation'
    BY OwnershipStep, TypeStep DEF TypeOK, StoreTypeOK
  <2>1. ASSUME NEW s \in Sends, InFlight(s)
        PROVE  CurrentTurn = s
    BY <2>1 DEF RunningTurnOwnsReservation, CurrentTurn
  <2>2. ASSUME NEW s \in Sends, PersistUserMessage(s)
        PROVE  Serial!Ask(s)
    <3>1. InFlight(s) /\ InFlight(s)' /\ UNCHANGED flag
      BY <2>2 DEF PersistUserMessage, SendGoes, InFlight, Sending, flagVars, TypeOK, SendTypeOK
    <3>2. CurrentTurn = s /\ CurrentTurn' = s
      BY <2>1, <3>1 DEF CurrentTurn, RunningTurnOwnsReservation
    <3>3. RowsOf(s) = {} /\ InsertRow("user", s)
      BY <2>2, PersistStep DEF RowsInv
    <3> QED
      BY <3>2, <3>3 DEF Serial!Ask, Serial!Of, Serial!Said, RowsOf, InsertRow
  <2>3. ASSUME NEW s \in Sends, SaveReply(s)
        PROVE  Serial!Answer(s)
    <3>1. InFlight(s) /\ InFlight(s)' /\ UNCHANGED flag
      BY <2>3 DEF SaveReply, JobGoes, InFlight, flagVars, TypeOK, JobTypeOK, Running, Generating
    <3>2. CurrentTurn = s /\ CurrentTurn' = s
      BY <2>1, <3>1 DEF CurrentTurn, RunningTurnOwnsReservation
    <3>3. RowsOf(s) = {Len(messages)} /\ InsertRow("assistant", s)
      BY <2>3, SaveStep DEF RowsInv
    <3> QED
      BY <3>2, <3>3 DEF Serial!Answer, Serial!Of, Serial!Said, RowsOf, InsertRow
  <2>4. CASE UNCHANGED messages
    <3>1. CASE CurrentTurn = None
      <4>1. \A s \in Sends : ~InFlight(s)
        BY <3>1, <2>1
      <4>2. CASE CurrentTurn' = None
        BY <2>4, <3>1, <4>2
      <4>3. CASE CurrentTurn' \in Sends
        BY <2>4, <3>1, <4>3 DEF Serial!Open
      <4> QED
        BY <4>2, <4>3, <2>0 DEF CurrentTurn
    <3>2. CASE CurrentTurn \in Sends
      <4>1. CurrentTurn = flag /\ InFlight(flag)
        BY <3>2 DEF CurrentTurn
      <4>2. CASE CurrentTurn' = None
        BY <2>4, <3>2, <4>2 DEF Serial!Close
      <4>3. CASE CurrentTurn' = CurrentTurn
        BY <2>4, <4>3
      <4>4. CurrentTurn' \in {None, CurrentTurn}
        <5>1. ASSUME NEW s \in Sends, Reserve(s)
              PROVE  FALSE
          BY <3>2, <4>1, <5>1 DEF Reserve
        <5>2. flag' \in {flag, None}
          BY FlagStep, <5>1 DEF ClearFlag, FlagExpires
        <5> QED
          BY <4>1, <5>2 DEF CurrentTurn
      <4> QED
        BY <4>2, <4>3, <4>4
    <3> QED
      BY <3>1, <3>2, <2>0 DEF CurrentTurn
  <2> QED
    BY <2>2, <2>3, <2>4, MessagesStep
<1> QED
  BY <1>1, <1>2, SerialInvariant, PTL DEF Spec, ImplementsSerialConversation, Serial!SerialSpec

-----------------------------------------------------------------------------
(* A user row completes no turn, and a reply row at most its own.          *)
LEMMA CompleteTurnsAppend ==
  ASSUME NEW rows \in Seq(Row), NEW s \in Sends, NEW role \in {"user", "assistant"},
         role = "assistant" => rows[Len(rows)] = [role |-> "user", turn |-> s]
  PROVE  CompleteTurns(Append(rows, [role |-> role, turn |-> s]))
           \subseteq CompleteTurns(rows) \cup (IF role = "user" THEN {} ELSE {<<s, s>>})
<1> DEFINE row  == [role |-> role, turn |-> s]
           more == Append(rows, row)
           new  == IF role = "user" THEN {} ELSE {<<s, s>>}
<1>1. /\ Len(more) = Len(rows) + 1 /\ Len(rows) \in Nat
      /\ more[Len(rows) + 1] = row
      /\ \A i \in 1 .. Len(rows) : more[i] = rows[i]
  BY RowTyped
<1>2. row.role = role /\ row.turn = s
  OBVIOUS
<1>3. role = "assistant" => rows[Len(rows)].turn = s
  OBVIOUS
<1> HIDE DEF row, more
<1> SUFFICES ASSUME NEW i \in 1 .. Len(more) - 1, more[i].role = "user", more[i + 1].role = "assistant"
             PROVE  <<more[i].turn, more[i + 1].turn>> \in CompleteTurns(rows) \cup new
  BY DEF CompleteTurns, more, row
<1>4. CASE i \in 1 .. Len(rows) - 1
  BY <1>1, <1>4 DEF CompleteTurns
<1>5. CASE i = Len(rows)
  <2>1. more[i] = rows[i] /\ more[i + 1] = row
    BY <1>1, <1>5
  <2> QED
    BY <2>1, <1>2, <1>3, <1>5
<1> QED
  BY <1>1, <1>4, <1>5

(* What one step can do to a turn and its prompt, the cache and the rows,  *)
(* where nothing makes the service forget.                                 *)
LEMMA MemoryStep ==
  ASSUME Faults \cap MemoryFaults = {}, TypeOK, RunsOnce, [Next]_vars, NEW s \in Sends
  PROVE  /\ job'[s] \in Remembering => \/ job[s] \in Remembering /\ prompt'[s] = prompt[s]
                                       \/ LoadPromptHistory(s)
         /\ job[s] = "caching" => job'[s] = "caching" \/ CacheReply(s)
<1> DEFINE Goal == /\ job'[s] \in Remembering => \/ job[s] \in Remembering /\ prompt'[s] = prompt[s]
                                                 \/ LoadPromptHistory(s)
                   /\ job[s] = "caching" => job'[s] = "caching" \/ CacheReply(s)
<1> USE LeaseAssumption
    DEF TypeOK, JobTypeOK, Remembering, Generating, MemoryFaults, LeaseFaults
<1>1. ASSUME NEW t \in Sends, SendAction(t)
      PROVE  Goal
  <2>1. UNCHANGED prompt
    BY <1>1 DEF SendAction
  <2>2. CASE UNCHANGED job
    BY <2>1, <2>2
  <2>3. CASE EnqueueChatReply(t)
    <3>1. job[t] = "none" /\ job' = [job EXCEPT ![t] = "queued"]
      BY <2>3 DEF EnqueueChatReply, SendGoes, RunsOnce
    <3> QED
      BY <2>1, <3>1
  <2> QED
    BY <1>1, <2>2, <2>3 DEF SendAction, SendProgress, ReadCursor, Reserve, RejectTurnInProgress,
       ReadUserSequence, PersistUserMessage, PersistConflict, AnnounceUserMessage, EndpointFails
<1>2. ASSUME NEW t \in Sends, LoadPromptHistory(t)
      PROVE  Goal
  <2>1. \A r \in Sends \ {t} : job'[r] = job[r] /\ prompt'[r] = prompt[r]
    BY <1>2 DEF LoadPromptHistory, JobGoes
  <2> QED
    BY <1>2, <2>1 DEF LoadPromptHistory, JobGoes
<1>3. ASSUME NEW t \in Sends, StartJob(t) \/ StreamDelta(t) \/ ModelUnavailable(t) \/ PublishUnavailable(t)
      PROVE  Goal
  BY <1>3 DEF JobGoes, StartJob, StreamDelta, ModelUnavailable, PublishUnavailable
<1>8. ASSUME NEW t \in Sends, ToolFails(t) \/ ReadReplySequence(t) \/ SaveReply(t) \/ SaveReplyFails(t)
      PROVE  Goal
  BY <1>8 DEF JobGoes, ToolFails, ReadReplySequence, SaveReply, SaveReplyFails
<1>4. ASSUME NEW t \in Sends, CacheReply(t)
      PROVE  Goal
  BY <1>4 DEF JobGoes, CacheReply
<1>9. ASSUME NEW t \in Sends,
             PublishDone(t) \/ PublishError(t) \/ RecordTurnFailure(t) \/ ClearFlag(t) \/ Redeliver(t)
      PROVE  Goal
  BY <1>9 DEF JobGoes, PublishDone, PublishError, RecordTurnFailure, ClearFlag, Redeliver
<1>5. ASSUME NEW t \in Sends, ExpireStream(t)
      PROVE  Goal
  BY <1>5 DEF JobGoes, ExpireStream, AfterAttempt
<1>6. ASSUME NEW t \in Sends
      PROVE  ~RedisFails(t) /\ ~Crash(t) /\ ~\E why \in {"timeout", "shutdown"} : Cancel(t, why)
  BY DEF RedisFails, Crash, Cancel
<1>7. ASSUME UNCHANGED jobVars
      PROVE  Goal
  BY <1>7 DEF jobVars
<1> QED
  <2>1. \/ \E t \in Sends : SendAction(t) \/ JobAction(t)
        \/ UNCHANGED jobVars
    BY DEF Next, FlagExpires, StreamExpires, CacheExpires, Quiet, vars
  <2>2. ASSUME NEW t \in Sends, JobAction(t)
        PROVE  Goal
    BY <2>2, <1>2, <1>3, <1>4, <1>5, <1>6, <1>8, <1>9 DEF JobAction, JobProgress
  <2> QED
    BY <2>1, <2>2, <1>1, <1>7

(* Only a load, a save and the TTL touch the cached history.               *)
LEMMA CacheStep ==
  ASSUME [Next]_vars
  PROVE  \/ UNCHANGED cache
         \/ \E s \in Sends : LoadPromptHistory(s) \/ CacheReply(s)
         \/ cache' = {}
BY DEF Next, SendAction, SendProgress, JobAction, JobProgress, Quiet, vars, storeVars, sendVars, jobVars,
       ReadCursor, Reserve, RejectTurnInProgress, ReadUserSequence, PersistUserMessage, PersistConflict,
       AnnounceUserMessage, EnqueueChatReply, EndpointFails,
       StartJob, StreamDelta, ModelUnavailable, PublishUnavailable, ToolFails,
       ReadReplySequence, SaveReply, SaveReplyFails, PublishDone, PublishError,
       RecordTurnFailure, ClearFlag, ExpireStream, RedisFails, Redeliver, Crash, Cancel,
       FlagExpires, StreamExpires, CacheExpires

(* The prompt of a running turn knows every earlier saved turn: from       *)
(* MemoryInv, which says what the cache may be behind.  Cache expiry,      *)
(* model and tool failures, endpoint failures and stream expiry may        *)
(* happen; MemoryFaults are the ones that do make a prompt forget.         *)
THEOREM PromptsKnowSavedTurns ==
  Faults \cap MemoryFaults = {} => (Spec => []PromptKnowsSavedTurns)
<1> SUFFICES ASSUME Faults \cap MemoryFaults = {}
             PROVE  Spec => []PromptKnowsSavedTurns
  OBVIOUS
<1>1. Init => MemoryInv
  BY DEF Init, StoreInit, JobInit, MemoryInv, PromptKnowsSavedTurns, Generating
<1>2. TypeOK /\ SerialInv /\ MemoryInv /\ [Next]_vars => MemoryInv'
  <2> SUFFICES ASSUME TypeOK, SerialInv, MemoryInv, [Next]_vars
               PROVE  MemoryInv'
    OBVIOUS
  <2> USE DEF SerialInv
  <2>0. messages \in Seq(Row)
    BY DEF TypeOK, StoreTypeOK
  <2> DEFINE known  == CompleteTurns(messages)
             known2 == CompleteTurns(messages')
  <2>1. ASSUME NEW s \in Sends, NEW t \in Sends, job[s] \in Generating, job[t] \in Generating
        PROVE  s = t
    <3>1. InFlight(s) /\ InFlight(t)
      BY <2>1 DEF InFlight, Running, Generating
    <3> QED
      BY <3>1 DEF RunningTurnOwnsReservation
  <2>2. \/ known2 \subseteq known
        \/ \E s \in Sends : SaveReply(s) /\ known2 \subseteq known \cup {<<s, s>>}
    <3>1. CASE UNCHANGED messages
      BY <3>1
    <3>2. ASSUME NEW s \in Sends, PersistUserMessage(s)
          PROVE  known2 \subseteq known
      <4>1. messages' = Append(messages, [role |-> "user", turn |-> s])
        BY <3>2 DEF PersistUserMessage, InsertRow
      <4> QED
        BY <2>0, <4>1, CompleteTurnsAppend
    <3>3. ASSUME NEW s \in Sends, SaveReply(s)
          PROVE  known2 \subseteq known \cup {<<s, s>>}
      <4>1. messages' = Append(messages, [role |-> "assistant", turn |-> s])
        BY <3>3 DEF SaveReply, InsertRow
      <4>2. messages[Len(messages)] = [role |-> "user", turn |-> s]
        BY <3>3, SaveStep DEF RowsInv
      <4> QED
        BY <2>0, <4>1, <4>2, CompleteTurnsAppend
    <3> QED
      BY <3>1, <3>2, <3>3, MessagesStep
  <2> HIDE DEF known, known2
  <2>3. ASSUME NEW s \in Sends, job[s] \in Remembering
        PROVE  known \ {<<s, s>>} \subseteq prompt[s]
    BY <2>3 DEF MemoryInv, PromptKnowsSavedTurns, Remembering, known
  <2>4. cache # {} => \A turn \in known \ cache : \E s \in Sends : job[s] = "caching" /\ turn = <<s, s>>
    BY DEF MemoryInv, known
  <2>5. ASSUME NEW s \in Sends, LoadPromptHistory(s)
        PROVE  known \subseteq prompt'[s] /\ cache' = prompt'[s] /\ known2 \subseteq known
    <3>1. /\ prompt'[s] = IF cache # {} THEN cache ELSE known
          /\ cache' = prompt'[s]
      BY <2>5, Zenon DEF LoadPromptHistory, TypeOK, JobTypeOK, MemoryFaults, known
    <3>2. job[s] = "loading" /\ UNCHANGED messages
      BY <2>5 DEF LoadPromptHistory, JobGoes
    <3>3. \A t \in Sends : job[t] # "caching"
      BY <2>1, <3>2 DEF Generating
    <3> QED
      BY <2>4, <3>1, <3>2, <3>3 DEF known, known2
  <2>6. ASSUME NEW s \in Sends, job'[s] \in Remembering
        PROVE  known2 \ {<<s, s>>} \subseteq prompt'[s]
    <3>1. CASE LoadPromptHistory(s)
      BY <2>5, <3>1
    <3>2. CASE job[s] \in Remembering /\ prompt'[s] = prompt[s]
      <4>1. ASSUME NEW t \in Sends, SaveReply(t)
            PROVE  t = s
        BY <2>1, <3>2, <4>1 DEF SaveReply, JobGoes, Remembering, Generating
      <4> QED
        BY <2>2, <2>3, <3>2, <4>1
    <3> QED
      BY <2>6, <3>1, <3>2, MemoryStep
  <2>7. ASSUME cache' # {}, NEW turn \in known2, turn \notin cache'
        PROVE  \E s \in Sends : job'[s] = "caching" /\ turn = <<s, s>>
    <3>1. ASSUME NEW s \in Sends, LoadPromptHistory(s)
          PROVE  FALSE
      BY <2>5, <2>7, <3>1
    <3>2. ASSUME NEW s \in Sends, CacheReply(s)
          PROVE  FALSE
      <4>1. cache' = prompt[s] \cup {<<s, s>>} /\ job[s] = "caching"
        BY <3>2 DEF CacheReply, JobGoes, MemoryFaults
      <4>2. known2 = known
        BY <3>2 DEF CacheReply, known, known2
      <4>3. job[s] \in Remembering
        BY <4>1 DEF Remembering, Generating
      <4>4. known2 \ {<<s, s>>} \subseteq prompt[s]
        BY <2>3, <4>2, <4>3
      <4> QED
        BY <2>7, <4>1, <4>4
    <3>3. UNCHANGED cache
      BY <2>7, <3>1, <3>2, CacheStep
    <3>4. CASE turn \in known
      <4>1. PICK s \in Sends : job[s] = "caching" /\ turn = <<s, s>>
        BY <2>4, <2>7, <3>3, <3>4
      <4> QED
        BY <4>1, <3>2, MemoryStep
    <3>5. CASE turn \notin known
      <4>1. PICK s \in Sends : SaveReply(s) /\ turn = <<s, s>>
        BY <2>2, <2>7, <3>5
      <4>2. job'[s] = "caching"
        BY <4>1 DEF SaveReply, JobGoes, TypeOK, JobTypeOK
      <4> QED
        BY <4>1, <4>2
    <3> QED
      BY <3>4, <3>5
  <2> QED
    BY <2>6, <2>7 DEF MemoryInv, PromptKnowsSavedTurns, Remembering, known2
<1>3. MemoryInv => PromptKnowsSavedTurns
  BY DEF MemoryInv
<1> QED
  BY <1>1, <1>2, <1>3, SerialInvariant, PTL DEF Spec
=============================================================================
