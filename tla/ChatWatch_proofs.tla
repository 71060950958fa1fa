--------------------------- MODULE ChatWatch_proofs ---------------------------
(***************************************************************************)
(* What chat windows show, for any number of windows, senders and turns,   *)
(* where a turn may fail only in the model and in its tools.               *)
(***************************************************************************)
EXTENDS ChatWatch, SerialTurns_proofs, SequenceTheorems, WellFoundedInduction

(* The chat windows add nothing to what the backend does.                  *)
LEMMA WatchIsChat == WatchSpec => Spec
<1>1. WatchInit => Init
  BY DEF WatchInit
<1>2. [WatchNext]_<< vars, winVars >> => [Next]_vars
  BY ZenonT(30) DEF WatchNext, Mint, Submit, PostAnswered, Backend, Window, LoadHistory, Connect, Deliver, Drop,
         Leave, Return, Expiry, Finished, Next, vars
<1> QED
  BY <1>1, <1>2, PTL DEF WatchSpec, Spec

-----------------------------------------------------------------------------
(* The order of the stream.                                                *)

(* What a step may do to the stream and to the turns on it.                *)
Opens(s)  == AnnounceUserMessage(s) /\ Streaming(s)'
Adds(s)   == Streaming(s) /\ Streaming(s)' /\ XAdd("Delta", s)
Closes(s) == Streaming(s) /\ ~Streaming(s)' /\ \E type \in {"MessageDone", "Error"} : XAdd(type, s)
Silent(s) == UNCHANGED log /\ (Streaming(s)' <=> Streaming(s))

StreamGoesOn(s) ==
  /\ \A t \in Sends \ {s} : Streaming(t)' <=> Streaming(t)
  /\ Opens(s) \/ Adds(s) \/ Closes(s) \/ Silent(s)

LEMMA StreamStep ==
  ASSUME Faults \subseteq QuietFaults, TypeOK, SerialInv, [Next]_vars
  PROVE  \/ UNCHANGED log /\ \A s \in Sends : Streaming(s)' <=> Streaming(s)
         \/ \E s \in Sends : StreamGoesOn(s)
<1> USE DEF TypeOK, SendTypeOK, JobTypeOK, JobStates, Streaming, StreamGoesOn, Generating
<1>1. ASSUME NEW s \in Sends, SendProgress(s), ~AnnounceUserMessage(s)
      PROVE  StreamGoesOn(s)
  BY <1>1, SMTT(30) DEF Silent, SendProgress, SendGoes, ReadCursor, Reserve, RejectTurnInProgress,
        ReadUserSequence, PersistUserMessage, PersistConflict, EnqueueChatReply, sendVars, storeVars, streamVars
<1>2. ASSUME NEW s \in Sends, AnnounceUserMessage(s)
      PROVE  StreamGoesOn(s)
  BY <1>2 DEF Opens, AnnounceUserMessage, SendGoes
<1>3. ASSUME NEW s \in Sends,
             StartJob(s) \/ LoadPromptHistory(s) \/ ModelUnavailable(s) \/ ToolFails(s)
               \/ ReadReplySequence(s) \/ SaveReply(s) \/ CacheReply(s)
      PROVE  StreamGoesOn(s)
  BY <1>3, SMTT(30) DEF Silent, JobGoes, StartJob, LoadPromptHistory, ModelUnavailable, ToolFails,
        ReadReplySequence, SaveReply, CacheReply, sendVars, storeVars, streamVars
<1>4. ASSUME NEW s \in Sends, StreamDelta(s)
      PROVE  StreamGoesOn(s)
  BY <1>4 DEF Adds, StreamDelta, sendVars
<1>5. ASSUME NEW s \in Sends, PublishUnavailable(s) \/ PublishDone(s) \/ PublishError(s)
      PROVE  StreamGoesOn(s)
  BY <1>5, SMTT(30) DEF Closes, JobGoes, PublishUnavailable, PublishDone, PublishError, SerialInv, RunsOnce, sendVars
<1>6. ASSUME NEW s \in Sends, RecordTurnFailure(s) \/ ClearFlag(s)
      PROVE  StreamGoesOn(s)
  BY <1>6 DEF Silent, JobGoes, RecordTurnFailure, ClearFlag, streamVars, sendVars
<1>7. ASSUME NEW s \in Sends, ExpireStream(s)
      PROVE  StreamGoesOn(s)
  BY <1>7 DEF Silent, JobGoes, ExpireStream, AfterAttempt, SerialInv, RunsOnce, sendVars
<1>8. ASSUME NEW s \in Sends, SaveReplyFails(s)
      PROVE  FALSE
  BY <1>8 DEF SaveReplyFails, ReplyUnsavable, SequenceFree, JobGoes, SerialInv, SequenceIsFresh, NextSequence,
              StoreTypeOK, QuietFaults
<1>9. ASSUME NEW s \in Sends, \/ EndpointFails(s) \/ RedisFails(s) \/ Redeliver(s) \/ Crash(s)
                              \/ \E why \in {"timeout", "shutdown"} : Cancel(s, why)
      PROVE  FALSE
  BY <1>9 DEF EndpointFails, RedisFails, Redeliver, Crash, Cancel, JobGoes, SerialInv, RunsOnce, QuietFaults
<1>10. CASE UNCHANGED << log, sendPc, job >>
  BY <1>10
<1> QED
  <2>1. \/ \E s \in Sends : SendProgress(s) \/ EndpointFails(s) \/ JobAction(s)
        \/ UNCHANGED << log, sendPc, job >>
    BY DEF Next, SendAction, FlagExpires, StreamExpires, CacheExpires, Quiet, vars, jobVars, sendVars, storeVars,
           streamVars
  <2>2. ASSUME NEW s \in Sends, JobAction(s)
        PROVE  StreamGoesOn(s)
    BY <2>2, <1>3, <1>4, <1>5, <1>6, <1>7, <1>8, <1>9 DEF JobAction, JobProgress
  <2> QED
    BY <2>1, <2>2, <1>1, <1>2, <1>9, <1>10

(* A turn on the stream is under way, and there is one at most.            *)
LEMMA StreamingInFlight ==
  ASSUME SerialInv, NEW s \in Sends, Streaming(s)
  PROVE  InFlight(s) /\ flag = s /\ sendPc[s] \in {"enqueue", "accepted"}
BY DEF Streaming, InFlight, Sending, Running, Generating, Failing, SerialInv, RunsOnce, RunningTurnOwnsReservation

(* A turn is announced on a stream whose turns have ended.                 *)
LEMMA OpensAfterTheEnd ==
  ASSUME TypeOK, SerialInv, StreamInv, NEW s \in Sends, AnnounceUserMessage(s)
  PROVE  /\ \A t \in Sends : ~Streaming(t)
         /\ Len(log) > 0 => ~Unended(log[Len(log)])
<1>1. ASSUME NEW t \in Sends, Streaming(t)
      PROVE  FALSE
  <2>1. InFlight(s) /\ sendPc[s] = "announce"
    BY DEF AnnounceUserMessage, SendGoes, InFlight, Sending
  <2>2. t = s
    BY <1>1, <2>1, StreamingInFlight DEF SerialInv, RunningTurnOwnsReservation
  <2> QED
    BY <1>1, <2>1, <2>2, StreamingInFlight
<1>2. ASSUME Len(log) > 0, Unended(log[Len(log)])
      PROVE  FALSE
  <2>1. log[Len(log)].turn \in Sends
    <3>1. log \in Seq(Entry)
      BY DEF TypeOK, StoreTypeOK
    <3>2. log[Len(log)] \in Entry
      BY <1>2, <3>1
    <3> QED
      BY <3>2 DEF Entry
  <2> QED
    BY <1>1, <1>2, <2>1 DEF StreamInv
<1> QED
  BY <1>1, <1>2

(* A request whose message is on the stream stays so, and keeps its cursor. *)
LEMMA AnnouncedStays ==
  ASSUME Faults \subseteq QuietFaults, TypeOK, [Next]_vars, NEW s \in Sends, sendPc[s] \in {"enqueue", "accepted"}
  PROVE  sendPc'[s] \in {"enqueue", "accepted"} /\ cursor'[s] = cursor[s]
<1>1. cursor'[s] = cursor[s]
  BY CursorStep DEF ReadCursor, SendGoes
<1>2. CASE UNCHANGED sendPc
  BY <1>1, <1>2
<1>3. ASSUME NEW t \in Sends, SendProgress(t)
      PROVE  sendPc'[s] \in {"enqueue", "accepted"}
  BY <1>3 DEF TypeOK, SendTypeOK, SendProgress, SendGoes, ReadCursor, Reserve, RejectTurnInProgress,
              ReadUserSequence, PersistUserMessage, PersistConflict, AnnounceUserMessage, EnqueueChatReply
<1>4. ASSUME NEW t \in Sends, JobAction(t)
      PROVE  UNCHANGED sendPc
  BY <1>4 DEF JobAction, JobProgress, sendVars,
     StartJob, LoadPromptHistory, StreamDelta, ModelUnavailable, PublishUnavailable, ToolFails,
     ReadReplySequence, SaveReply, SaveReplyFails, CacheReply, PublishDone, PublishError,
     RecordTurnFailure, ClearFlag, ExpireStream, RedisFails, Redeliver, Crash, Cancel
<1>5. \/ \E t \in Sends : SendProgress(t) \/ EndpointFails(t) \/ JobAction(t)
      \/ UNCHANGED sendPc
  BY DEF Next, SendAction, FlagExpires, StreamExpires, CacheExpires, Quiet, vars, sendVars
<1>6. ASSUME NEW t \in Sends, EndpointFails(t)
      PROVE  FALSE
  BY <1>6 DEF EndpointFails, QuietFaults
<1>7. UNCHANGED sendPc \/ \E t \in Sends : SendProgress(t)
  BY <1>4, <1>5, <1>6
<1> QED
  BY <1>1, <1>2, <1>3, <1>7

(* The stream after one more entry.                                        *)
LEMMA LogAppended ==
  ASSUME TypeOK, NEW type, NEW s \in Sends, XAdd(type, s)
  PROVE  /\ Len(log) \in Nat /\ Len(log') = Len(log) + 1
         /\ DOMAIN log = 1 .. Len(log) /\ DOMAIN log' = 1 .. Len(log) + 1
         /\ \A i \in DOMAIN log : log'[i] = log[i]
         /\ log'[Len(log) + 1].type = type /\ log'[Len(log) + 1].turn = s
<1> DEFINE entry == [type |-> type, turn |-> s]
<1>1. entry.type = type /\ entry.turn = s
  OBVIOUS
<1>2. log \in Seq(Entry) /\ log' = Append(log, entry)
  BY DEF TypeOK, StoreTypeOK, XAdd
<1> HIDE DEF entry
<1>3. /\ Len(log) \in Nat /\ Len(log') = Len(log) + 1
      /\ DOMAIN log = 1 .. Len(log) /\ DOMAIN log' = 1 .. Len(log) + 1
      /\ \A i \in DOMAIN log : log'[i] = log[i]
      /\ log'[Len(log) + 1] = entry
  BY <1>2
<1> QED
  BY <1>1, <1>3

LEMMA EntriesKeepTheirOrder ==
  ASSUME Faults \subseteq QuietFaults, TypeOK, [Next]_vars, NEW i \in DOMAIN log, InOrder(i),
         DOMAIN log \subseteq DOMAIN log', \A j \in DOMAIN log : log'[j] = log[j]
  PROVE  InOrder(i)'
<1>1. log \in Seq(Entry) /\ log[i] \in Entry /\ log'[i] = log[i]
  BY DEF TypeOK, StoreTypeOK
<1>2. PICK e : e = log[i]
  OBVIOUS
<1>3. sendPc'[e.turn] \in {"enqueue", "accepted"} /\ cursor'[e.turn] = cursor[e.turn]
  <2>1. e.turn \in Sends
    BY <1>1, <1>2 DEF Entry
  <2> QED
    BY <1>2, <2>1, AnnouncedStays DEF InOrder
<1>4. i > 1 => i - 1 \in DOMAIN log /\ log'[i - 1] = log[i - 1]
  BY <1>1
<1>5. i \in Nat /\ i >= 1
  BY <1>1
<1> QED
  BY <1>1, <1>2, <1>3, <1>4, <1>5 DEF InOrder, Unended

LEMMA OrderStep ==
  ASSUME Faults \subseteq QuietFaults, TypeOK, SerialInv, ReplayInv, StreamInv, [Next]_vars
  PROVE  StreamInv'
<1>1. log \in Seq(Entry) /\ Len(log) \in Nat /\ DOMAIN log = 1 .. Len(log) /\ cursor \in [Sends -> Nat]
  BY DEF TypeOK, StoreTypeOK, SendTypeOK
<1>2. \A i \in DOMAIN log : InOrder(i)
  BY DEF StreamInv
<1>3. CASE UNCHANGED log /\ \A s \in Sends : Streaming(s)' <=> Streaming(s)
  <2>1. ASSUME NEW i \in DOMAIN log'
        PROVE  InOrder(i)'
    BY <1>2, <1>3, <2>1, EntriesKeepTheirOrder
  <2>2. \A s \in Sends : Streaming(s)' <=>
           Len(log') > 0 /\ Unended(log'[Len(log')]) /\ log'[Len(log')].turn = s
    BY <1>3 DEF StreamInv
  <2> QED
    BY <2>1, <2>2 DEF StreamInv, Unended
(* One more entry e, of turn s.                                            *)
<1>4. ASSUME NEW e \in Entry, log' = Append(log, e), e.type # "PersistenceFailed",
             IF e.type = "UserMessage" THEN Len(log) > 0 => ~Unended(log[Len(log)])
             ELSE Len(log) > 0 /\ Unended(log[Len(log)]) /\ log[Len(log)].turn = e.turn,
             sendPc'[e.turn] \in {"enqueue", "accepted"}, cursor'[e.turn] <= Len(log),
             \A s \in Sends : Streaming(s)' <=> Unended(e) /\ e.turn = s
      PROVE  StreamInv'
  <2>1. /\ DOMAIN log' = 1 .. Len(log) + 1 /\ Len(log') = Len(log) + 1
        /\ \A i \in DOMAIN log : log'[i] = log[i]
        /\ log'[Len(log) + 1] = e
    BY <1>1, <1>4
  <2>2. ASSUME NEW i \in DOMAIN log
        PROVE  InOrder(i)'
    BY <1>1, <1>2, <2>1, <2>2, EntriesKeepTheirOrder
  <2>3. PICK n \in Nat : n = Len(log)
    BY <1>1
  <2>4. InOrder(n + 1)'
    <3>1. e.turn \in Sends /\ cursor'[e.turn] \in Nat
      <4>1. cursor' \in [Sends -> Nat]
        BY TypeStep DEF TypeOK, SendTypeOK
      <4> QED
        BY <4>1 DEF Entry
    <3>2. log'[n + 1] = e /\ n + 1 > cursor'[e.turn]
      BY <1>4, <2>1, <2>3, <3>1
    <3>3. PICK m : m = n + 1
      OBVIOUS
    <3>4. IF e.type = "UserMessage" THEN m = 1 \/ ~Unended(log'[m - 1])
          ELSE m > 1 /\ Unended(log'[m - 1]) /\ log'[m - 1].turn = e.turn
      <4>1. m - 1 = n /\ (m = 1 <=> n = 0) /\ (m > 1 <=> n > 0) /\ (n # 0 => n > 0)
        BY <2>3, <3>3
      <4>2. n > 0 => log'[n] = log[n]
        BY <1>1, <2>1, <2>3
      <4> QED
        BY <1>4, <2>3, <4>1, <4>2
    <3>5. InOrder(m)'
      BY <1>4, <3>2, <3>3, <3>4 DEF InOrder, Unended
    <3> QED
      BY <3>3, <3>5
  <2>5. \A i \in DOMAIN log' : InOrder(i)'
    BY <1>1, <2>1, <2>2, <2>3, <2>4
  <2>6. \A s \in Sends : Streaming(s)' <=>
           Len(log') > 0 /\ Unended(log'[Len(log')]) /\ log'[Len(log')].turn = s
    BY <1>1, <1>4, <2>1
  <2> QED
    BY <2>5, <2>6 DEF StreamInv, Unended
<1>5. ASSUME NEW s \in Sends, StreamGoesOn(s)
      PROVE  StreamInv'
  <2>1. cursor[s] <= Len(log)
    BY DEF ReplayInv
  <2>2. CASE Opens(s)
    <3> DEFINE e == [type |-> "UserMessage", turn |-> s]
    <3>1. /\ e \in Entry /\ e.type = "UserMessage" /\ e.turn = s
          /\ log' = Append(log, e) /\ sendPc'[s] = "enqueue" /\ cursor' = cursor
      BY <2>2 DEF Opens, AnnounceUserMessage, XAdd, SendGoes, TypeOK, SendTypeOK, Entry
    <3>2. /\ Len(log) > 0 => ~Unended(log[Len(log)])
          /\ \A t \in Sends : ~Streaming(t)
      BY <2>2, OpensAfterTheEnd DEF Opens
    <3>3. \A t \in Sends : Streaming(t)' <=> e.turn = t
      BY <1>5, <2>2, <3>1, <3>2 DEF StreamGoesOn, Opens
    <3> HIDE DEF e
    <3>4. Unended(e) /\ e.type # "PersistenceFailed"
      BY <3>1 DEF Unended
    <3> QED
      BY <1>4, <2>1, <3>1, <3>2, <3>3, <3>4
  <2>3. ASSUME Streaming(s), NEW type \in {"Delta", "MessageDone", "Error"}, XAdd(type, s),
               Streaming(s)' <=> type = "Delta"
        PROVE  StreamInv'
    <3> DEFINE e == [type |-> type, turn |-> s]
    <3>1. /\ e \in Entry /\ e.type = type /\ e.turn = s /\ log' = Append(log, e)
      BY <2>3 DEF XAdd, Entry
    <3>2. /\ Len(log) > 0 /\ Unended(log[Len(log)]) /\ log[Len(log)].turn = s
          /\ \A t \in Sends : Streaming(t) => t = s
      BY <2>3 DEF StreamInv
    <3>3. sendPc'[s] \in {"enqueue", "accepted"} /\ cursor'[s] = cursor[s]
      BY <2>3, StreamingInFlight, AnnouncedStays
    <3>4. \A t \in Sends : Streaming(t)' <=> type = "Delta" /\ e.turn = t
      BY <1>5, <2>3, <3>1, <3>2 DEF StreamGoesOn
    <3> HIDE DEF e
    <3>5. e.type # "UserMessage" /\ e.type # "PersistenceFailed" /\ (Unended(e) <=> type = "Delta")
      BY <2>3, <3>1 DEF Unended
    <3> QED
      BY <1>4, <2>1, <3>1, <3>2, <3>3, <3>4, <3>5
  <2>4. CASE Silent(s)
    BY <1>3, <1>5, <2>4 DEF Silent, StreamGoesOn
  <2> QED
    BY <1>5, <2>2, <2>3, <2>4 DEF StreamGoesOn, Adds, Closes
<1> QED
  BY <1>3, <1>5, StreamStep

(* Where every turn says on the stream how it ended, the stream is one     *)
(* turn after the other (the reservation around XADD and the job).         *)
THEOREM StreamOrdered == Faults \subseteq QuietFaults => (Spec => []StreamInv)
<1> SUFFICES ASSUME Faults \subseteq QuietFaults
             PROVE  Spec => []StreamInv
  OBVIOUS
<1>1. Init => StreamInv
  BY DEF Init, StoreInit, SendInit, JobInit, StreamInv, Streaming, Generating
<1>2. TypeOK /\ SerialInv /\ ReplayInv /\ StreamInv /\ [Next]_vars => StreamInv'
  BY OrderStep
<1>3. "streamTtl" \notin Faults
  BY DEF QuietFaults
<1> QED
  BY <1>1, <1>2, <1>3, SerialInvariant, ReplayInvariant, PTL DEF Spec

-----------------------------------------------------------------------------
(* What the window's operations do to a thread of bubbles.                 *)

Bubbles == Seq(View!Bubble)

(* No message of a user goes or changes.                                   *)
Keeps(before, after) ==
  \A i \in DOMAIN before : before[i].role = "user" => i \in DOMAIN after /\ after[i] = before[i]

LEMMA BubblesTyped ==
  ASSUME NEW bubbles \in Bubbles
  PROVE  /\ Len(bubbles) \in Nat /\ DOMAIN bubbles = 1 .. Len(bubbles)
         /\ \A i \in DOMAIN bubbles :
              bubbles[i] \in [role : {"user", "assistant"}, says : SUBSET Sends,
                              state : {"streaming", "done", "error"}]
<1>1. /\ Len(bubbles) \in Nat /\ DOMAIN bubbles = 1 .. Len(bubbles)
      /\ \A i \in DOMAIN bubbles : bubbles[i] \in View!Bubble
  BY DEF Bubbles
<1> QED
  BY <1>1 DEF View!Bubble

LEMMA NewBubbles ==
  ASSUME NEW s \in Sends
  PROVE  /\ View!UserBubble(s) \in View!Bubble /\ View!StreamingAssistant \in View!Bubble
         /\ View!ErrorBubble \in View!Bubble
         /\ View!UserBubble(s).role = "user" /\ View!UserBubble(s).says = {s}
         /\ View!StreamingAssistant.role = "assistant" /\ View!StreamingAssistant.says = {}
         /\ View!StreamingAssistant.state = "streaming"
         /\ View!ErrorBubble.role = "assistant" /\ View!ErrorBubble.says = {}
         /\ \A t \in Sends : View!UserBubble(t) = View!UserBubble(s) => t = s
BY DEF View!UserBubble, View!StreamingAssistant, View!ErrorBubble, View!Bubble

(* submit and the echo of another window's message.                        *)
LEMMA SubmittedThread ==
  ASSUME NEW bubbles \in Bubbles, NEW s \in Sends
  PROVE  LET after == View!Submitted(bubbles, s)
         IN  /\ after \in Bubbles /\ Len(after) = Len(bubbles) + 2
             /\ \A i \in DOMAIN bubbles : after[i] = bubbles[i]
             /\ after[Len(bubbles) + 1] = View!UserBubble(s)
             /\ after[Len(bubbles) + 2] = View!StreamingAssistant
<1> DEFINE u == View!UserBubble(s)
           a == View!StreamingAssistant
<1>1. u \in View!Bubble /\ a \in View!Bubble
  BY NewBubbles
<1>2. View!Submitted(bubbles, s) = bubbles \o << u, a >>
  BY DEF View!Submitted
<1>3. bubbles \in Seq(View!Bubble)
  BY DEF Bubbles
<1> HIDE DEF u, a
<1>4. LET after == bubbles \o << u, a >>
      IN  /\ after \in Seq(View!Bubble) /\ Len(after) = Len(bubbles) + 2
          /\ \A i \in DOMAIN bubbles : after[i] = bubbles[i]
          /\ after[Len(bubbles) + 1] = u
          /\ after[Len(bubbles) + 2] = a
  BY <1>1, <1>3
<1> QED
  BY <1>2, <1>4 DEF Bubbles, u, a

LEMMA AppendedThread ==
  ASSUME NEW bubbles \in Bubbles, NEW b \in View!Bubble
  PROVE  LET after == Append(bubbles, b)
         IN  /\ after \in Bubbles /\ Len(after) = Len(bubbles) + 1
             /\ \A i \in DOMAIN bubbles : after[i] = bubbles[i]
             /\ after[Len(bubbles) + 1] = b
BY DEF Bubbles

(* Where updateLastAssistant writes, and what.                             *)
Open(bubbles) == IF View!IsStreaming(bubbles) THEN Len(bubbles) ELSE Len(bubbles) + 1

Updated(bubbles, after, state, saying, n, said) ==
  /\ after \in Bubbles /\ Len(after) = n /\ n \in 1 .. Len(bubbles) + 1
  /\ \A i \in 1 .. n - 1 : i \in DOMAIN bubbles /\ after[i] = bubbles[i]
  /\ after[n].role = "assistant" /\ after[n].state = state
  /\ after[n].says = IF state = "done" THEN saying ELSE said \cup saying

SaidThere(bubbles) == IF View!IsStreaming(bubbles) THEN bubbles[Open(bubbles)].says ELSE {}

LEMMA UpdatedThread ==
  ASSUME NEW bubbles \in Bubbles, NEW state \in {"streaming", "done", "error"}, NEW saying \in SUBSET Sends
  PROVE  Updated(bubbles, View!UpdateLastAssistant(bubbles, state, saying), state, saying,
                 Open(bubbles), SaidThere(bubbles))
<1> DEFINE open == IF View!IsStreaming(bubbles) THEN bubbles ELSE Append(bubbles, View!StreamingAssistant)
           n    == Open(bubbles)
           said == SaidThere(bubbles)
<1>1. /\ open \in Seq(View!Bubble) /\ Len(open) = n /\ n \in 1 .. Len(bubbles) + 1
      /\ \A i \in 1 .. n - 1 : i \in DOMAIN bubbles /\ open[i] = bubbles[i]
      /\ open[n].role = "assistant" /\ open[n].says = said
  <2>1. CASE View!IsStreaming(bubbles)
    BY <2>1, BubblesTyped DEF Open, SaidThere, View!IsStreaming, View!Last, Bubbles
  <2>2. CASE ~View!IsStreaming(bubbles)
    <3>1. View!StreamingAssistant \in View!Bubble /\ View!StreamingAssistant.role = "assistant"
          /\ View!StreamingAssistant.says = {}
      BY DEF View!StreamingAssistant, View!Bubble
    <3>2. open = Append(bubbles, View!StreamingAssistant) /\ n = Len(bubbles) + 1 /\ said = {}
      BY <2>2 DEF Open, SaidThere
    <3>3. PICK a \in View!Bubble : a = View!StreamingAssistant
      BY <3>1
    <3>4. /\ Append(bubbles, a) \in Bubbles /\ Len(Append(bubbles, a)) = Len(bubbles) + 1
          /\ \A i \in DOMAIN bubbles : Append(bubbles, a)[i] = bubbles[i]
          /\ Append(bubbles, a)[Len(bubbles) + 1] = a
      BY AppendedThread
    <3> HIDE DEF open, n, said
    <3> QED
      BY <3>1, <3>2, <3>3, <3>4, BubblesTyped DEF Bubbles
  <2> QED
    BY <2>1, <2>2
<1>2. DEFINE saysNow == IF state = "done" THEN saying ELSE open[n].says \cup saying
<1>3. View!UpdateLastAssistant(bubbles, state, saying) = [open EXCEPT ![n].state = state, ![n].says = saysNow]
  BY <1>1 DEF View!UpdateLastAssistant
<1>4. open[n].says \in SUBSET Sends /\ n \in DOMAIN open
  <2> HIDE DEF open, n
  <2>1. n \in DOMAIN open
    BY <1>1
  <2> QED
    BY <1>1, <2>1, BubblesTyped DEF Bubbles
<1>5. PICK b : b = [open[n] EXCEPT !.state = state, !.says = saysNow]
  OBVIOUS
<1>6. b \in View!Bubble /\ b.role = "assistant" /\ b.state = state /\ b.says = saysNow
  <2>1. open[n] \in [role : {"user", "assistant"}, says : SUBSET Sends,
                     state : {"streaming", "done", "error"}]
    BY <1>1, <1>4, BubblesTyped DEF Bubbles
  <2>2. saysNow \in SUBSET Sends
    BY <1>4
  <2> HIDE DEF open, n, saysNow
  <2> QED
    BY <1>1, <1>5, <2>1, <2>2 DEF View!Bubble
<1>7. PICK after : after = [open EXCEPT ![n] = b]
  OBVIOUS
<1>8. View!UpdateLastAssistant(bubbles, state, saying) = after
  <2> HIDE DEF open, n, saysNow
  <2> QED
    BY <1>1, <1>3, <1>4, <1>5, <1>7
<1>9. /\ after \in Seq(View!Bubble) /\ Len(after) = Len(open) /\ after[n] = b
      /\ \A i \in 1 .. n - 1 : after[i] = open[i]
  <2> HIDE DEF open, n, saysNow
  <2> QED
    BY <1>1, <1>4, <1>6, <1>7
<1> QED
  <2> HIDE DEF open
  <2> QED
    BY <1>1, <1>6, <1>8, <1>9 DEF Bubbles, Updated

(* The message whose reply a thread waits for is in front of that place.   *)
LEMMA AwaitedIsInFront ==
  ASSUME NEW bubbles \in Bubbles, NEW s
  PROVE  /\ Open(bubbles) - 1 \in 0 .. Len(bubbles)
         /\ View!AwaitsReply(bubbles, s) <=>
              Open(bubbles) - 1 > 0 /\ bubbles[Open(bubbles) - 1] = View!UserBubble(s)
BY BubblesTyped DEF View!AwaitsReply, Open, View!IsStreaming

(* A place before the end of a tidy thread is tidy in the thread after.    *)
TidyAt(bubbles, i) ==
  IF bubbles[i].role = "user" THEN \E s \in Sends : bubbles[i] = View!UserBubble(s)
  ELSE bubbles[i].says # {} =>
         i > 1 /\ bubbles[i - 1].role = "user" /\ bubbles[i - 1].says = bubbles[i].says

LEMMA TidyPrefix ==
  ASSUME NEW bubbles \in Bubbles, Tidy(bubbles), NEW after, NEW n \in 0 .. Len(bubbles),
         \A i \in 1 .. n : after[i] = bubbles[i]
  PROVE  \A i \in 1 .. n : TidyAt(after, i)
<1> SUFFICES ASSUME NEW i \in 1 .. n
             PROVE  TidyAt(after, i)
  OBVIOUS
<1>1. i \in DOMAIN bubbles /\ i \in Nat /\ n \in Nat /\ after[i] = bubbles[i]
  BY BubblesTyped
<1>2. TidyAt(bubbles, i)
  BY <1>1 DEF Tidy, TidyAt
<1>3. i > 1 => after[i - 1] = bubbles[i - 1]
  BY <1>1
<1> QED
  BY <1>1, <1>2, <1>3 DEF TidyAt

LEMMA TidySubmitted ==
  ASSUME NEW bubbles \in Bubbles, Tidy(bubbles), NEW s \in Sends
  PROVE  LET after == View!Submitted(bubbles, s)
         IN  /\ after \in Bubbles /\ Tidy(after) /\ Keeps(bubbles, after)
             /\ View!AwaitsReply(after, s)
             /\ \E i \in DOMAIN after : after[i] = View!UserBubble(s)
<1> PICK after : after = View!Submitted(bubbles, s)
  OBVIOUS
<1> PICK n : n = Len(bubbles)
  OBVIOUS
<1>1. /\ after \in Bubbles /\ Len(after) = n + 2 /\ n \in Nat /\ DOMAIN bubbles = 1 .. n
      /\ \A i \in 1 .. n : after[i] = bubbles[i]
      /\ after[n + 1] = View!UserBubble(s) /\ after[n + 2] = View!StreamingAssistant
  BY SubmittedThread, BubblesTyped
<1>2. DOMAIN after = 1 .. n + 2
  BY <1>1, BubblesTyped
<1>3. \A i \in 1 .. n : TidyAt(after, i)
  BY <1>1, TidyPrefix
<1>4. TidyAt(after, n + 1) /\ TidyAt(after, n + 2)
  BY <1>1, NewBubbles DEF TidyAt
<1>5. Tidy(after)
  <2>1. ASSUME NEW i \in DOMAIN after
        PROVE  TidyAt(after, i)
    <3>1. i \in 1 .. n \/ i = n + 1 \/ i = n + 2
      BY <1>1, <1>2
    <3> QED
      BY <3>1, <1>3, <1>4
  <2> QED
    BY <2>1 DEF Tidy, TidyAt
<1>6. Open(after) = n + 2
  BY <1>1, NewBubbles DEF Open, View!IsStreaming, View!Last
<1>7. View!AwaitsReply(after, s)
  <2>1. Open(after) - 1 = n + 1
    BY <1>1, <1>6
  <2> QED
    BY <1>1, <2>1, AwaitedIsInFront
<1> QED
  BY <1>1, <1>2, <1>5, <1>7 DEF Keeps

LEMMA TidyAppended ==
  ASSUME NEW bubbles \in Bubbles, Tidy(bubbles), NEW b \in View!Bubble, b.role = "assistant", b.says = {}
  PROVE  LET after == Append(bubbles, b)
         IN  after \in Bubbles /\ Tidy(after) /\ Keeps(bubbles, after)
<1> PICK after : after = Append(bubbles, b)
  OBVIOUS
<1> PICK n : n = Len(bubbles)
  OBVIOUS
<1>1. /\ after \in Bubbles /\ Len(after) = n + 1 /\ n \in 0 .. Len(bubbles) /\ DOMAIN bubbles = 1 .. n
      /\ \A i \in 1 .. n : after[i] = bubbles[i]
      /\ after[n + 1] = b
  BY AppendedThread, BubblesTyped
<1>2. DOMAIN after = 1 .. n + 1
  BY <1>1, BubblesTyped
<1>3. \A i \in 1 .. n : TidyAt(after, i)
  BY <1>1, TidyPrefix
<1>4. TidyAt(after, n + 1)
  BY <1>1 DEF TidyAt
<1>5. Tidy(after)
  <2>1. ASSUME NEW i \in DOMAIN after
        PROVE  TidyAt(after, i)
    <3>1. i \in 1 .. n \/ i = n + 1
      BY <1>1, <1>2
    <3> QED
      BY <3>1, <1>3, <1>4
  <2> QED
    BY <2>1 DEF Tidy, TidyAt
<1> QED
  BY <1>1, <1>2, <1>5 DEF Keeps

(* A frame of the turn a thread waits for, or one that says nothing.       *)
LEMMA TidyUpdated ==
  ASSUME NEW bubbles \in Bubbles, Tidy(bubbles), NEW state \in {"streaming", "done", "error"},
         NEW saying \in SUBSET Sends,
         \/ saying = {} /\ state # "done"
         \/ \E s \in Sends : saying = {s} /\ View!AwaitsReply(bubbles, s)
  PROVE  LET after == View!UpdateLastAssistant(bubbles, state, saying)
         IN  /\ after \in Bubbles /\ Tidy(after) /\ Keeps(bubbles, after)
             /\ state = "streaming" =>
                  \A s \in Sends : View!AwaitsReply(bubbles, s) => View!AwaitsReply(after, s)
<1> PICK after : after = View!UpdateLastAssistant(bubbles, state, saying)
  OBVIOUS
<1> PICK n : n = Open(bubbles)
  OBVIOUS
<1> PICK said : said = SaidThere(bubbles)
  OBVIOUS
<1>1. /\ after \in Bubbles /\ Len(after) = n /\ n \in 1 .. Len(bubbles) + 1
      /\ \A i \in 1 .. n - 1 : i \in DOMAIN bubbles /\ after[i] = bubbles[i]
      /\ after[n].role = "assistant" /\ after[n].state = state
      /\ after[n].says = IF state = "done" THEN saying ELSE said \cup saying
  <2>1. Updated(bubbles, after, state, saying, n, said)
    BY UpdatedThread
  <2> QED
    BY <2>1 DEF Updated
<1>2. /\ n \in Nat /\ n - 1 \in 0 .. Len(bubbles) /\ DOMAIN after = 1 .. n
      /\ DOMAIN bubbles = 1 .. Len(bubbles) /\ Len(bubbles) \in Nat
  BY <1>1, BubblesTyped
<1>3. \A i \in 1 .. n - 1 : TidyAt(after, i)
  BY <1>1, <1>2, TidyPrefix
(* What the bubble said before is what the message in front of it says.    *)
<1>4. said # {} => n > 1 /\ bubbles[n - 1].role = "user" /\ bubbles[n - 1].says = said
  <2>1. CASE View!IsStreaming(bubbles)
    <3>1. n \in DOMAIN bubbles /\ bubbles[n].role = "assistant" /\ said = bubbles[n].says
      BY <1>2, <2>1 DEF SaidThere, Open, View!IsStreaming, View!Last
    <3>2. bubbles[n].role # "user"
      BY <3>1
    <3> QED
      BY <3>1, <3>2 DEF Tidy
  <2>2. CASE ~View!IsStreaming(bubbles)
    BY <2>2 DEF SaidThere
  <2> QED
    BY <2>1, <2>2
<1>5. TidyAt(after, n)
  <2>1. n > 1 => after[n - 1] = bubbles[n - 1]
    BY <1>1, <1>2
  <2>2. CASE saying = {} /\ state # "done"
    <3>1. after[n].says = said
      BY <1>1, <2>2
    <3> QED
      BY <1>1, <1>4, <2>1, <3>1 DEF TidyAt
  <2>3. ASSUME NEW s \in Sends, saying = {s}, View!AwaitsReply(bubbles, s)
        PROVE  TidyAt(after, n)
    <3>1. n > 1 /\ bubbles[n - 1] = View!UserBubble(s)
      BY <1>2, <2>3, AwaitedIsInFront
    <3>2. bubbles[n - 1].role = "user" /\ bubbles[n - 1].says = {s}
      BY <3>1, NewBubbles
    <3>3. said = {} \/ said = {s}
      BY <1>4, <3>2
    <3>4. after[n].says = {s}
      BY <1>1, <2>3, <3>3
    <3> QED
      BY <1>1, <2>1, <3>1, <3>2, <3>4 DEF TidyAt
  <2> QED
    BY <2>2, <2>3
<1>6. Tidy(after)
  <2>1. ASSUME NEW i \in DOMAIN after
        PROVE  TidyAt(after, i)
    <3>1. i \in 1 .. n - 1 \/ i = n
      BY <1>2
    <3> QED
      BY <3>1, <1>3, <1>5
  <2> QED
    BY <2>1 DEF Tidy, TidyAt
<1>7. Keeps(bubbles, after)
  <2>1. ASSUME NEW i \in DOMAIN bubbles, bubbles[i].role = "user"
        PROVE  i \in 1 .. n - 1
    <3>1. CASE View!IsStreaming(bubbles)
      <4>1. n = Len(bubbles) /\ bubbles[n].role = "assistant"
        BY <3>1 DEF Open, View!IsStreaming, View!Last
      <4>2. i # n
        BY <2>1, <4>1
      <4> QED
        BY <1>2, <2>1, <4>1, <4>2
    <3>2. CASE ~View!IsStreaming(bubbles)
      <4>1. n = Len(bubbles) + 1
        BY <3>2 DEF Open
      <4> QED
        BY <1>2, <2>1, <4>1
    <3> QED
      BY <3>1, <3>2
  <2> QED
    BY <1>1, <1>2, <2>1 DEF Keeps
<1>8. ASSUME state = "streaming", NEW s \in Sends, View!AwaitsReply(bubbles, s)
      PROVE  View!AwaitsReply(after, s)
  <2>1. Open(after) = n
    BY <1>1, <1>2, <1>8 DEF Open, View!IsStreaming, View!Last
  <2>2. n - 1 > 0 /\ bubbles[n - 1] = View!UserBubble(s)
    BY <1>8, AwaitedIsInFront
  <2>3. after[n - 1] = bubbles[n - 1]
    BY <1>1, <1>2, <2>2
  <2> QED
    BY <1>1, <2>1, <2>2, <2>3, AwaitedIsInFront
<1> QED
  BY <1>1, <1>6, <1>7, <1>8

(* A text names its message.                                               *)
LEMMA TextNamesTurn ==
  ASSUME DistinctTexts, NEW bubbles \in Bubbles, Tidy(bubbles), NEW s \in Sends, NEW i \in DOMAIN bubbles,
         View!SaysTextOf(bubbles[i], s)
  PROVE  bubbles[i] = View!UserBubble(s)
<1>1. PICK t \in Sends : bubbles[i] = View!UserBubble(t)
  BY DEF Tidy, View!SaysTextOf
<1>2. Text[t] = Text[s]
  BY <1>1, NewBubbles DEF View!SaysTextOf
<1> QED
  BY <1>1, <1>2 DEF DistinctTexts

(* A thread that shows s and waits for its reply, and is tidy still.       *)
Waits(bubbles, after, s) ==
  /\ after \in Bubbles /\ Tidy(after) /\ Keeps(bubbles, after)
  /\ View!AwaitsReply(after, s)
  /\ \E i \in DOMAIN after : after[i] = View!UserBubble(s)

LEMMA EchoShown ==
  ASSUME DistinctTexts, NEW bubbles \in Bubbles, Tidy(bubbles), NEW s \in Sends
  PROVE  Waits(bubbles, View!ShowUserMessage(bubbles, s), s)
<1> DEFINE Optimistic == View!IsStreaming(bubbles) /\ Len(bubbles) > 1
                         /\ View!SaysTextOf(bubbles[Len(bubbles) - 1], s)
           Reloaded   == Len(bubbles) > 0 /\ View!SaysTextOf(View!Last(bubbles), s)
<1> PICK n : n = Len(bubbles)
  OBVIOUS
<1>0. n \in Nat /\ DOMAIN bubbles = 1 .. n
  BY BubblesTyped
<1>1. CASE Optimistic
  <2>1. n - 1 \in DOMAIN bubbles /\ bubbles[n - 1] = View!UserBubble(s)
    BY <1>0, <1>1, TextNamesTurn
  <2>2. View!AwaitsReply(bubbles, s)
    BY <1>0, <1>1, <2>1, AwaitedIsInFront DEF Open
  <2>3. View!ShowUserMessage(bubbles, s) = bubbles
    BY <1>1 DEF View!ShowUserMessage
  <2> QED
    BY <2>1, <2>2, <2>3 DEF Waits, Keeps
<1>2. CASE ~Optimistic /\ Reloaded
  <2>1. n \in DOMAIN bubbles /\ bubbles[n] = View!UserBubble(s)
    <3>1. n \in DOMAIN bubbles /\ View!Last(bubbles) = bubbles[n]
      BY <1>0, <1>2 DEF View!Last
    <3> QED
      BY <1>2, <3>1, TextNamesTurn
  <2>2. PICK after : after = Append(bubbles, View!StreamingAssistant)
    OBVIOUS
  <2>3. View!ShowUserMessage(bubbles, s) = after
    BY <1>2, <2>2 DEF View!ShowUserMessage
  <2>4. /\ View!StreamingAssistant \in View!Bubble /\ View!StreamingAssistant.says = {}
        /\ View!StreamingAssistant.role = "assistant" /\ View!StreamingAssistant.state = "streaming"
    BY NewBubbles
  <2>5. after \in Bubbles /\ Tidy(after) /\ Keeps(bubbles, after)
    BY <2>2, <2>4, TidyAppended
  <2>6. Len(after) = n + 1 /\ after[n] = View!UserBubble(s) /\ after[n + 1] = View!StreamingAssistant
    BY <2>1, <2>2, <2>4, AppendedThread
  <2>7. Open(after) = n + 1
    BY <1>0, <2>4, <2>6 DEF Open, View!IsStreaming, View!Last
  <2>8. Open(after) - 1 = n /\ n > 0
    BY <1>0, <2>1, <2>7
  <2>9. View!AwaitsReply(after, s)
    BY <2>5, <2>6, <2>8, AwaitedIsInFront
  <2>10. n \in DOMAIN after
    BY <1>0, <2>1, <2>5, <2>6, BubblesTyped
  <2> QED
    BY <2>3, <2>5, <2>6, <2>9, <2>10 DEF Waits
<1>3. CASE ~Optimistic /\ ~Reloaded
  <2>1. View!ShowUserMessage(bubbles, s) = View!Submitted(bubbles, s)
    BY <1>3 DEF View!ShowUserMessage
  <2> QED
    BY <2>1, TidySubmitted DEF Waits
<1> QED
  BY <1>1, <1>2, <1>3

(* A frame reaches a thread that has followed the stream up to it.         *)
Followed(bubbles, after, entry) ==
  /\ after \in Bubbles /\ Tidy(after) /\ Keeps(bubbles, after)
  /\ Unended(entry) => View!AwaitsReply(after, entry.turn)
  /\ \E i \in DOMAIN after : after[i] = View!UserBubble(entry.turn)

LEMMA LiveEvent ==
  ASSUME DistinctTexts, NEW bubbles \in Bubbles, Tidy(bubbles), NEW entry \in Entry,
         entry.type # "PersistenceFailed",
         entry.type # "UserMessage" => View!AwaitsReply(bubbles, entry.turn)
  PROVE  Followed(bubbles, View!ApplyLiveEvent(bubbles, entry), entry)
<1> PICK after : after = View!ApplyLiveEvent(bubbles, entry)
  OBVIOUS
<1> PICK s \in Sends : s = entry.turn
  BY DEF Entry
<1>1. entry.type \in {"UserMessage", "Delta", "MessageDone", "Error"}
  BY DEF Entry
<1>2. CASE entry.type = "UserMessage"
  <2>1. after = View!ShowUserMessage(bubbles, s)
    BY <1>2 DEF View!ApplyLiveEvent
  <2>2. Waits(bubbles, after, s)
    BY <2>1, EchoShown
  <2> QED
    BY <2>2 DEF Waits, Followed
<1>3. ASSUME View!AwaitsReply(bubbles, s), NEW state \in {"streaming", "done", "error"}, NEW saying \in SUBSET Sends,
             saying = {s} \/ (saying = {} /\ state # "done"),
             after = View!UpdateLastAssistant(bubbles, state, saying),
             Unended(entry) => state = "streaming"
      PROVE  Followed(bubbles, after, entry)
  <2>1. /\ after \in Bubbles /\ Tidy(after) /\ Keeps(bubbles, after)
        /\ state = "streaming" => View!AwaitsReply(after, s)
    BY <1>3, TidyUpdated
  <2>2. PICK k \in DOMAIN bubbles : bubbles[k] = View!UserBubble(s)
    BY <1>3, AwaitedIsInFront, BubblesTyped
  <2>3. k \in DOMAIN after /\ after[k] = View!UserBubble(s)
    BY <2>1, <2>2, NewBubbles DEF Keeps
  <2> QED
    BY <1>3, <2>1, <2>3 DEF Followed
<1>4. CASE entry.type = "Delta"
  <2>1. after = View!UpdateLastAssistant(bubbles, "streaming", {s})
    BY <1>4 DEF View!ApplyLiveEvent
  <2> QED
    BY <1>3, <1>4, <2>1
<1>5. CASE entry.type = "MessageDone"
  <2>1. after = View!UpdateLastAssistant(bubbles, "done", {s}) /\ ~Unended(entry)
    BY <1>5 DEF View!ApplyLiveEvent, Unended
  <2> QED
    BY <1>3, <1>5, <2>1
<1>6. CASE entry.type = "Error"
  <2>1. after = View!UpdateLastAssistant(bubbles, "error", {}) /\ ~Unended(entry)
    BY <1>6 DEF View!ApplyLiveEvent, View!MarkLastAssistantErrored, Unended
  <2> QED
    BY <1>3, <1>6, <2>1
<1> QED
  BY <1>1, <1>2, <1>4, <1>5, <1>6

(* A thread loaded from the rows shows every message.                      *)
History(after) ==
  /\ after \in Bubbles /\ Tidy(after)
  /\ \A i \in DOMAIN messages : messages[i].role = "user" =>
       i \in DOMAIN after /\ after[i] = View!UserBubble(messages[i].turn)

LEMMA HistoryShown ==
  ASSUME TypeOK, RepliesFollowTheirMessage
  PROVE  History(View!MergeHistory(<< >>, View!Replay(messages, failures)))
<1> DEFINE rows == [i \in DOMAIN messages |->
                      [role |-> messages[i].role, says |-> {messages[i].turn}, state |-> "done"]]
<1> PICK replay : replay = View!Replay(messages, failures)
  OBVIOUS
<1>1. /\ messages \in Seq(Row) /\ Len(messages) \in Nat /\ DOMAIN messages = 1 .. Len(messages)
      /\ \A i \in DOMAIN messages : messages[i].role \in {"user", "assistant"} /\ messages[i].turn \in Sends
  <2>1. /\ messages \in Seq(Row) /\ Len(messages) \in Nat /\ DOMAIN messages = 1 .. Len(messages)
        /\ \A i \in DOMAIN messages : messages[i] \in Row
    BY DEF TypeOK, StoreTypeOK
  <2> QED
    BY <2>1 DEF Row
<1>2. /\ rows \in Bubbles /\ DOMAIN rows = DOMAIN messages
      /\ \A i \in DOMAIN messages : /\ rows[i].role = messages[i].role /\ rows[i].says = {messages[i].turn}
                                    /\ messages[i].role = "user" => rows[i] = View!UserBubble(messages[i].turn)
  <2>1. rows \in [1 .. Len(messages) -> View!Bubble]
    BY <1>1 DEF View!Bubble
  <2>2. rows \in Bubbles
    BY <1>1, <2>1 DEF Bubbles
  <2> QED
    BY <2>2, <1>1 DEF View!UserBubble
<1>3. Tidy(rows)
  <2> SUFFICES ASSUME NEW i \in DOMAIN messages
               PROVE  TidyAt(rows, i)
    BY <1>2 DEF Tidy, TidyAt
  <2>1. CASE messages[i].role = "user"
    BY <1>1, <1>2, <2>1 DEF TidyAt
  <2>2. CASE messages[i].role = "assistant"
    <3>1. i > 1 /\ messages[i - 1] = [role |-> "user", turn |-> messages[i].turn]
      BY <2>2 DEF RepliesFollowTheirMessage
    <3>2. i - 1 \in DOMAIN messages /\ messages[i - 1].role = "user" /\ messages[i - 1].turn = messages[i].turn
      BY <1>1, <3>1
    <3> HIDE DEF rows
    <3>3. rows[i].role = "assistant" /\ rows[i].says = {messages[i].turn}
      BY <1>2, <2>2
    <3>4. rows[i - 1].role = "user" /\ rows[i - 1].says = {messages[i].turn}
      BY <1>2, <3>2
    <3> QED
      BY <3>1, <3>3, <3>4 DEF TidyAt
  <2> QED
    BY <1>1, <2>1, <2>2
<1>4. replay = rows \/ replay = Append(rows, View!ErrorBubble)
  BY DEF View!Replay
<1>5. History(replay)
  <2> HIDE DEF rows
  <2>1. CASE replay = rows
    BY <1>2, <1>3, <2>1 DEF History
  <2>2. CASE replay = Append(rows, View!ErrorBubble)
    <3>1. replay \in Bubbles /\ Tidy(replay) /\ Keeps(rows, replay)
      <4>1. View!ErrorBubble \in View!Bubble /\ View!ErrorBubble.role = "assistant"
            /\ View!ErrorBubble.says = {}
        BY DEF View!ErrorBubble, View!Bubble
      <4>2. PICK b \in View!Bubble : b = View!ErrorBubble
        BY <4>1
      <4> QED
        BY <1>2, <1>3, <2>2, <4>1, <4>2, TidyAppended
    <3> QED
      BY <1>2, <3>1 DEF History, Keeps
  <2> QED
    BY <1>4, <2>1, <2>2
<1>6. View!MergeHistory(<< >>, replay) = replay \o << >>
  BY DEF View!MergeHistory
<1>7. replay \o << >> = replay
  BY <1>5, ConcatEmptySeq DEF History, Bubbles
<1> QED
  BY <1>5, <1>6, <1>7

-----------------------------------------------------------------------------
(* What the windows' steps do to what they show.                           *)

(* All that is known of the backend.                                       *)
ChatInv ==
  /\ TypeOK /\ SerialInv /\ ReplayInv /\ StreamInv
  /\ EverythingIsAboutASavedMessage /\ RepliesFollowTheirMessage

LEMMA LogTyped ==
  ASSUME TypeOK
  PROVE  /\ Len(log) \in Nat /\ DOMAIN log = 1 .. Len(log)
         /\ \A i \in DOMAIN log : log[i] \in Entry /\ log[i].turn \in Sends
<1>1. log \in Seq(Entry)
  BY DEF TypeOK, StoreTypeOK
<1>2. Len(log) \in Nat /\ DOMAIN log = 1 .. Len(log) /\ \A i \in DOMAIN log : log[i] \in Entry
  BY <1>1
<1> QED
  BY <1>2 DEF Entry

(* The stream only grows at its end.                                       *)
LEMMA LogKept ==
  ASSUME TypeOK, [Next]_vars
  PROVE  /\ Len(log') \in Nat /\ Len(log) <= Len(log')
         /\ \A i \in DOMAIN log : log'[i] = log[i]
<1>1. TypeOK'
  BY TypeStep
<1>2. Len(log') \in Nat /\ DOMAIN log' = 1 .. Len(log')
  BY <1>1 DEF TypeOK, StoreTypeOK
<1>3. ASSUME NEW i \in DOMAIN log
      PROVE  log'[i] = log[i]
  <2>1. i \in DOMAIN log' /\ i # Len(log) + 1
    BY <1>2, <1>3, LogTyped, LogGrows
  <2> QED
    BY <2>1, LogGrows
<1> QED
  BY <1>2, <1>3, LogGrows

(* WindowInv, of what a step leaves in a window.                           *)
LEMMA WindowAfter ==
  ASSUME NEW w \in Windows,
         NEW after, after = thread'[w], NEW entries, entries = log', NEW read, read = position'[w],
         NEW connected \in BOOLEAN, connected <=> view'[w] = "open" \/ got'[w],
         view'[w] = "blank" => after = << >> /\ read = 0 /\ ~got'[w] /\ ~intact'[w],
         intact'[w] => Tidy(after) /\ Follows(after, entries, read, connected)
  PROVE  WindowInv(w)'
BY DEF WindowInv, Tidy, Follows, Unended, View!AwaitsReply, View!UserBubble, View!IsStreaming, View!Last

(* A window whose thread does not change and that does not connect.        *)
LEMMA WindowRests ==
  ASSUME TypeOK, [Next]_vars, WatchTypeOK, NEW w \in Windows, WindowInv(w),
         thread'[w] = thread[w], position'[w] = position[w],
         view'[w] = "blank" => view[w] = "blank",
         view'[w] = "open" => view[w] = "open", got'[w] => got[w], intact'[w] => intact[w]
  PROVE  WindowInv(w)'
<1> PICK bubbles : bubbles = thread[w]
  OBVIOUS
<1> PICK entries : entries = log
  OBVIOUS
<1> PICK after : after = log'
  OBVIOUS
<1> PICK read \in Nat : read = position[w]
  BY DEF WatchTypeOK
<1> PICK was \in BOOLEAN : was <=> view[w] = "open" \/ got[w]
  OBVIOUS
<1> PICK is \in BOOLEAN : is <=> view'[w] = "open" \/ got'[w]
  OBVIOUS
<1>1. Len(entries) \in Nat /\ Len(after) \in Nat /\ Len(entries) <= Len(after)
      /\ \A i \in 1 .. Len(entries) : after[i] = entries[i]
  BY LogTyped, LogKept
<1>2. ASSUME intact[w]
      PROVE  Tidy(bubbles) /\ Follows(bubbles, entries, read, was)
  BY <1>2 DEF WindowInv
<1>3. ASSUME Follows(bubbles, entries, read, was)
      PROVE  Follows(bubbles, after, read, is)
  BY <1>1, <1>3, SMTT(30) DEF Follows
<1>4. view[w] = "blank" => bubbles = << >> /\ read = 0 /\ ~got[w] /\ ~intact[w]
  BY DEF WindowInv
<1> QED
  BY <1>2, <1>3, <1>4, WindowAfter

WatchInv == WatchTypeOK /\ ThreadsInv

Posts == {"unsent", "sent", "answered"}

(* No window does anything.                                                *)
LEMMA NoWindowSteps ==
  ASSUME TypeOK, [Next]_vars, WatchInv, UNCHANGED winVars
  PROVE  WatchInv'
<1>1. WatchTypeOK'
  BY DEF WatchInv, WatchTypeOK, winVars, View!Bubble
<1>2. ASSUME NEW w \in Windows
      PROVE  WindowInv(w)'
  <2>1. WindowInv(w) /\ WatchTypeOK
    BY DEF WatchInv, ThreadsInv
  <2> QED
    BY <2>1, WindowRests DEF winVars
<1>3. \A s \in Sends : post'[s] # "unsent" => view'[Sender[s]] # "blank"
  BY DEF WatchInv, ThreadsInv, winVars
<1> QED
  BY <1>1, <1>2, <1>3 DEF WatchInv, ThreadsInv

(* One window does.                                                        *)
LEMMA WindowSteps ==
  ASSUME TypeOK, [Next]_vars, WatchInv, NEW w \in Windows,
         NEW after \in Bubbles, thread' = [thread EXCEPT ![w] = after],
         NEW seen \in Views \ {"blank"}, view' = [view EXCEPT ![w] = seen],
         NEW read \in Nat, position' = [position EXCEPT ![w] = read],
         NEW has \in BOOLEAN, got' = [got EXCEPT ![w] = has],
         NEW whole \in BOOLEAN, intact' = [intact EXCEPT ![w] = whole],
         busy' \in [Windows -> BOOLEAN], post' \in [Sends -> Posts],
         \A s \in Sends : post'[s] # "unsent" => post[s] # "unsent" \/ Sender[s] = w,
         NEW entries, entries = log', NEW connected \in BOOLEAN, connected <=> seen = "open" \/ has,
         whole => Tidy(after) /\ Follows(after, entries, read, connected)
  PROVE  WatchInv'
<1>1. /\ view \in [Windows -> Views] /\ thread \in [Windows -> Bubbles] /\ position \in [Windows -> Nat]
      /\ got \in [Windows -> BOOLEAN] /\ intact \in [Windows -> BOOLEAN]
  BY DEF WatchInv, WatchTypeOK, Bubbles
<1>2. /\ view' \in [Windows -> Views] /\ thread' \in [Windows -> Bubbles] /\ position' \in [Windows -> Nat]
      /\ got' \in [Windows -> BOOLEAN] /\ intact' \in [Windows -> BOOLEAN]
  BY <1>1
<1>3. WatchTypeOK'
  BY <1>2 DEF WatchTypeOK, Bubbles, Posts, View!Bubble
<1>4. /\ view'[w] = seen /\ thread'[w] = after /\ position'[w] = read /\ got'[w] = has /\ intact'[w] = whole
  BY <1>1
<1>5. ASSUME NEW v \in Windows, v # w
      PROVE  WindowInv(v)'
  <2>1. WindowInv(v) /\ WatchTypeOK
    BY DEF WatchInv, ThreadsInv
  <2>2. /\ view'[v] = view[v] /\ thread'[v] = thread[v] /\ position'[v] = position[v] /\ got'[v] = got[v]
        /\ intact'[v] = intact[v]
    BY <1>1, <1>5
  <2> QED
    BY <2>1, <2>2, WindowRests
<1>6. WindowInv(w)'
  BY <1>4, WindowAfter
<1>7. ASSUME NEW s \in Sends, post'[s] # "unsent"
      PROVE  view'[Sender[s]] # "blank"
  <2>1. Sender[s] \in Windows
    BY WindowsAssumption
  <2>2. CASE Sender[s] = w
    BY <1>4, <2>2
  <2>3. CASE Sender[s] # w
    <3>1. view[Sender[s]] # "blank"
      BY <1>7, <2>3 DEF WatchInv, ThreadsInv
    <3> QED
      BY <1>1, <2>1, <2>3, <3>1
  <2> QED
    BY <2>2, <2>3
<1> QED
  BY <1>3, <1>5, <1>6, <1>7 DEF WatchInv, ThreadsInv

(* A window that changes its connection and not its thread.                *)
LEMMA WindowMoves ==
  ASSUME TypeOK, [Next]_vars, UNCHANGED log, WatchInv, NEW w \in Windows,
         UNCHANGED << thread, position >>,
         NEW seen \in Views \ {"blank"}, view' = [view EXCEPT ![w] = seen], seen = "open" => view[w] = "open",
         NEW has \in BOOLEAN, got' = [got EXCEPT ![w] = has], has => got[w],
         NEW whole \in BOOLEAN, intact' = [intact EXCEPT ![w] = whole], whole => intact[w],
         busy' \in [Windows -> BOOLEAN], post' \in [Sends -> Posts],
         \A s \in Sends : post'[s] # "unsent" => post[s] # "unsent" \/ Sender[s] = w
  PROVE  WatchInv'
<1>1. thread \in [Windows -> Bubbles] /\ position \in [Windows -> Nat]
  BY DEF WatchInv, WatchTypeOK, Bubbles
<1>2. PICK after \in Bubbles : after = thread[w]
  BY <1>1
<1>3. PICK read \in Nat : read = position[w]
  BY <1>1
<1>4. thread' = [thread EXCEPT ![w] = after] /\ position' = [position EXCEPT ![w] = read]
  BY <1>1, <1>2, <1>3
<1>5. PICK entries : entries = log'
  OBVIOUS
<1>6. PICK was \in BOOLEAN : was <=> view[w] = "open" \/ got[w]
  OBVIOUS
<1>7. PICK is \in BOOLEAN : is <=> seen = "open" \/ has
  OBVIOUS
<1>8. whole => Tidy(after) /\ Follows(after, entries, read, was)
  BY <1>2, <1>3, <1>5, <1>6 DEF WatchInv, ThreadsInv, WindowInv
<1>9. whole => Tidy(after) /\ Follows(after, entries, read, is)
  BY <1>6, <1>7, <1>8 DEF Follows
<1> QED
  BY <1>4, <1>5, <1>7, <1>9, WindowSteps, ZenonT(30)

LEMMA MoveStep ==
  ASSUME TypeOK, [Next]_vars, WatchInv, NEW w \in Windows, Drop(w) \/ Leave(w) \/ Return(w)
  PROVE  WatchInv'
<1>1. /\ view \in [Windows -> Views] /\ busy \in [Windows -> BOOLEAN] /\ got \in [Windows -> BOOLEAN]
      /\ intact \in [Windows -> BOOLEAN] /\ post \in [Sends -> Posts]
  BY DEF WatchInv, WatchTypeOK, Posts
<1>2. UNCHANGED << log, thread, position, intact, post >>
  BY DEF Drop, Leave, Return, vars, storeVars
<1>3. busy' \in [Windows -> BOOLEAN]
  BY <1>1 DEF Drop, Leave, Return, SetBusy
<1>4. intact' = [intact EXCEPT ![w] = intact[w]] /\ intact[w] \in BOOLEAN
  BY <1>1, <1>2
<1>5. CASE Drop(w) \/ Return(w)
  <2>1. view' = [view EXCEPT ![w] = "connecting"] /\ "connecting" \in Views \ {"blank"}
    BY <1>5 DEF Drop, Return, Goes, Views
  <2>2. PICK has \in BOOLEAN : got' = [got EXCEPT ![w] = has] /\ (has => got[w])
    <3>1. CASE Drop(w)
      <4>1. got' = [got EXCEPT ![w] = got[w]] /\ got[w] \in BOOLEAN
        BY <1>1, <3>1 DEF Drop
      <4> QED
        BY <4>1
    <3>2. CASE Return(w)
      BY <3>2 DEF Return
    <3> QED
      BY <1>5, <3>1, <3>2
  <2> QED
    BY <1>1, <1>2, <1>3, <1>4, <2>1, <2>2, WindowMoves
<1>6. CASE Leave(w)
  <2>1. view' = [view EXCEPT ![w] = "away"] /\ "away" \in Views \ {"blank"}
    BY <1>6 DEF Leave, Goes, Views
  <2>2. got' = [got EXCEPT ![w] = got[w]] /\ got[w] \in BOOLEAN
    BY <1>1, <1>6 DEF Leave
  <2> QED
    BY <1>1, <1>2, <1>3, <1>4, <2>1, <2>2, WindowMoves
<1> QED
  BY <1>5, <1>6

(* Where the composer is free, the thread's end waits for no turn.         *)
LEMMA AnsweredAwaitsNone ==
  ASSUME NEW bubbles \in Bubbles, View!Answered(bubbles), NEW s \in Sends
  PROVE  ~View!AwaitsReply(bubbles, s)
<1> SUFFICES ASSUME View!AwaitsReply(bubbles, s)
             PROVE  FALSE
  OBVIOUS
<1>1. Open(bubbles) - 1 > 0 /\ bubbles[Open(bubbles) - 1] = View!UserBubble(s)
  BY AwaitedIsInFront
<1>2. Len(bubbles) \in Nat
  BY BubblesTyped
<1>3. ~View!IsStreaming(bubbles) /\ View!Last(bubbles).role = "assistant"
  BY <1>1, <1>2 DEF Open, View!Answered, View!IsStreaming
<1>4. Open(bubbles) - 1 = Len(bubbles)
  BY <1>2, <1>3 DEF Open
<1> QED
  BY <1>1, <1>3, <1>4, NewBubbles DEF View!Last

(* What a window has read, as a turn.                                      *)
LEMMA ReadTyped ==
  ASSUME TypeOK, NEW entries, entries = log, NEW read \in Nat, read > 0, read <= Len(entries)
  PROVE  entries[read] \in Entry /\ entries[read].turn \in Sends
BY LogTyped

(* Shown messages stay, so a thread follows the stream after a change that  *)
(* leaves the end of the turn that is read as it has to be.                *)
LEMMA FollowsStill ==
  ASSUME NEW bubbles, NEW after, Keeps(bubbles, after), NEW entries, NEW read, NEW was, NEW is,
         Follows(bubbles, entries, read, was),
         is /\ read > 0 /\ Unended(entries[read]) => View!AwaitsReply(after, entries[read].turn)
  PROVE  Follows(after, entries, read, is)
<1>1. ASSUME NEW i \in 1 .. read
      PROVE  \E k \in DOMAIN after : after[k] = View!UserBubble(entries[i].turn)
  <2>1. PICK k \in DOMAIN bubbles : bubbles[k] = View!UserBubble(entries[i].turn)
    BY <1>1 DEF Follows
  <2>2. bubbles[k].role = "user"
    BY <2>1 DEF View!UserBubble
  <2> QED
    BY <2>1, <2>2 DEF Keeps
<1> QED
  BY <1>1 DEF Follows

LEMMA MintStep ==
  ASSUME TypeOK, [Next]_vars, WatchInv, NEW s \in Sends, Mint(s)
  PROVE  WatchInv'
<1> PICK w \in Windows : w = Sender[s]
  BY WindowsAssumption
<1>1. /\ view \in [Windows -> Views] /\ busy \in [Windows -> BOOLEAN] /\ got \in [Windows -> BOOLEAN]
      /\ intact \in [Windows -> BOOLEAN] /\ post \in [Sends -> Posts] /\ position \in [Windows -> Nat]
  BY DEF WatchInv, WatchTypeOK, Posts
<1>2. thread[w] = << >> /\ position[w] = 0 /\ ~got[w]
  BY DEF Mint, WatchInv, ThreadsInv, WindowInv
<1>3. << >> \in Bubbles /\ Tidy(<< >>)
  BY EmptySeq DEF Bubbles, Tidy
<1>4. PICK after \in Bubbles : after = View!Submitted(<< >>, s) /\ Tidy(after)
  BY <1>3, TidySubmitted
<1>5. /\ thread' = [thread EXCEPT ![w] = after]
      /\ view' = [view EXCEPT ![w] = "minted"]
      /\ intact' = [intact EXCEPT ![w] = TRUE]
      /\ UNCHANGED << log, position, got >>
  BY <1>2, <1>4 DEF Mint, Show, Goes, vars, storeVars
<1>6. position' = [position EXCEPT ![w] = 0] /\ got' = [got EXCEPT ![w] = FALSE]
  BY <1>1, <1>2, <1>5
<1>7. busy' \in [Windows -> BOOLEAN] /\ post' \in [Sends -> Posts]
  BY <1>1 DEF Mint, SetBusy, Posts
<1>8. \A t \in Sends : post'[t] # "unsent" => post[t] # "unsent" \/ Sender[t] = w
  BY <1>1 DEF Mint
<1>9. PICK entries : entries = log'
  OBVIOUS
<1>10. 0 <= Len(entries)
  BY <1>5, <1>9, LogTyped
<1>11. Follows(after, entries, 0, FALSE)
  BY <1>10 DEF Follows
<1>12. "minted" \in Views \ {"blank"}
  BY DEF Views
<1> QED
  BY <1>4, <1>5, <1>6, <1>7, <1>8, <1>9, <1>11, <1>12, WindowSteps, ZenonT(30)

LEMMA SubmitStep ==
  ASSUME TypeOK, [Next]_vars, WatchInv, NEW s \in Sends, Submit(s)
  PROVE  WatchInv'
<1> PICK w \in Windows : w = Sender[s]
  BY WindowsAssumption
<1>1. /\ view \in [Windows -> Views] /\ busy \in [Windows -> BOOLEAN] /\ got \in [Windows -> BOOLEAN]
      /\ intact \in [Windows -> BOOLEAN] /\ post \in [Sends -> Posts] /\ position \in [Windows -> Nat]
      /\ thread \in [Windows -> Bubbles]
  BY DEF WatchInv, WatchTypeOK, Posts, Bubbles
<1>2. PICK bubbles \in Bubbles : bubbles = thread[w]
  BY <1>1
<1>3. PICK after \in Bubbles : after = View!Submitted(bubbles, s)
  BY SubmittedThread
<1>4. PICK seen \in Views \ {"blank"} :
        /\ view' = [view EXCEPT ![w] = seen] /\ (seen = "open" <=> view[w] = "open")
  <2> "open" \in Views \ {"blank"} /\ "connecting" \in Views \ {"blank"}
    BY DEF Views
  <2>1. CASE view[w] = "open"
    <3>1. view' = [view EXCEPT ![w] = "open"]
      BY <1>1, <2>1 DEF Submit
    <3> QED
      BY <2>1, <3>1
  <2>2. CASE view[w] # "open"
    <3>1. view' = [view EXCEPT ![w] = "connecting"]
      BY <2>2 DEF Submit
    <3> QED
      BY <2>2, <3>1
  <2> QED
    BY <2>1, <2>2
<1>5. PICK whole \in BOOLEAN : whole <=> intact[w] /\ View!Answered(bubbles)
  OBVIOUS
<1>6. PICK entries : entries = log'
  OBVIOUS
<1>7. PICK read \in Nat : read = position[w]
  BY <1>1
<1>8. PICK has \in BOOLEAN : has = got[w]
  BY <1>1
<1>9. PICK is \in BOOLEAN : is <=> seen = "open" \/ has
  OBVIOUS
<1>10. /\ thread' = [thread EXCEPT ![w] = after]
       /\ UNCHANGED << log, position, got >>
  BY <1>2, <1>3 DEF Submit, Show, vars, storeVars
<1>11. position' = [position EXCEPT ![w] = read] /\ got' = [got EXCEPT ![w] = has]
  BY <1>1, <1>7, <1>8, <1>10
<1>12. intact' = [intact EXCEPT ![w] = whole]
  <2>1. whole = (intact[w] /\ View!Answered(bubbles))
    BY <1>1, <1>5
  <2> QED
    BY <1>2, <2>1 DEF Submit
<1>13. busy' \in [Windows -> BOOLEAN] /\ post' \in [Sends -> Posts]
  BY <1>1 DEF Submit, SetBusy, Posts
<1>14. \A t \in Sends : post'[t] # "unsent" => post[t] # "unsent" \/ Sender[t] = w
  BY <1>1 DEF Submit
<1>15. ASSUME whole
       PROVE  Tidy(after) /\ Follows(after, entries, read, is)
  <2>1. Tidy(bubbles) /\ Follows(bubbles, entries, read, is)
    <3>1. Tidy(bubbles) /\ Follows(bubbles, log, read, view[w] = "open" \/ got[w])
      BY <1>2, <1>5, <1>7, <1>15 DEF WatchInv, ThreadsInv, WindowInv
    <3> QED
      BY <1>4, <1>6, <1>8, <1>9, <1>10, <3>1 DEF Follows
  <2>2. Tidy(after) /\ Keeps(bubbles, after)
    BY <1>3, <2>1, TidySubmitted
  <2>3. ~(is /\ read > 0 /\ Unended(entries[read]))
    <3> SUFFICES ASSUME is, read > 0, Unended(entries[read])
                 PROVE  FALSE
      OBVIOUS
    <3>1. entries[read].turn \in Sends
      BY <1>6, <1>10, <2>1, ReadTyped DEF Follows
    <3>2. View!AwaitsReply(bubbles, entries[read].turn)
      BY <2>1 DEF Follows
    <3> QED
      BY <1>5, <1>15, <3>1, <3>2, AnsweredAwaitsNone
  <2> QED
    BY <2>1, <2>2, <2>3, FollowsStill
<1> QED
  BY <1>4, <1>6, <1>9, <1>10, <1>11, <1>12, <1>13, <1>14, <1>15, WindowSteps, ZenonT(30)

(* The answer of a refused request may mark a bubble: its own, or none     *)
(* that waits for a turn.                                                  *)
LEMMA RefusedTurnIsUnread ==
  ASSUME TypeOK, StreamInv, NEW s \in Sends, sendPc[s] \in SendAnswers \ {"accepted"},
         NEW i \in DOMAIN log
  PROVE  log[i].turn # s
BY DEF StreamInv, InOrder, SendAnswers

LEMMA RefusalStep ==
  ASSUME ChatInv, [Next]_vars, WatchInv, NEW s \in Sends, PostAnswered(s),
         sendPc[s] # "accepted", view[Sender[s]] # "away"
  PROVE  WatchInv'
<1> PICK w \in Windows : w = Sender[s]
  BY WindowsAssumption
<1>1. /\ view \in [Windows -> Views] /\ busy \in [Windows -> BOOLEAN] /\ got \in [Windows -> BOOLEAN]
      /\ intact \in [Windows -> BOOLEAN] /\ post \in [Sends -> Posts] /\ position \in [Windows -> Nat]
      /\ thread \in [Windows -> Bubbles]
  BY DEF WatchInv, WatchTypeOK, Posts, Bubbles
<1>2. PICK bubbles \in Bubbles : bubbles = thread[w]
  BY <1>1
<1>3. PICK after \in Bubbles : after = View!UpdateLastAssistant(bubbles, "error", {})
  BY UpdatedThread DEF Updated
<1>4. PICK whole \in BOOLEAN :
        whole <=> intact[w] /\ (View!AwaitsReply(bubbles, s) \/ View!Answered(bubbles))
  OBVIOUS
<1>5. PICK seen \in Views \ {"blank"} : seen = view[w]
  BY <1>1 DEF PostAnswered, WatchInv, ThreadsInv
<1>6. PICK entries : entries = log'
  OBVIOUS
<1>7. PICK read \in Nat : read = position[w]
  BY <1>1
<1>8. PICK has \in BOOLEAN : has = got[w]
  BY <1>1
<1>9. PICK is \in BOOLEAN : is <=> seen = "open" \/ has
  OBVIOUS
<1>10. /\ thread' = [thread EXCEPT ![w] = after]
       /\ UNCHANGED << log, view, position, got >>
  BY <1>2, <1>3 DEF PostAnswered, Show, View!MarkLastAssistantErrored, vars, storeVars
<1>11. /\ position' = [position EXCEPT ![w] = read] /\ got' = [got EXCEPT ![w] = has]
       /\ view' = [view EXCEPT ![w] = seen]
  BY <1>1, <1>5, <1>7, <1>8, <1>10
<1>12. intact' = [intact EXCEPT ![w] = whole]
  <2>1. whole = (intact[w] /\ (sendPc[s] = "accepted" \/ RefusalIsIts(w, s)))
    BY <1>1, <1>2, <1>4 DEF RefusalIsIts
  <2> QED
    BY <2>1 DEF PostAnswered
<1>13. busy' \in [Windows -> BOOLEAN] /\ post' \in [Sends -> Posts]
  BY <1>1 DEF PostAnswered, SetBusy, Posts
<1>14. \A t \in Sends : post'[t] # "unsent" => post[t] # "unsent" \/ Sender[t] = w
  BY <1>1 DEF PostAnswered
<1>15. ASSUME whole
       PROVE  Tidy(after) /\ Follows(after, entries, read, is)
  <2>1. Tidy(bubbles) /\ Follows(bubbles, entries, read, is)
    <3>1. Tidy(bubbles) /\ Follows(bubbles, log, read, view[w] = "open" \/ got[w])
      BY <1>2, <1>4, <1>7, <1>15 DEF WatchInv, ThreadsInv, WindowInv
    <3> QED
      BY <1>5, <1>6, <1>8, <1>9, <1>10, <3>1 DEF Follows
  <2>2. Tidy(after) /\ Keeps(bubbles, after)
    BY <1>3, <2>1, TidyUpdated
  <2>3. ~(is /\ read > 0 /\ Unended(entries[read]))
    <3> SUFFICES ASSUME is, read > 0, Unended(entries[read])
                 PROVE  FALSE
      OBVIOUS
    <3>1. PICK t \in Sends : t = entries[read].turn
      BY <1>6, <1>10, <2>1, ReadTyped DEF ChatInv, Follows
    <3>2. View!AwaitsReply(bubbles, t)
      BY <2>1, <3>1 DEF Follows
    <3>3. CASE View!Answered(bubbles)
      BY <3>2, <3>3, AnsweredAwaitsNone
    <3>4. CASE View!AwaitsReply(bubbles, s)
      <4>1. s = t
        BY <3>2, <3>4, AwaitedIsInFront, NewBubbles
      <4>2. read \in DOMAIN log /\ log[read].turn = t
        BY <1>6, <1>10, <2>1, <3>1, LogTyped DEF ChatInv, Follows
      <4> QED
        BY <4>1, <4>2, RefusedTurnIsUnread DEF PostAnswered, ChatInv
    <3> QED
      BY <1>4, <1>15, <3>3, <3>4
  <2> QED
    BY <2>1, <2>2, <2>3, FollowsStill
<1> QED
  BY <1>5, <1>6, <1>9, <1>10, <1>11, <1>12, <1>13, <1>14, <1>15, WindowSteps, ZenonT(30) DEF ChatInv

LEMMA AnswerStep ==
  ASSUME ChatInv, [Next]_vars, WatchInv, NEW s \in Sends, PostAnswered(s)
  PROVE  WatchInv'
<1>1. CASE sendPc[s] # "accepted" /\ view[Sender[s]] # "away"
  BY <1>1, RefusalStep
<1>2. CASE sendPc[s] = "accepted" \/ view[Sender[s]] = "away"
  <2> PICK w \in Windows : w = Sender[s]
    BY WindowsAssumption
  <2>1. /\ view \in [Windows -> Views] /\ busy \in [Windows -> BOOLEAN] /\ got \in [Windows -> BOOLEAN]
        /\ intact \in [Windows -> BOOLEAN] /\ post \in [Sends -> Posts]
    BY DEF WatchInv, WatchTypeOK, Posts
  <2>2. UNCHANGED << log, thread, position, got, busy >>
    BY <1>2 DEF PostAnswered, vars, storeVars
  <2>3. PICK seen \in Views \ {"blank"} :
          view' = [view EXCEPT ![w] = seen] /\ (seen = "open" => view[w] = "open")
    <3>1. view[w] # "blank"
      BY DEF PostAnswered, WatchInv, ThreadsInv
    <3>2. CASE sendPc[s] = "accepted" /\ view[w] = "minted"
      <4>1. view' = [view EXCEPT ![w] = "connecting"] /\ "connecting" \in Views \ {"blank"}
        BY <3>2 DEF PostAnswered, Views
      <4> QED
        BY <4>1
    <3>3. CASE ~(sendPc[s] = "accepted" /\ view[w] = "minted")
      <4>1. view' = [view EXCEPT ![w] = view[w]] /\ view[w] \in Views \ {"blank"}
        BY <2>1, <3>1, <3>3 DEF PostAnswered
      <4> QED
        BY <4>1
    <3> QED
      BY <3>2, <3>3
  <2>4. PICK has \in BOOLEAN : has = got[w]
    BY <2>1
  <2>5. got' = [got EXCEPT ![w] = has]
    BY <2>1, <2>2, <2>4
  <2>6. PICK whole \in BOOLEAN :
          whole = (intact[w] /\ (sendPc[s] = "accepted" \/ RefusalIsIts(w, s)))
    BY <2>1
  <2>7. intact' = [intact EXCEPT ![w] = whole] /\ (whole => intact[w])
    BY <2>6 DEF PostAnswered
  <2>8. busy' \in [Windows -> BOOLEAN] /\ post' \in [Sends -> Posts]
    BY <2>1, <2>2 DEF PostAnswered, Posts
  <2>9. \A t \in Sends : post'[t] # "unsent" => post[t] # "unsent" \/ Sender[t] = w
    BY <2>1 DEF PostAnswered
  <2> QED
    BY <2>2, <2>3, <2>4, <2>5, <2>7, <2>8, <2>9, WindowMoves, ZenonT(30) DEF ChatInv
<1> QED
  BY <1>1, <1>2

LEMMA LoadStep ==
  ASSUME ChatInv, [Next]_vars, WatchInv, NEW w \in Windows, LoadHistory(w)
  PROVE  WatchInv'
<1>1. /\ view \in [Windows -> Views] /\ busy \in [Windows -> BOOLEAN] /\ got \in [Windows -> BOOLEAN]
      /\ post \in [Sends -> Posts]
  BY DEF WatchInv, WatchTypeOK, Posts
<1>2. thread[w] = << >> /\ ~got[w]
  BY DEF LoadHistory, WatchInv, ThreadsInv, WindowInv
<1>3. PICK after : after = View!MergeHistory(<< >>, View!Replay(messages, failures))
  OBVIOUS
<1>4. /\ after \in Bubbles /\ Tidy(after)
      /\ \A i \in DOMAIN messages : messages[i].role = "user" =>
           i \in DOMAIN after /\ after[i] = View!UserBubble(messages[i].turn)
  BY <1>3, HistoryShown DEF ChatInv, History
<1>5. PICK read \in Nat : read = Len(log)
  BY LogTyped DEF ChatInv
<1>6. PICK entries : entries = log'
  OBVIOUS
<1>7. /\ thread' = [thread EXCEPT ![w] = after]
      /\ view' = [view EXCEPT ![w] = "connecting"]
      /\ position' = [position EXCEPT ![w] = read]
      /\ intact' = [intact EXCEPT ![w] = TRUE]
      /\ UNCHANGED << log, busy, got, post >>
  BY <1>2, <1>3, <1>5 DEF LoadHistory, Show, Goes, vars, storeVars
<1>8. got' = [got EXCEPT ![w] = FALSE]
  BY <1>1, <1>2, <1>7
<1>9. busy' \in [Windows -> BOOLEAN] /\ post' \in [Sends -> Posts]
  BY <1>1, <1>7
<1>10. ASSUME NEW i \in 1 .. read
       PROVE  \E k \in DOMAIN after : after[k] = View!UserBubble(entries[i].turn)
  <2>1. i \in DOMAIN log /\ entries[i] = log[i]
    BY <1>5, <1>6, <1>7, LogTyped DEF ChatInv
  <2>2. PICK k \in DOMAIN messages : messages[k] = [role |-> "user", turn |-> log[i].turn]
    BY <2>1 DEF ChatInv, EverythingIsAboutASavedMessage, HasRow
  <2>3. messages[k].role = "user" /\ messages[k].turn = log[i].turn
    BY <2>2
  <2> QED
    BY <1>4, <2>1, <2>3
<1>11. Follows(after, entries, read, FALSE)
  BY <1>5, <1>6, <1>7, <1>10 DEF Follows
<1>12. "connecting" \in Views \ {"blank"}
  BY DEF Views
<1> QED
  BY <1>4, <1>6, <1>7, <1>8, <1>9, <1>11, <1>12, WindowSteps DEF ChatInv

(* Where a connection starts, the turn that goes on is on the screen.      *)
LEMMA StartIsShown ==
  ASSUME ChatInv, NEW w \in Windows, NEW bubbles \in Bubbles, bubbles = thread[w],
         NEW start \in Nat, start = StartCursor(w), NEW read \in Nat, read = position[w],
         Rejoins(w), NEW was, was <=> view[w] = "open" \/ got[w], Follows(bubbles, log, read, was),
         start > 0, Unended(log[start])
  PROVE  View!AwaitsReply(bubbles, log[start].turn)
<1>1. /\ Len(log) \in Nat /\ DOMAIN log = 1 .. Len(log) /\ start <= read /\ read <= Len(log)
      /\ start \in DOMAIN log
  BY LogTyped DEF ChatInv, Rejoins, Follows
<1>2. PICK t \in Sends : t = log[start].turn
  BY <1>1, LogTyped DEF ChatInv
<1>3. CASE got[w]
  BY <1>3 DEF StartCursor, Follows
<1>4. CASE ~got[w] /\ start < Len(log)
  <2>1. PICK j \in DOMAIN log : j = start + 1
    BY <1>1, <1>4
  <2>2. j - 1 = start /\ j # 1
    BY <1>1, <2>1
  <2>3. log[j].turn = t
    BY <1>2, <2>1, <2>2 DEF ChatInv, StreamInv, InOrder
  <2>4. PICK k \in DOMAIN bubbles : bubbles[k] = View!UserBubble(t)
    <3>1. start \in 1 .. read
      BY <1>1
    <3> QED
      BY <1>2, <3>1 DEF Follows
  <2>5. View!Shows(bubbles, t)
    BY <2>4, NewBubbles DEF View!Shows
  <2>6. j \in EntriesAfter(start)
    BY <1>1, <2>1 DEF EntriesAfter, ChatInv, ReplayInv
  <2> QED
    BY <1>2, <2>3, <2>5, <2>6 DEF Rejoins
<1>5. CASE ~got[w] /\ start = Len(log)
  <2>1. Streaming(t)
    BY <1>1, <1>2, <1>5 DEF ChatInv, StreamInv
  <2>2. flag = t
    BY <2>1, StreamingInFlight DEF ChatInv
  <2>3. start = cursor[t]
    BY <1>5, <2>2, NoneAssumption DEF StartCursor, ResumeTurnCursor, ChatInv, ReplayInv
  <2>4. start > cursor[t]
    BY <1>1, <1>2 DEF ChatInv, StreamInv, InOrder
  <2> QED
    BY <2>3, <2>4
<1> QED
  BY <1>1, <1>3, <1>4, <1>5

LEMMA ConnectStep ==
  ASSUME ChatInv, [Next]_vars, WatchInv, NEW w \in Windows, Connect(w)
  PROVE  WatchInv'
<1>1. /\ view \in [Windows -> Views] /\ busy \in [Windows -> BOOLEAN] /\ got \in [Windows -> BOOLEAN]
      /\ intact \in [Windows -> BOOLEAN] /\ post \in [Sends -> Posts] /\ position \in [Windows -> Nat]
      /\ thread \in [Windows -> Bubbles]
  BY DEF WatchInv, WatchTypeOK, Posts, Bubbles
<1>2. PICK bubbles \in Bubbles : bubbles = thread[w]
  BY <1>1
<1>3. PICK read \in Nat : read = position[w]
  BY <1>1
<1>4. PICK start \in Nat : start = StartCursor(w)
  <2>1. Len(log) \in Nat /\ flagCursor \in Nat /\ position[w] \in Nat
    BY <1>1, LogTyped DEF ChatInv, TypeOK, StoreTypeOK
  <2>2. StartCursor(w) \in Nat
    BY <2>1 DEF StartCursor, ResumeTurnCursor, LastStreamCursor
  <2> QED
    BY <2>2
<1>5. PICK has \in BOOLEAN : has = got[w]
  BY <1>1
<1>6. PICK whole \in BOOLEAN : whole = (intact[w] /\ Rejoins(w))
  BY <1>1
<1>7. PICK entries : entries = log'
  OBVIOUS
<1>8. /\ view' = [view EXCEPT ![w] = "open"] /\ position' = [position EXCEPT ![w] = start]
      /\ intact' = [intact EXCEPT ![w] = whole]
      /\ UNCHANGED << log, thread, busy, got, post >>
  BY <1>4, <1>6 DEF Connect, Goes, vars, storeVars
<1>9. thread' = [thread EXCEPT ![w] = bubbles] /\ got' = [got EXCEPT ![w] = has]
  BY <1>1, <1>2, <1>5, <1>8
<1>10. busy' \in [Windows -> BOOLEAN] /\ post' \in [Sends -> Posts]
  BY <1>1, <1>8
<1>11. ASSUME whole
       PROVE  Tidy(bubbles) /\ Follows(bubbles, entries, start, TRUE)
  <2>1. PICK was \in BOOLEAN : was <=> view[w] = "open" \/ got[w]
    OBVIOUS
  <2>2. Tidy(bubbles) /\ Follows(bubbles, log, read, was) /\ Rejoins(w)
    BY <1>2, <1>3, <1>6, <1>11, <2>1 DEF WatchInv, ThreadsInv, WindowInv
  <2>3. start <= read /\ entries = log /\ Len(log) \in Nat
    BY <1>3, <1>4, <1>7, <1>8, <2>2, LogTyped DEF Rejoins, ChatInv
  <2>4. start > 0 /\ Unended(log[start]) => View!AwaitsReply(bubbles, log[start].turn)
    BY <1>2, <1>3, <1>4, <2>1, <2>2, StartIsShown
  <2> QED
    BY <2>2, <2>3, <2>4 DEF Follows
<1>12. "open" \in Views \ {"blank"}
  BY DEF Views
<1> QED
  BY <1>7, <1>8, <1>9, <1>10, <1>11, <1>12, WindowSteps DEF ChatInv

(* What a frame makes of a thread, whatever the thread.                    *)
LEMMA FrameTyped ==
  ASSUME NEW bubbles \in Bubbles, NEW entry \in Entry
  PROVE  View!ApplyLiveEvent(bubbles, entry) \in Bubbles
<1> PICK after : after = View!ApplyLiveEvent(bubbles, entry)
  OBVIOUS
<1> PICK s \in Sends : s = entry.turn
  BY DEF Entry
<1>1. ASSUME NEW state \in {"streaming", "done", "error"}, NEW saying \in SUBSET Sends,
             after = View!UpdateLastAssistant(bubbles, state, saying)
      PROVE  after \in Bubbles
  BY <1>1, UpdatedThread DEF Updated
<1>2. CASE entry.type = "UserMessage"
  <2>1. after = View!ShowUserMessage(bubbles, s)
    BY <1>2 DEF View!ApplyLiveEvent
  <2>2. \/ after = bubbles \/ after = Append(bubbles, View!StreamingAssistant)
        \/ after = View!Submitted(bubbles, s)
    BY <2>1 DEF View!ShowUserMessage
  <2>3. PICK b \in View!Bubble : b = View!StreamingAssistant
    BY NewBubbles
  <2>4. Append(bubbles, b) \in Bubbles
    BY AppendedThread
  <2>5. View!Submitted(bubbles, s) \in Bubbles
    BY SubmittedThread
  <2> QED
    BY <2>2, <2>3, <2>4, <2>5
<1>3. CASE entry.type = "Delta"
  <2>1. after = View!UpdateLastAssistant(bubbles, "streaming", {s})
    BY <1>3 DEF View!ApplyLiveEvent
  <2> QED
    BY <1>1, <2>1
<1>4. CASE entry.type = "MessageDone"
  <2>1. after = View!UpdateLastAssistant(bubbles, "done", {s})
    BY <1>4 DEF View!ApplyLiveEvent
  <2> QED
    BY <1>1, <2>1
<1>5. CASE entry.type \in {"Error", "PersistenceFailed"}
  <2>1. after = View!UpdateLastAssistant(bubbles, "error", {})
    BY <1>5 DEF View!ApplyLiveEvent, View!MarkLastAssistantErrored
  <2> QED
    BY <1>1, <2>1
<1> QED
  BY <1>2, <1>3, <1>4, <1>5 DEF Entry

(* A connection brings the entries one by one.                             *)
LEMMA NextEntry ==
  ASSUME ChatInv, NEW read \in Nat, EntriesAfter(read) # {}
  PROVE  /\ read + 1 \in DOMAIN log
         /\ (CHOOSE i \in EntriesAfter(read) : \A j \in EntriesAfter(read) : i <= j) = read + 1
<1>1. /\ Len(log) \in Nat /\ DOMAIN log = 1 .. Len(log) /\ gone = 0
  BY LogTyped DEF ChatInv, ReplayInv
<1>2. EntriesAfter(read) = {i \in 1 .. Len(log) : i > read}
  BY <1>1 DEF EntriesAfter
<1>3. read + 1 \in EntriesAfter(read) /\ \A j \in EntriesAfter(read) : j \in Nat /\ read + 1 <= j
  BY <1>1, <1>2
<1>4. \A i \in EntriesAfter(read) : (\A j \in EntriesAfter(read) : i <= j) => i = read + 1
  BY <1>3
<1> QED
  BY <1>1, <1>2, <1>3, <1>4

LEMMA DeliverStep ==
  ASSUME DistinctTexts, ChatInv, [Next]_vars, WatchInv, NEW w \in Windows, Deliver(w)
  PROVE  WatchInv'
<1>1. /\ view \in [Windows -> Views] /\ busy \in [Windows -> BOOLEAN] /\ got \in [Windows -> BOOLEAN]
      /\ intact \in [Windows -> BOOLEAN] /\ post \in [Sends -> Posts] /\ position \in [Windows -> Nat]
      /\ thread \in [Windows -> Bubbles]
  BY DEF WatchInv, WatchTypeOK, Posts, Bubbles
<1>2. PICK bubbles \in Bubbles : bubbles = thread[w]
  BY <1>1
<1>3. PICK read \in Nat : read = position[w]
  BY <1>1
<1>4. view[w] = "open" /\ EntriesAfter(read) # {}
  BY <1>3 DEF Deliver
<1>5. PICK i \in DOMAIN log : i = read + 1
  BY <1>4, NextEntry
<1>6. PICK entry \in Entry : entry = log[i]
  BY LogTyped DEF ChatInv
<1>7. PICK after \in Bubbles : after = View!ApplyLiveEvent(bubbles, entry)
  BY FrameTyped
<1>8. PICK whole \in BOOLEAN : whole = (intact[w] /\ EchoIsExpected(w, entry))
  BY <1>1
<1>9. PICK next \in Nat : next = i
  BY <1>5
<1>10. PICK entries : entries = log'
  OBVIOUS
<1>11. (CHOOSE k \in EntriesAfter(position[w]) : \A j \in EntriesAfter(position[w]) : k <= j) = next
  BY <1>3, <1>4, <1>5, <1>9, NextEntry
<1>12. /\ position' = [position EXCEPT ![w] = next]
       /\ thread' = [thread EXCEPT ![w] = after]
       /\ busy' = [busy EXCEPT ![w] = IF View!IsTerminal(log[next]) THEN FALSE
                                      ELSE @ \/ log[next].type = "UserMessage"]
       /\ intact' = [intact EXCEPT ![w] = whole]
  BY <1>2, <1>6, <1>7, <1>8, <1>9, <1>11 DEF Deliver, Show
<1>13. /\ got' = [got EXCEPT ![w] = TRUE]
       /\ UNCHANGED << log, view, post >>
  BY DEF Deliver, vars, storeVars
<1>14. view' = [view EXCEPT ![w] = "open"] /\ "open" \in Views \ {"blank"}
  BY <1>1, <1>4, <1>13 DEF Views
<1>15. busy' \in [Windows -> BOOLEAN] /\ post' \in [Sends -> Posts]
  <2>1. PICK is \in BOOLEAN : busy' = [busy EXCEPT ![w] = is]
    BY <1>1, <1>12
  <2> QED
    BY <1>1, <1>13, <2>1
<1>16. \A t \in Sends : post'[t] # "unsent" => post[t] # "unsent" \/ Sender[t] = w
  BY <1>13
<1>17. ASSUME whole
       PROVE  Tidy(after) /\ Follows(after, entries, next, TRUE)
  <2>1. Tidy(bubbles) /\ Follows(bubbles, log, read, TRUE)
    BY <1>2, <1>3, <1>4, <1>8, <1>17 DEF WatchInv, ThreadsInv, WindowInv
  <2>2. InOrder(i)
    BY DEF ChatInv, StreamInv
  <2>3. ASSUME entry.type # "UserMessage"
        PROVE  View!AwaitsReply(bubbles, entry.turn)
    <3>1. i > 1 /\ Unended(log[i - 1]) /\ log[i - 1].turn = entry.turn
      BY <1>6, <2>2, <2>3 DEF InOrder
    <3>2. i - 1 = read /\ read > 0
      BY <1>5, <3>1
    <3> QED
      BY <2>1, <3>1, <3>2 DEF Follows
  <2>4. entry.type # "PersistenceFailed"
    BY <1>6, <2>2 DEF InOrder
  <2>5. Followed(bubbles, after, entry)
    BY <1>7, <2>1, <2>3, <2>4, LiveEvent
  <2>6. entries = log /\ entries[next] = entry /\ next <= Len(entries)
    BY <1>6, <1>9, <1>10, <1>13, LogTyped DEF ChatInv
  <2>7. Follows(after, entries, read, FALSE)
    BY <2>1, <2>5, <2>6, FollowsStill DEF Followed
  <2>8. ASSUME NEW j \in 1 .. next
        PROVE  \E k \in DOMAIN after : after[k] = View!UserBubble(entries[j].turn)
    <3>1. j \in 1 .. read \/ j = next
      BY <1>5, <1>9
    <3>2. CASE j \in 1 .. read
      BY <2>7, <3>2 DEF Follows
    <3>3. CASE j = next
      BY <2>5, <2>6, <3>3 DEF Followed
    <3> QED
      BY <3>1, <3>2, <3>3
  <2>9. Unended(entries[next]) => View!AwaitsReply(after, entries[next].turn)
    BY <2>5, <2>6 DEF Followed
  <2> QED
    BY <2>5, <2>6, <2>8, <2>9 DEF Followed, Follows
<1> QED
  BY <1>10, <1>12, <1>13, <1>14, <1>15, <1>16, <1>17, WindowSteps DEF ChatInv

LEMMA WatchStep ==
  ASSUME DistinctTexts, ChatInv, WatchInv, [WatchNext]_<< vars, winVars >>
  PROVE  WatchInv'
<1>1. [Next]_vars
  BY ZenonT(30) DEF WatchNext, Mint, Submit, PostAnswered, Backend, Window, LoadHistory, Connect, Deliver, Drop,
         Leave, Return, Expiry, Finished, Next, vars
<1>2. TypeOK
  BY DEF ChatInv
<1>3. ASSUME NEW s \in Sends, Mint(s)
      PROVE  WatchInv'
  BY <1>1, <1>2, <1>3, MintStep
<1>4. ASSUME NEW s \in Sends, Submit(s)
      PROVE  WatchInv'
  BY <1>1, <1>2, <1>4, SubmitStep
<1>5. ASSUME NEW s \in Sends, PostAnswered(s)
      PROVE  WatchInv'
  BY <1>1, <1>5, AnswerStep
<1>6. ASSUME NEW w \in Windows, LoadHistory(w)
      PROVE  WatchInv'
  BY <1>1, <1>6, LoadStep
<1>7. ASSUME NEW w \in Windows, Connect(w)
      PROVE  WatchInv'
  BY <1>1, <1>7, ConnectStep
<1>8. ASSUME NEW w \in Windows, Deliver(w)
      PROVE  WatchInv'
  BY <1>1, <1>8, DeliverStep
<1>9. ASSUME NEW w \in Windows, Drop(w) \/ Leave(w) \/ Return(w)
      PROVE  WatchInv'
  BY <1>1, <1>2, <1>9, MoveStep
<1>10. CASE UNCHANGED winVars
  BY <1>1, <1>2, <1>10, NoWindowSteps
<1>11. \/ UNCHANGED winVars
       \/ \E s \in Sends : Mint(s) \/ Submit(s) \/ PostAnswered(s)
       \/ \E w \in Windows : Window(w)
  BY DEF WatchNext, Backend, Expiry, Finished
<1> QED
  BY <1>3, <1>4, <1>5, <1>6, <1>7, <1>8, <1>9, <1>10, <1>11 DEF Window

(* Where turns fail only in the model and its tools and no two messages    *)
(* read the same, a window without a gap has followed the stream: every    *)
(* message it has read is on its thread, and a connection that stands in   *)
(* the middle of a turn finds that turn's message at the thread's end      *)
(* (onLiveEvent, applyLiveEvent, resume_turn_cursor).                      *)
THEOREM ThreadsFollowTheStream ==
  Faults \subseteq QuietFaults /\ DistinctTexts => (WatchSpec => [](WatchTypeOK /\ ThreadsInv))
<1> SUFFICES ASSUME Faults \subseteq QuietFaults, DistinctTexts
             PROVE  WatchSpec => [](WatchTypeOK /\ ThreadsInv)
  OBVIOUS
<1>1. Spec => []ChatInv
  <2>1. "streamTtl" \notin Faults
    BY DEF QuietFaults
  <2> QED
    BY <2>1, SerialInvariant, ReplayInvariant, StreamOrdered, AboutSavedMessages, RepliesInOrder, PTL
       DEF ChatInv
<1>2. WatchInit => WatchInv
  BY DEF WatchInit, WatchInv, WatchTypeOK, ThreadsInv, WindowInv, Views
<1>3. ChatInv /\ WatchInv /\ [WatchNext]_<< vars, winVars >> => WatchInv'
  BY WatchStep
<1>4. WatchSpec => []WatchInv
  BY <1>1, <1>2, <1>3, WatchIsChat, PTL DEF WatchSpec
<1> QED
  BY <1>4, PTL DEF WatchInv

(* There, a reply is shown under its own message and no bubble mixes two   *)
(* turns, although applyLiveEvent only looks at the last bubble: however   *)
(* many windows send, hasten, regenerate, drop, leave and return.          *)
THEOREM RepliesUnderTheirMessages ==
  Faults \subseteq QuietFaults /\ DistinctTexts => (WatchSpec => []ReplyUnderItsMessage)
<1>1. ThreadsInv => ReplyUnderItsMessage
  <2> SUFFICES ASSUME ThreadsInv, NEW w \in Windows, NEW i \in DOMAIN thread[w],
                      intact[w], thread[w][i].role = "assistant", thread[w][i].says # {}
               PROVE  i > 1 /\ thread[w][i - 1].role = "user"
                      /\ thread[w][i - 1].says = thread[w][i].says
    BY DEF ReplyUnderItsMessage
  <2>1. Tidy(thread[w])
    BY DEF ThreadsInv, WindowInv
  <2> QED
    BY <2>1 DEF Tidy
<1> QED
  BY <1>1, ThreadsFollowTheStream, PTL

-----------------------------------------------------------------------------
(* Sequences put together piece by piece.                                  *)

(* A property of 0 that passes from n - 1 to n holds up to N: the numbers  *)
(* without it would have a least one.                                      *)
LEMMA CountingUp ==
  ASSUME NEW N \in Nat, NEW T, 0 \in T, \A n \in 1 .. N : n - 1 \in T => n \in T
  PROVE  0 .. N \subseteq T
<1> DEFINE Rest == {n \in 0 .. N : n \notin T}
           R    == OpToRel(<, Nat)
<1>1. CASE Rest # {}
  <2>1. IsWellFoundedOn(R, Nat)
    BY NatLessThanWellFounded
  <2>2. Rest \subseteq Nat
    OBVIOUS
  <2>3. PICK n \in Rest : \A m \in Rest : << m, n >> \notin R
    <3> HIDE DEF R, Rest
    <3> QED
      BY <1>1, <2>1, <2>2, WFMin
  <2>4. \A m \in Rest : ~(m < n)
    BY <2>2, <2>3 DEF OpToRel
  <2>5. n \in 1 .. N /\ n - 1 \notin Rest
    <3> HIDE DEF R
    <3> QED
      BY <2>4
  <2> HIDE DEF R
  <2> QED
    BY <2>3, <2>5
<1> QED
  BY <1>1

(* f[n] is the first n pieces together.                                    *)
Joins(f, pieces, N, S) ==
  /\ f[0] = << >> /\ \A n \in 1 .. N : f[n] = f[n - 1] \o pieces[n]
  /\ \A n \in 0 .. N : f[n] \in Seq(S)
  /\ f[N] = FlattenSeq(pieces)

LEMMA Flattened ==
  ASSUME NEW S, NEW pieces, pieces \in Seq(Seq(S)), NEW N, N = Len(pieces)
  PROVE  \E f : Joins(f, pieces, N, S)
<1> DEFINE Is(f, n) == f = [i \in 1 .. n |-> IF i = 1 THEN pieces[i] ELSE f[i - 1] \o pieces[i]]
           T        == {n \in 0 .. N : \E f : Is(f, n)}
<1>0. N \in Nat /\ DOMAIN pieces = 1 .. N /\ \A n \in 1 .. N : pieces[n] \in Seq(S)
  OBVIOUS
<1>1. 0 \in T
  <2>1. Is([i \in 1 .. 0 |-> << >>], 0)
    OBVIOUS
  <2> HIDE DEF Is
  <2> QED
    BY <1>0, <2>1
<1>2. ASSUME NEW n \in 1 .. N, n - 1 \in T
      PROVE  n \in T
  <2>1. PICK f : Is(f, n - 1)
    BY <1>2
  <2> DEFINE g == [i \in 1 .. n |-> IF i < n THEN f[i] ELSE IF n = 1 THEN pieces[n] ELSE f[n - 1] \o pieces[n]]
  <2>2. \A i \in 1 .. n : g[i] = IF i = 1 THEN pieces[i] ELSE g[i - 1] \o pieces[i]
    <3> SUFFICES ASSUME NEW i \in 1 .. n
                 PROVE  g[i] = IF i = 1 THEN pieces[i] ELSE g[i - 1] \o pieces[i]
      OBVIOUS
    <3>1. i \in Nat /\ n \in Nat /\ (i < n => i \in 1 .. n - 1) /\ (i # 1 => i - 1 \in 1 .. n - 1 /\ i - 1 < n)
      BY <1>0
    <3>2. i # 1 => g[i - 1] = f[i - 1]
      BY <3>1
    <3>3. CASE i < n
      BY <2>1, <3>1, <3>2, <3>3
    <3>4. CASE i = n
      BY <3>2, <3>4
    <3> QED
      BY <3>1, <3>3, <3>4
  <2>3. Is(g, n)
    BY <2>2
  <2> HIDE DEF Is, g
  <2> QED
    BY <2>3
<1>3. PICK f : f = CHOOSE h : Is(h, N)
  OBVIOUS
<1>4. Is(f, N)
  <2>1. \A n \in 1 .. N : n - 1 \in T => n \in T
    BY <1>2
  <2>2. 0 .. N \subseteq T
    <3> HIDE DEF T
    <3> QED
      BY <1>0, <1>1, <2>1, CountingUp
  <2>3. \E h : Is(h, N)
    <3> HIDE DEF Is
    <3> QED
      BY <1>0, <2>2
  <2> HIDE DEF Is
  <2> QED
    BY <1>3, <2>3
<1>4a. \A n \in 1 .. N : f[n] = IF n = 1 THEN pieces[n] ELSE f[n - 1] \o pieces[n]
  BY <1>4
<1> DEFINE g == [n \in 0 .. N |-> IF n = 0 THEN << >> ELSE f[n]]
<1>5. g[0] = << >>
  BY <1>0
<1>6. ASSUME NEW n \in 1 .. N, g[n - 1] \in Seq(S)
      PROVE  g[n] = g[n - 1] \o pieces[n] /\ g[n] \in Seq(S)
  <2>1. g[n] = IF n = 1 THEN pieces[n] ELSE f[n - 1] \o pieces[n]
    <3>1. n \in 0 .. N /\ n # 0
      BY <1>0
    <3>2. g[n] = f[n]
      BY <3>1
    <3> HIDE DEF g, Is
    <3> QED
      BY <1>4a, <3>2
  <2>2. pieces[n] \in Seq(S)
    BY <1>0
  <2>3. CASE n = 1
    <3>1. g[n - 1] = << >> /\ << >> \o pieces[n] = pieces[n]
      BY <1>5, <2>2, <2>3, ConcatEmptySeq
    <3> QED
      BY <2>1, <2>2, <2>3, <3>1
  <2>4. CASE n # 1
    <3>1. g[n - 1] = f[n - 1]
      BY <1>0, <2>4
    <3>2. g[n] = g[n - 1] \o pieces[n]
      BY <2>1, <2>4, <3>1
    <3> HIDE DEF g
    <3> QED
      BY <1>6, <2>2, <3>2
  <2> QED
    BY <2>3, <2>4
<1>7. \A n \in 0 .. N : g[n] \in Seq(S)
  <2> DEFINE G == {n \in 0 .. N : g[n] \in Seq(S)}
  <2>1. 0 \in G
    BY <1>0, <1>5, EmptySeq
  <2>2. \A n \in 1 .. N : n - 1 \in G => n \in G
    <3>1. \A n \in 1 .. N : n \in 0 .. N
      BY <1>0
    <3> HIDE DEF g
    <3> QED
      BY <1>6, <3>1
  <2>3. 0 .. N \subseteq G
    <3> HIDE DEF G
    <3> QED
      BY <1>0, <2>1, <2>2, CountingUp
  <2> HIDE DEF g
  <2> QED
    BY <2>3
<1>8. \A n \in 1 .. N : g[n] = g[n - 1] \o pieces[n]
  <2> HIDE DEF g
  <2>1. \A n \in 1 .. N : n - 1 \in 0 .. N
    BY <1>0
  <2> QED
    BY <1>6, <1>7, <2>1
<1>9. g[N] = FlattenSeq(pieces)
  <2>1. CASE N = 0
    <3>1. pieces = << >>
      BY <1>0, <2>1, EmptySeq
    <3> QED
      BY <1>5, <2>1, <3>1 DEF FlattenSeq
  <2>2. CASE N # 0
    <3>1. FlattenSeq(pieces) = (CHOOSE h : Is(h, N))[N]
      BY <2>2 DEF FlattenSeq
    <3>2. g[N] = f[N]
      BY <1>0, <2>2
    <3> HIDE DEF Is
    <3> QED
      BY <1>3, <3>1, <3>2
  <2> QED
    BY <2>1, <2>2
<1> HIDE DEF g
<1> QED
  BY <1>5, <1>7, <1>8, <1>9 DEF Joins

LEMMA FlattenAppend ==
  ASSUME NEW S, NEW pieces \in Seq(Seq(S)), NEW piece \in Seq(S)
  PROVE  /\ FlattenSeq(pieces) \in Seq(S)
         /\ FlattenSeq(Append(pieces, piece)) = FlattenSeq(pieces) \o piece
<1> PICK N : N = Len(pieces)
  OBVIOUS
<1> PICK all : all = Append(pieces, piece)
  OBVIOUS
<1>1. /\ N \in Nat /\ Len(all) = N + 1 /\ all[N + 1] = piece /\ all \in Seq(Seq(S))
      /\ \A n \in 1 .. N : all[n] = pieces[n]
  <2> PICK SS : SS = Seq(S)
    OBVIOUS
  <2>1. pieces \in Seq(SS) /\ piece \in SS
    OBVIOUS
  <2>2. /\ N \in Nat /\ Len(all) = N + 1 /\ all[N + 1] = piece /\ all \in Seq(SS)
        /\ \A n \in 1 .. N : all[n] = pieces[n]
    BY <2>1
  <2> QED
    BY <2>2
<1>2. PICK f : Joins(f, pieces, N, S)
  BY Flattened
<1>3. PICK M : M = N + 1
  OBVIOUS
<1>4. PICK g : Joins(g, all, M, S)
  BY <1>1, <1>3, Flattened
<1>5. /\ f[0] = << >> /\ \A n \in 1 .. N : f[n] = f[n - 1] \o pieces[n]
      /\ f[N] = FlattenSeq(pieces) /\ f[N] \in Seq(S)
      /\ g[0] = << >> /\ \A n \in 1 .. N + 1 : g[n] = g[n - 1] \o all[n]
      /\ g[N + 1] = FlattenSeq(all)
  <2>1. N \in 0 .. N
    BY <1>1
  <2>2. f[0] = << >> /\ (\A n \in 1 .. N : f[n] = f[n - 1] \o pieces[n])
        /\ f[N] = FlattenSeq(pieces) /\ f[N] \in Seq(S)
    BY <1>2, <2>1, Zenon DEF Joins
  <2>3. g[0] = << >> /\ (\A n \in 1 .. N + 1 : g[n] = g[n - 1] \o all[n])
        /\ g[N + 1] = FlattenSeq(all)
    BY <1>3, <1>4, Zenon DEF Joins
  <2> QED
    BY <2>2, <2>3
<1> DEFINE T == {n \in 0 .. N : f[n] = g[n]}
<1>6. 0 \in T
  BY <1>1, <1>5
<1>7. ASSUME NEW n \in 1 .. N, f[n - 1] = g[n - 1]
      PROVE  f[n] = g[n]
  <2>1. n \in 1 .. N + 1
    BY <1>1
  <2>2. f[n] = f[n - 1] \o pieces[n] /\ g[n] = g[n - 1] \o all[n]
    BY <1>5, <2>1
  <2> QED
    BY <1>1, <1>7, <2>2
<1>8. \A n \in 1 .. N : n - 1 \in T => n \in T
  <2>1. \A n \in 1 .. N : n \in 0 .. N
    BY <1>1
  <2> QED
    BY <1>7, <2>1
<1>9. 0 .. N \subseteq T
  <2> HIDE DEF T
  <2> QED
    BY <1>1, <1>6, <1>8, CountingUp
<1>10. N \in 0 .. N /\ N + 1 \in 1 .. N + 1 /\ (N + 1) - 1 = N
  BY <1>1
<1>11. f[N] = g[N]
  BY <1>9, <1>10
<1>12. g[N + 1] = g[N] \o piece
  BY <1>1, <1>5, <1>10
<1> QED
  BY <1>5, <1>10, <1>11, <1>12

-----------------------------------------------------------------------------
(* What a thread shows for good.                                           *)
LEMMA KeptEmpty ==
  ASSUME NEW saved
  PROVE  Kept(<< >>, saved) = << >>
<1>1. [i \in DOMAIN << >> |-> Lasting(<< >>[i], saved)] = << >>
  OBVIOUS
<1> QED
  BY <1>1 DEF Kept, FlattenSeq

LEMMA KeptAppend ==
  ASSUME NEW bubbles \in Bubbles, NEW b \in View!Bubble, NEW saved
  PROVE  /\ Kept(bubbles, saved) \in Bubbles
         /\ Kept(Append(bubbles, b), saved) = Kept(bubbles, saved) \o Lasting(b, saved)
<1> PICK n : n = Len(bubbles)
  OBVIOUS
<1> PICK after : after = Append(bubbles, b)
  OBVIOUS
<1>1. /\ n \in Nat /\ DOMAIN bubbles = 1 .. n /\ DOMAIN after = 1 .. n + 1
      /\ \A i \in 1 .. n : bubbles[i] \in View!Bubble /\ after[i] = bubbles[i]
      /\ after[n + 1] = b
  BY DEF Bubbles
<1> DEFINE pieces == [i \in 1 .. n |-> Lasting(bubbles[i], saved)]
<1> PICK piece : piece = Lasting(b, saved)
  OBVIOUS
<1>2. ASSUME NEW x \in View!Bubble
      PROVE  Lasting(x, saved) \in Bubbles
  BY DEF Lasting, Bubbles
<1>3. pieces \in Seq(Bubbles) /\ piece \in Bubbles /\ Len(pieces) = n
  <2>1. pieces \in [1 .. n -> Bubbles]
    BY <1>1, <1>2
  <2> QED
    BY <1>1, <1>2, <2>1
<1>4. Append(pieces, piece) = [i \in 1 .. n + 1 |-> Lasting(after[i], saved)]
  <2>1. \A i \in 1 .. n + 1 : i \in 1 .. n \/ i = n + 1
    BY <1>1
  <2>2. \A i \in 1 .. n + 1 : Append(pieces, piece)[i] = Lasting(after[i], saved)
    <3>1. \A i \in 1 .. n : Append(pieces, piece)[i] = Lasting(bubbles[i], saved)
      BY <1>1, <1>3
    <3>2. Append(pieces, piece)[n + 1] = piece
      BY <1>3
    <3> QED
      BY <1>1, <2>1, <3>1, <3>2
  <2>3. Append(pieces, piece) \in Seq(Bubbles) /\ Len(Append(pieces, piece)) = n + 1
    BY <1>3
  <2>4. Append(pieces, piece) = [i \in 1 .. n + 1 |-> Append(pieces, piece)[i]]
    <3> PICK all : all = Append(pieces, piece)
      OBVIOUS
    <3> QED
      BY <2>3
  <2> QED
    BY <2>2, <2>4
<1>5. Kept(bubbles, saved) = FlattenSeq(pieces) /\ Kept(after, saved) = FlattenSeq(Append(pieces, piece))
  BY <1>1, <1>4 DEF Kept
<1> HIDE DEF pieces
<1> QED
  BY <1>3, <1>5, FlattenAppend DEF Bubbles

(* All bubbles but the last.                                               *)
LEMMA KeptFront ==
  ASSUME NEW bubbles \in Bubbles, NEW n \in Nat, Len(bubbles) = n + 1
  PROVE  \E front \in Bubbles :
           /\ Len(front) = n /\ \A i \in 1 .. n : front[i] = bubbles[i]
           /\ bubbles = Append(front, bubbles[n + 1])
           /\ \A saved : Kept(bubbles, saved) = Kept(front, saved) \o Lasting(bubbles[n + 1], saved)
<1> PICK front : front = SubSeq(bubbles, 1, n)
  OBVIOUS
<1> PICK b : b = bubbles[n + 1]
  OBVIOUS
<1>1. b \in View!Bubble /\ front \in Bubbles /\ Len(front) = n /\ \A i \in 1 .. n : front[i] = bubbles[i]
  BY DEF Bubbles
<1>2. bubbles = Append(front, b)
  BY <1>1 DEF Bubbles
<1>3. \A saved : Kept(bubbles, saved) = Kept(front, saved) \o Lasting(b, saved)
  <2> SUFFICES ASSUME NEW saved
               PROVE  Kept(bubbles, saved) = Kept(front, saved) \o Lasting(b, saved)
    OBVIOUS
  <2>1. Kept(Append(front, b), saved) = Kept(front, saved) \o Lasting(b, saved)
    BY <1>1, KeptAppend
  <2> QED
    BY <1>2, <2>1
<1> QED
  BY <1>1, <1>2, <1>3

(* Only the bubbles of the user depend on what is saved.                   *)
LEMMA KeptAlike ==
  ASSUME NEW bubbles \in Bubbles, NEW before, NEW after,
         \A i \in DOMAIN bubbles : Stays(bubbles[i], before) <=> Stays(bubbles[i], after)
  PROVE  Kept(bubbles, before) = Kept(bubbles, after)
<1>1. [i \in DOMAIN bubbles |-> Lasting(bubbles[i], before)] = [i \in DOMAIN bubbles |-> Lasting(bubbles[i], after)]
  BY DEF Lasting
<1> QED
  BY <1>1 DEF Kept

-----------------------------------------------------------------------------
(* What a stream says for good.                                            *)
LEMMA SpokenTyped ==
  ASSUME NEW entry \in Entry
  PROVE  Spoken(entry) \in Bubbles
<1>1. View!UserBubble(entry.turn) \in View!Bubble /\ ReplyBubble(entry.turn) \in View!Bubble
  BY DEF Entry, View!UserBubble, ReplyBubble, View!Bubble
<1> QED
  BY <1>1 DEF Spoken, Bubbles

LEMMA ToldNothing == \A entries : Told(entries, 0) = << >>
<1> SUFFICES ASSUME NEW entries
             PROVE  Told(entries, 0) = << >>
  OBVIOUS
<1>1. [i \in 1 .. 0 |-> Spoken(entries[i])] = << >>
  OBVIOUS
<1> QED
  BY <1>1 DEF Told, FlattenSeq

LEMMA ToldNext ==
  ASSUME NEW entries, NEW n \in Nat, \A i \in 1 .. n + 1 : entries[i] \in Entry
  PROVE  /\ Told(entries, n) \in Bubbles
         /\ Told(entries, n + 1) = Told(entries, n) \o Spoken(entries[n + 1])
<1> DEFINE pieces == [i \in 1 .. n |-> Spoken(entries[i])]
<1> PICK piece : piece = Spoken(entries[n + 1])
  OBVIOUS
<1>1. \A i \in 1 .. n + 1 : Spoken(entries[i]) \in Bubbles
  BY SpokenTyped
<1>2. pieces \in Seq(Bubbles) /\ piece \in Bubbles /\ Len(pieces) = n
  <2>1. pieces \in [1 .. n -> Bubbles] /\ n + 1 \in 1 .. n + 1
    BY <1>1
  <2> QED
    BY <1>1, <2>1
<1>3. Append(pieces, piece) = [i \in 1 .. n + 1 |-> Spoken(entries[i])]
  <2>1. \A i \in 1 .. n + 1 : Append(pieces, piece)[i] = Spoken(entries[i])
    <3>1. \A i \in 1 .. n : Append(pieces, piece)[i] = Spoken(entries[i])
      BY <1>2
    <3>2. Append(pieces, piece)[n + 1] = piece
      BY <1>2
    <3>3. \A i \in 1 .. n + 1 : i \in 1 .. n \/ i = n + 1
      OBVIOUS
    <3> QED
      BY <3>1, <3>2, <3>3
  <2>2. Append(pieces, piece) \in Seq(Bubbles) /\ Len(Append(pieces, piece)) = n + 1
    BY <1>2
  <2>3. Append(pieces, piece) = [i \in 1 .. n + 1 |-> Append(pieces, piece)[i]]
    <3> PICK all : all = Append(pieces, piece)
      OBVIOUS
    <3> QED
      BY <2>2
  <2> QED
    BY <2>1, <2>3
<1>4. Told(entries, n) = FlattenSeq(pieces) /\ Told(entries, n + 1) = FlattenSeq(Append(pieces, piece))
  BY <1>3 DEF Told
<1> HIDE DEF pieces
<1> QED
  BY <1>2, <1>4, FlattenAppend DEF Bubbles

LEMMA ToldTyped ==
  ASSUME NEW entries, NEW n \in Nat, \A i \in 1 .. n : entries[i] \in Entry
  PROVE  Told(entries, n) \in Bubbles
<1>1. CASE n = 0
  BY <1>1, ToldNothing, EmptySeq DEF Bubbles
<1>2. CASE n # 0
  <2>1. PICK m \in Nat : n = m + 1
    BY <1>2
  <2>2. /\ Told(entries, m) \in Bubbles /\ Spoken(entries[m + 1]) \in Bubbles
        /\ Told(entries, n) = Told(entries, m) \o Spoken(entries[m + 1])
    BY <2>1, ToldNext, SpokenTyped
  <2> QED
    BY <2>2 DEF Bubbles
<1> QED
  BY <1>1, <1>2

(* It depends on those entries only ...                                    *)
LEMMA ToldAlike ==
  ASSUME NEW before, NEW after, NEW n \in Nat, \A i \in 1 .. n : after[i] = before[i]
  PROVE  Told(after, n) = Told(before, n)
<1>1. [i \in 1 .. n |-> Spoken(after[i])] = [i \in 1 .. n |-> Spoken(before[i])]
  OBVIOUS
<1> QED
  BY <1>1 DEF Told

(* ... and of those on the messages and the ends of replies.               *)
LEMMA ToldSilently ==
  ASSUME NEW entries, NEW m \in Nat, NEW n \in Nat, m <= n, \A i \in 1 .. n : entries[i] \in Entry,
         \A i \in m + 1 .. n : Spoken(entries[i]) = << >>
  PROVE  Told(entries, n) = Told(entries, m)
<1> PICK d \in Nat : n = m + d
  <2>1. n - m \in Nat /\ n = m + (n - m)
    OBVIOUS
  <2> QED
    BY <2>1
<1> DEFINE T == {i \in 0 .. d : Told(entries, m + i) = Told(entries, m)}
<1>1. 0 \in T
  OBVIOUS
<1>2. ASSUME NEW i \in 1 .. d, Told(entries, m + (i - 1)) = Told(entries, m)
      PROVE  Told(entries, m + i) = Told(entries, m)
  <2> PICK k \in Nat : k = m + (i - 1)
    OBVIOUS
  <2>1. m + i = k + 1 /\ k + 1 \in m + 1 .. n /\ k + 1 \in 1 .. n
    OBVIOUS
  <2>2. Spoken(entries[k + 1]) = << >>
    BY <2>1
  <2>3. \A j \in 1 .. k + 1 : entries[j] \in Entry
    BY <2>1
  <2>4. Told(entries, k) \in Bubbles /\ Told(entries, k + 1) = Told(entries, k) \o << >>
    BY <2>2, <2>3, ToldNext
  <2>5. Told(entries, k) \o << >> = Told(entries, k)
    BY <2>4, ConcatEmptySeq DEF Bubbles
  <2> QED
    BY <1>2, <2>1, <2>4, <2>5
<1>3. \A i \in 1 .. d : i - 1 \in T => i \in T
  <2>1. \A i \in 1 .. d : i \in 0 .. d
    OBVIOUS
  <2> QED
    BY <1>2, <2>1
<1>4. 0 .. d \subseteq T
  <2> HIDE DEF T
  <2> QED
    BY <1>1, <1>3, CountingUp
<1>5. d \in T
  BY <1>4
<1> QED
  BY <1>5

-----------------------------------------------------------------------------
(* What the window's operations do to what a thread shows for good.        *)
Shown(s, saved) == IF s \in saved THEN << View!UserBubble(s) >> ELSE << >>

LEMMA LastingBubbles ==
  ASSUME NEW saved, NEW s \in Sends
  PROVE  /\ Lasting(View!UserBubble(s), saved) = Shown(s, saved)
         /\ Lasting(View!StreamingAssistant, saved) = << >> /\ Lasting(View!ErrorBubble, saved) = << >>
         /\ Shown(s, saved) \in Bubbles
<1>1. View!UserBubble(s) \in View!Bubble
  BY NewBubbles
<1>2. Stays(View!UserBubble(s), saved) <=> s \in saved
  BY DEF Stays, View!UserBubble
<1>3. ~Stays(View!StreamingAssistant, saved) /\ ~Stays(View!ErrorBubble, saved)
  BY DEF Stays, View!StreamingAssistant, View!ErrorBubble
<1> QED
  BY <1>1, <1>2, <1>3 DEF Lasting, Shown, Bubbles

LEMMA KeptWithout ==
  ASSUME NEW bubbles \in Bubbles, NEW b \in View!Bubble, NEW saved, Lasting(b, saved) = << >>
  PROVE  Kept(Append(bubbles, b), saved) = Kept(bubbles, saved)
<1>1. Kept(bubbles, saved) \in Bubbles /\ Kept(Append(bubbles, b), saved) = Kept(bubbles, saved) \o << >>
  BY KeptAppend
<1> QED
  BY <1>1, ConcatEmptySeq DEF Bubbles

LEMMA KeptSubmitted ==
  ASSUME NEW bubbles \in Bubbles, NEW s \in Sends, NEW saved
  PROVE  Kept(View!Submitted(bubbles, s), saved) = Kept(bubbles, saved) \o Shown(s, saved)
<1> PICK u \in View!Bubble : u = View!UserBubble(s)
  BY NewBubbles
<1> PICK a \in View!Bubble : a = View!StreamingAssistant
  BY NewBubbles
<1>1. Append(bubbles, u) \in Bubbles
  BY AppendedThread
<1>2. View!Submitted(bubbles, s) = Append(Append(bubbles, u), a)
  <2>1. bubbles \o << u, a >> = Append(Append(bubbles, u), a)
    BY DEF Bubbles
  <2> QED
    BY <2>1 DEF View!Submitted
<1>3. Kept(Append(bubbles, u), saved) = Kept(bubbles, saved) \o Shown(s, saved)
  <2>1. Kept(Append(bubbles, u), saved) = Kept(bubbles, saved) \o Lasting(u, saved)
    BY KeptAppend
  <2>2. Lasting(u, saved) = Shown(s, saved)
    BY LastingBubbles
  <2> QED
    BY <2>1, <2>2
<1>4. Kept(Append(Append(bubbles, u), a), saved) = Kept(Append(bubbles, u), saved)
  <2>1. Lasting(a, saved) = << >>
    BY LastingBubbles
  <2> QED
    BY <1>1, <2>1, KeptWithout
<1> QED
  BY <1>2, <1>3, <1>4

(* All but a streaming bubble at the end.                                  *)
LEMMA KeptSettled ==
  ASSUME NEW bubbles \in Bubbles
  PROVE  \E front \in Bubbles :
           /\ Len(front) = Open(bubbles) - 1 /\ \A i \in DOMAIN front : front[i] = bubbles[i]
           /\ \A saved : Kept(bubbles, saved) = Kept(front, saved)
           /\ \A i \in DOMAIN bubbles : i \in DOMAIN front \/ bubbles[i].role = "assistant"
<1>1. Len(bubbles) \in Nat /\ DOMAIN bubbles = 1 .. Len(bubbles)
  BY BubblesTyped
<1>2. CASE ~View!IsStreaming(bubbles)
  <2>1. Open(bubbles) - 1 = Len(bubbles)
    BY <1>1, <1>2 DEF Open
  <2> QED
    BY <2>1
<1>3. CASE View!IsStreaming(bubbles)
  <2>1. PICK n \in Nat : Len(bubbles) = n + 1 /\ Open(bubbles) - 1 = n
    <3>1. Len(bubbles) - 1 \in Nat /\ Len(bubbles) = (Len(bubbles) - 1) + 1
      BY <1>1, <1>3 DEF View!IsStreaming
    <3>2. Open(bubbles) = Len(bubbles)
      BY <1>3 DEF Open
    <3> QED
      BY <3>1, <3>2
  <2>2. PICK front \in Bubbles :
           /\ Len(front) = n /\ \A i \in 1 .. n : front[i] = bubbles[i]
           /\ bubbles = Append(front, bubbles[n + 1])
           /\ \A saved : Kept(bubbles, saved) = Kept(front, saved) \o Lasting(bubbles[n + 1], saved)
    BY <2>1, KeptFront
  <2>3. bubbles[n + 1].role = "assistant" /\ bubbles[n + 1].state = "streaming"
    BY <1>3, <2>1 DEF View!IsStreaming, View!Last
  <2>4. ASSUME NEW saved
        PROVE  Kept(bubbles, saved) = Kept(front, saved)
    <3>1. Lasting(bubbles[n + 1], saved) = << >>
      BY <2>3 DEF Lasting, Stays
    <3>2. n + 1 \in DOMAIN bubbles
      BY <1>1, <2>1
    <3>3. bubbles[n + 1] \in View!Bubble
      BY <3>2 DEF Bubbles
    <3>4. Kept(front, saved) \in Bubbles
      BY <3>3, KeptAppend
    <3> QED
      BY <2>2, <3>1, <3>4, ConcatEmptySeq DEF Bubbles
  <2>5. DOMAIN front = 1 .. n
    BY <2>2, BubblesTyped
  <2>6. \A i \in DOMAIN bubbles : i \in 1 .. n \/ i = n + 1
    BY <1>1, <2>1
  <2> QED
    BY <2>1, <2>2, <2>3, <2>4, <2>5, <2>6
<1> QED
  BY <1>2, <1>3

LEMMA SameThread ==
  ASSUME NEW one \in Bubbles, NEW other \in Bubbles, Len(one) = Len(other),
         \A i \in DOMAIN one : one[i] = other[i]
  PROVE  one = other
BY DEF Bubbles

(* What a frame adds for good.                                             *)
Added(state, saying) ==
  IF state = "done" THEN << [role |-> "assistant", says |-> saying, state |-> "done"] >> ELSE << >>

LEMMA KeptUpdated ==
  ASSUME NEW bubbles \in Bubbles, NEW state \in {"streaming", "done", "error"}, NEW saying \in SUBSET Sends,
         NEW saved, NEW after, after = View!UpdateLastAssistant(bubbles, state, saying)
  PROVE  Kept(after, saved) = Kept(bubbles, saved) \o Added(state, saying)
<1> PICK k : k = Open(bubbles)
  OBVIOUS
<1> PICK said : said = SaidThere(bubbles)
  OBVIOUS
<1>1. /\ after \in Bubbles /\ Len(after) = k /\ k \in 1 .. Len(bubbles) + 1
      /\ \A i \in 1 .. k - 1 : i \in DOMAIN bubbles /\ after[i] = bubbles[i]
      /\ after[k].role = "assistant" /\ after[k].state = state
      /\ after[k].says = IF state = "done" THEN saying ELSE said \cup saying
  <2>1. Updated(bubbles, after, state, saying, k, said)
    BY UpdatedThread
  <2> QED
    BY <2>1 DEF Updated
<1>2. PICK n \in Nat : k = n + 1
  <2>1. k - 1 \in Nat /\ k = (k - 1) + 1
    BY <1>1, BubblesTyped
  <2> QED
    BY <2>1
<1>3. PICK front \in Bubbles :
           /\ Len(front) = n /\ \A i \in DOMAIN front : front[i] = bubbles[i]
           /\ Kept(bubbles, saved) = Kept(front, saved)
  <2>1. Open(bubbles) - 1 = n
    BY <1>2
  <2> QED
    BY <2>1, KeptSettled
<1>4. PICK rest \in Bubbles :
           /\ Len(rest) = n /\ \A i \in 1 .. n : rest[i] = after[i]
           /\ Kept(after, saved) = Kept(rest, saved) \o Lasting(after[n + 1], saved)
  BY <1>1, <1>2, KeptFront, ZenonT(30)
<1>5. rest = front
  <2>1. \A i \in 1 .. n : after[i] = bubbles[i]
    BY <1>1, <1>2
  <2>2. DOMAIN front = 1 .. n /\ DOMAIN rest = 1 .. n
    BY <1>3, <1>4, BubblesTyped
  <2> QED
    BY <1>3, <1>4, <2>1, <2>2, SameThread
<1>6. Lasting(after[n + 1], saved) = Added(state, saying)
  <2> PICK b \in View!Bubble : b = after[n + 1]
    <3>1. n + 1 \in DOMAIN after
      BY <1>1, <1>2, BubblesTyped
    <3> QED
      BY <1>1, <3>1 DEF Bubbles
  <2>1. b.role = "assistant" /\ b.state = state /\ (state = "done" => b.says = saying)
    BY <1>1, <1>2
  <2>2. state = "done" => b = [role |-> "assistant", says |-> saying, state |-> "done"]
    BY <2>1 DEF View!Bubble
  <2> QED
    BY <2>1, <2>2 DEF Lasting, Stays, Added
<1> QED
  BY <1>3, <1>4, <1>5, <1>6

(* A message is saved that the thread waits with.                          *)
LEMMA KeptSaved ==
  ASSUME NEW bubbles \in Bubbles, Tidy(bubbles), NEW s \in Sends, View!AwaitsReply(bubbles, s),
         NEW saved, s \notin saved,
         \A i, j \in DOMAIN bubbles :
           bubbles[i] = View!UserBubble(s) /\ bubbles[j] = bubbles[i] => j = i
  PROVE  Kept(bubbles, saved \cup {s}) = Append(Kept(bubbles, saved), View!UserBubble(s))
<1> PICK after : after = saved \cup {s}
  OBVIOUS
<1> PICK u \in View!Bubble : u = View!UserBubble(s)
  BY NewBubbles
<1>1. PICK n \in Nat : Open(bubbles) - 1 = n + 1 /\ n + 1 \in DOMAIN bubbles /\ bubbles[n + 1] = u
  <2>1. Open(bubbles) - 1 \in 1 .. Len(bubbles) /\ bubbles[Open(bubbles) - 1] = u
    BY AwaitedIsInFront
  <2>2. (Open(bubbles) - 1) - 1 \in Nat
    BY <2>1, BubblesTyped
  <2> QED
    BY <2>1, <2>2, BubblesTyped
<1>2. PICK front \in Bubbles :
           /\ Len(front) = n + 1 /\ \A i \in DOMAIN front : front[i] = bubbles[i]
           /\ \A set : Kept(bubbles, set) = Kept(front, set)
           /\ \A i \in DOMAIN bubbles : i \in DOMAIN front \/ bubbles[i].role = "assistant"
  BY <1>1, KeptSettled
<1>3. DOMAIN front = 1 .. n + 1 /\ front[n + 1] = u
  BY <1>1, <1>2, BubblesTyped
<1>4. PICK rest \in Bubbles :
           /\ Len(rest) = n /\ \A i \in 1 .. n : rest[i] = front[i]
           /\ \A set : Kept(front, set) = Kept(rest, set) \o Lasting(u, set)
  <2>1. \E rest \in Bubbles :
           /\ Len(rest) = n /\ \A i \in 1 .. n : rest[i] = front[i]
           /\ front = Append(rest, front[n + 1])
           /\ \A set : Kept(front, set) = Kept(rest, set) \o Lasting(front[n + 1], set)
    BY <1>2, KeptFront
  <2> QED
    BY <1>3, <2>1
<1>5. Kept(rest, after) = Kept(rest, saved)
  <2> SUFFICES ASSUME NEW i \in DOMAIN rest
               PROVE  Stays(rest[i], saved) <=> Stays(rest[i], after)
    BY KeptAlike
  <2>1. i \in 1 .. n /\ i \in DOMAIN bubbles /\ rest[i] = bubbles[i] /\ i # n + 1
    <3>1. i \in 1 .. n /\ n + 1 \in 1 .. Len(bubbles)
      BY <1>1, <1>4, BubblesTyped
    <3>2. i \in DOMAIN front /\ i \in 1 .. Len(bubbles)
      BY <1>3, <3>1, BubblesTyped
    <3> QED
      BY <1>2, <1>4, <3>1, <3>2, BubblesTyped
  <2>2. CASE rest[i].role # "user"
    BY <2>2 DEF Stays
  <2>3. CASE rest[i].role = "user"
    <3>1. PICK t \in Sends : rest[i] = View!UserBubble(t)
      BY <2>1, <2>3 DEF Tidy
    <3>2. t # s
      BY <1>1, <2>1, <3>1
    <3>3. rest[i].says = {t}
      BY <3>1, NewBubbles
    <3> QED
      BY <2>3, <3>2, <3>3 DEF Stays
  <2> QED
    BY <2>2, <2>3
<1>6. Lasting(u, after) = << u >> /\ Lasting(u, saved) = << >>
  <2>1. Lasting(u, after) = Shown(s, after) /\ Lasting(u, saved) = Shown(s, saved)
    BY LastingBubbles
  <2> QED
    BY <2>1 DEF Shown
<1>7. Kept(rest, saved) \in Bubbles
  BY KeptAppend
<1>8. Kept(bubbles, saved) = Kept(rest, saved)
  BY <1>2, <1>4, <1>6, <1>7, ConcatEmptySeq DEF Bubbles
<1>9. Kept(bubbles, after) = Kept(rest, saved) \o << u >>
  BY <1>2, <1>4, <1>5, <1>6
<1>10. Kept(rest, saved) \o << u >> = Append(Kept(rest, saved), u)
  BY <1>7 DEF Bubbles
<1> QED
  BY <1>8, <1>9, <1>10

-----------------------------------------------------------------------------
(* The rows and the stream.                                                *)
LEMMA OnceAppend ==
  ASSUME NEW entries \in Seq(Entry), EachOnce(entries), NEW e \in Entry, NEW n \in Nat, n = Len(entries),
         IF e.type = "UserMessage" THEN \A i \in 1 .. n : entries[i].turn # e.turn
         ELSE n > 0 /\ Unended(entries[n]) /\ entries[n].turn = e.turn
  PROVE  EachOnce(Append(entries, e))
<1> PICK after : after = Append(entries, e)
  OBVIOUS
<1>1. /\ Len(after) = n + 1 /\ DOMAIN after = 1 .. n + 1 /\ DOMAIN entries = 1 .. n /\ after[n + 1] = e
      /\ \A i \in 1 .. n : after[i] = entries[i] /\ entries[i] \in Entry
  OBVIOUS
<1>2. ASSUME NEW i \in 1 .. n
      PROVE  /\ IF after[i].type = "UserMessage" THEN \A j \in 1 .. i - 1 : after[j].turn # after[i].turn
                ELSE \E j \in 1 .. i - 1 : after[j] = [type |-> "UserMessage", turn |-> after[i].turn]
             /\ ~Unended(after[i]) => \A j \in i + 1 .. n + 1 : after[j].turn # after[i].turn
  <2>1. \A j \in 1 .. i - 1 : j \in 1 .. n
    OBVIOUS
  <2>2. IF after[i].type = "UserMessage" THEN \A j \in 1 .. i - 1 : after[j].turn # after[i].turn
        ELSE \E j \in 1 .. i - 1 : after[j] = [type |-> "UserMessage", turn |-> after[i].turn]
    BY <1>1, <2>1 DEF EachOnce
  <2>3. ASSUME ~Unended(after[i]), NEW j \in i + 1 .. n + 1
        PROVE  after[j].turn # after[i].turn
    <3>1. CASE j \in i + 1 .. n
      <4>1. j \in 1 .. n
        BY <3>1
      <4> QED
        BY <1>1, <2>3, <3>1, <4>1, ZenonT(30) DEF EachOnce
    <3>2. CASE j = n + 1
      <4>1. after[j] = e /\ after[i] = entries[i]
        BY <1>1, <3>2
      <4>2. CASE e.type = "UserMessage"
        BY <4>1, <4>2
      <4>3. CASE e.type # "UserMessage"
        <5>1. n > 0 /\ Unended(entries[n]) /\ entries[n].turn = e.turn
          BY <4>3
        <5>2. i # n
          BY <2>3, <4>1, <5>1
        <5>3. n \in i + 1 .. n
          BY <5>2
        <5>4. entries[n].turn # entries[i].turn
          BY <1>1, <2>3, <4>1, <5>3 DEF EachOnce
        <5> QED
          BY <4>1, <5>1, <5>4
      <4> QED
        BY <4>2, <4>3
    <3> QED
      BY <3>1, <3>2
  <2> QED
    BY <2>2, <2>3
<1>3. /\ IF e.type = "UserMessage" THEN \A j \in 1 .. n : after[j].turn # e.turn
         ELSE \E j \in 1 .. n : after[j] = [type |-> "UserMessage", turn |-> e.turn]
  <2>1. CASE e.type = "UserMessage"
    BY <1>1, <2>1
  <2>2. CASE e.type # "UserMessage"
    <3>1. n \in 1 .. n /\ entries[n].turn = e.turn
      BY <2>2
    <3>2. CASE entries[n].type = "UserMessage"
      <4>1. entries[n] = [type |-> "UserMessage", turn |-> e.turn]
        BY <1>1, <3>1, <3>2 DEF Entry
      <4> QED
        BY <1>1, <2>2, <3>1, <4>1
    <3>3. CASE entries[n].type # "UserMessage"
      <4>1. PICK j \in 1 .. n - 1 : entries[j] = [type |-> "UserMessage", turn |-> e.turn]
        BY <1>1, <3>1, <3>3, SMTT(30) DEF EachOnce
      <4>2. j \in 1 .. n
        OBVIOUS
      <4>3. after[j] = entries[j]
        BY <1>1, <4>2
      <4> QED
        BY <2>2, <4>1, <4>2, <4>3
    <3> QED
      BY <3>2, <3>3
  <2> QED
    BY <2>1, <2>2
<1>4. \A i \in 1 .. n + 1 : i \in 1 .. n \/ (i = n + 1 /\ i - 1 = n /\ i + 1 .. n + 1 = {})
  OBVIOUS
<1>5. EachOnce(after)
  <2> SUFFICES ASSUME NEW i \in 1 .. n + 1
               PROVE  /\ IF after[i].type = "UserMessage" THEN \A j \in 1 .. i - 1 : after[j].turn # after[i].turn
                         ELSE \E j \in 1 .. i - 1 : after[j] = [type |-> "UserMessage", turn |-> after[i].turn]
                      /\ ~Unended(after[i]) => \A j \in i + 1 .. n + 1 : after[j].turn # after[i].turn
    BY <1>1, SMTT(30) DEF EachOnce
  <2>1. CASE i \in 1 .. n
    BY <1>2, <2>1
  <2>2. CASE i = n + 1
    <3>1. i - 1 = n /\ i + 1 .. n + 1 = {} /\ after[i] = e
      BY <1>1, <2>2
    <3> QED
      BY <1>3, <3>1
  <2> QED
    BY <1>4, <2>1, <2>2
<1> QED
  BY <1>5

(* A turn is on the stream once, and has ended there once it is over.      *)
LEMMA TurnsStep ==
  ASSUME Faults \subseteq QuietFaults, ChatInv, [Next]_vars, TurnsInv
  PROVE  TurnsInv'
<1> PICK n \in Nat : n = Len(log)
  BY LogTyped DEF ChatInv
<1> PICK before : before = log
  OBVIOUS
<1> PICK after : after = log'
  OBVIOUS
<1>0. /\ before \in Seq(Entry) /\ EachOnce(before) /\ DOMAIN before = 1 .. n /\ Len(before) = n
      /\ \A i \in 1 .. n : before[i] \in Entry /\ before[i].turn \in Sends
  BY LogTyped DEF ChatInv, TypeOK, StoreTypeOK, TurnsInv
<1>1. ASSUME NEW type \in {"UserMessage", "Delta", "MessageDone", "Error"}, NEW s \in Sends, XAdd(type, s),
             IF type = "UserMessage" THEN \A i \in 1 .. n : before[i].turn # s
             ELSE n > 0 /\ Unended(before[n]) /\ before[n].turn = s
      PROVE  EachOnce(after)
  <2> PICK e \in Entry : e = [type |-> type, turn |-> s]
    BY DEF Entry
  <2>1. after = Append(before, e) /\ e.type = type /\ e.turn = s
    BY <1>1 DEF XAdd
  <2> QED
    BY <1>0, <1>1, <2>1, OnceAppend
<1>2. ASSUME NEW s \in Sends, Streaming(s)
      PROVE  n > 0 /\ Unended(before[n]) /\ before[n].turn = s
  BY <1>2 DEF ChatInv, StreamInv
<1>3. ASSUME NEW s \in Sends, Opens(s)
      PROVE  EachOnce(after)
  <2>1. XAdd("UserMessage", s) /\ sendPc[s] = "announce"
    BY <1>3 DEF Opens, AnnounceUserMessage, SendGoes
  <2>2. ASSUME NEW i \in 1 .. n
        PROVE  before[i].turn # s
    <3>1. sendPc[before[i].turn] \in {"enqueue", "accepted"}
      BY <1>0 DEF ChatInv, StreamInv, InOrder
    <3> QED
      BY <2>1, <3>1
  <2> QED
    BY <1>1, <2>1, <2>2
<1>4. ASSUME NEW s \in Sends, StreamGoesOn(s)
      PROVE  EachOnce(after)
  <2>1. CASE Adds(s) \/ Closes(s)
    <3>1. PICK type \in {"Delta", "MessageDone", "Error"} : XAdd(type, s)
      BY <2>1 DEF Adds, Closes
    <3>2. Streaming(s)
      BY <2>1 DEF Adds, Closes
    <3> QED
      BY <1>1, <1>2, <3>1, <3>2
  <2>2. CASE Silent(s)
    BY <1>0, <2>2 DEF Silent
  <2> QED
    BY <1>3, <1>4, <2>1, <2>2 DEF StreamGoesOn
<1>5. EachOnce(after)
  <2>1. CASE UNCHANGED log
    BY <1>0, <2>1
  <2> QED
    BY <1>4, <2>1, StreamStep DEF ChatInv
<1>6. ASSUME NEW s \in Sends, sendPc'[s] \in {"enqueue", "accepted"}
      PROVE  Streaming(s)' \/ Ended(s)'
  <2>1. CASE sendPc[s] \notin {"enqueue", "accepted"}
    <3>1. sendPc'[s] = "enqueue"
      BY <1>6, <2>1, SendStep DEF ChatInv
    <3> QED
      BY <3>1 DEF Streaming
  <2>2. CASE Ended(s)
    <3>1. PICK i \in DOMAIN log : ~Unended(log[i]) /\ log[i].turn = s
      BY <2>2 DEF Ended
    <3>2. i \in DOMAIN log' /\ log'[i] = log[i]
      <4>1. log' \in Seq(Entry) /\ DOMAIN log' = 1 .. Len(log')
        BY TypeStep DEF ChatInv, TypeOK, StoreTypeOK
      <4> QED
        BY <4>1, LogKept, LogTyped DEF ChatInv
    <3> QED
      BY <3>1, <3>2 DEF Ended, Unended
  <2>3. CASE Streaming(s)
    <3>1. ASSUME NEW type \in {"MessageDone", "Error"}, XAdd(type, s)
          PROVE  Ended(s)'
      <4>1. /\ DOMAIN log' = 1 .. n + 1 /\ log'[n + 1].type = type /\ log'[n + 1].turn = s
        BY <3>1, LogAppended DEF ChatInv
      <4> QED
        BY <3>1, <4>1 DEF Ended, Unended
    <3>2. ASSUME NEW t \in Sends, StreamGoesOn(t)
          PROVE  Streaming(s)' \/ Ended(s)'
      <4>1. CASE t # s
        BY <2>3, <3>2, <4>1 DEF StreamGoesOn
      <4>2. CASE t = s
        BY <2>3, <3>1, <3>2, <4>2 DEF StreamGoesOn, Opens, Adds, Closes, Silent
      <4> QED
        BY <4>1, <4>2
    <3> QED
      BY <2>3, <3>2, StreamStep DEF ChatInv
  <2> QED
    BY <2>1, <2>2, <2>3 DEF TurnsInv
<1> QED
  BY <1>5, <1>6 DEF TurnsInv, EachOnce, Unended

(* What GET messages makes of a row.                                       *)
RowBubble(row) == [role |-> row.role, says |-> {row.turn}, state |-> "done"]

LEMMA ReplayedRows ==
  ASSUME NEW rows \in Seq(Row)
  PROVE  /\ View!Replay(rows, {}) = [i \in DOMAIN rows |-> RowBubble(rows[i])]
         /\ View!Replay(rows, {}) \in Bubbles
<1>1. View!Replay(rows, {}) = [i \in DOMAIN rows |-> RowBubble(rows[i])]
  BY DEF View!Replay, RowBubble
<1>2. [i \in DOMAIN rows |-> RowBubble(rows[i])] \in [1 .. Len(rows) -> View!Bubble]
  <2> SUFFICES ASSUME NEW i \in 1 .. Len(rows)
               PROVE  RowBubble(rows[i]) \in View!Bubble
    OBVIOUS
  <2>1. rows[i] \in Row
    OBVIOUS
  <2> QED
    BY <2>1 DEF Row, RowBubble, View!Bubble
<1> QED
  BY <1>1, <1>2 DEF Bubbles

LEMMA ReplayedAppend ==
  ASSUME NEW rows \in Seq(Row), NEW row \in Row
  PROVE  View!Replay(Append(rows, row), {}) = Append(View!Replay(rows, {}), RowBubble(row))
<1> PICK n : n = Len(rows)
  OBVIOUS
<1> PICK all : all = Append(rows, row)
  OBVIOUS
<1> PICK old : old = View!Replay(rows, {})
  OBVIOUS
<1> PICK new : new = View!Replay(all, {})
  OBVIOUS
<1> PICK b \in View!Bubble : b = RowBubble(row)
  BY DEF Row, RowBubble, View!Bubble
<1>1. /\ n \in Nat /\ DOMAIN rows = 1 .. n /\ DOMAIN all = 1 .. n + 1 /\ all \in Seq(Row)
      /\ \A i \in 1 .. n : all[i] = rows[i]
      /\ all[n + 1] = row
  OBVIOUS
<1>2. /\ old \in Bubbles /\ new \in Bubbles
      /\ old = [i \in 1 .. n |-> RowBubble(rows[i])]
      /\ new = [i \in 1 .. n + 1 |-> RowBubble(all[i])]
  BY <1>1, ReplayedRows
<1>3. Len(old) = n /\ Len(new) = n + 1 /\ DOMAIN old = 1 .. n
  BY <1>1, <1>2 DEF Bubbles
<1>4. PICK other : other = Append(old, b)
  OBVIOUS
<1>5. /\ other \in Bubbles /\ Len(other) = n + 1 /\ other[n + 1] = b
      /\ \A i \in 1 .. n : other[i] = old[i]
  <2>1. /\ other \in Bubbles /\ Len(other) = Len(old) + 1
        /\ \A i \in DOMAIN old : other[i] = old[i]
        /\ other[Len(old) + 1] = b
    BY <1>2, <1>4, AppendedThread, ZenonT(30)
  <2> QED
    BY <1>3, <2>1
<1>6. \A i \in 1 .. n + 1 : new[i] = other[i]
  <2>1. \A i \in 1 .. n + 1 : i \in 1 .. n \/ i = n + 1
    BY <1>1
  <2>2. \A i \in 1 .. n : new[i] = RowBubble(rows[i]) /\ other[i] = RowBubble(rows[i])
    BY <1>1, <1>2, <1>5
  <2>3. new[n + 1] = RowBubble(row)
    BY <1>1, <1>2
  <2> QED
    BY <1>5, <2>1, <2>2, <2>3
<1>7. new = other
  BY <1>2, <1>3, <1>5, <1>6, SameThread, BubblesTyped
<1> QED
  BY <1>4, <1>7

-----------------------------------------------------------------------------
(* A step that says something for good, or gives it to be said.            *)
Speaks(s) == PersistUserMessage(s) \/ AnnounceUserMessage(s) \/ SaveReply(s) \/ PublishDone(s)

Saying == {"caching", "publishing"}

NothingSaid ==
  /\ UNCHANGED messages
  /\ UNCHANGED log \/ \E s \in Sends, type \in {"Delta", "Error"} : XAdd(type, s)
  /\ \A s \in Sends : /\ sendPc'[s] = "announce" <=> sendPc[s] = "announce"
                      /\ job'[s] \in Saying <=> job[s] \in Saying

LEMMA SpeechStep ==
  ASSUME Faults \subseteq QuietFaults, TypeOK, SerialInv, [Next]_vars
  PROVE  NothingSaid \/ \E s \in Sends : Speaks(s)
<1> USE DEF TypeOK, SendTypeOK, JobTypeOK, JobStates, NothingSaid, Saying
<1>1. ASSUME NEW s \in Sends, SendProgress(s), ~PersistUserMessage(s), ~AnnounceUserMessage(s)
      PROVE  NothingSaid
  <2>1. UNCHANGED << messages, log >>
    BY <1>1 DEF SendProgress, ReadCursor, Reserve, RejectTurnInProgress,
          ReadUserSequence, PersistConflict, EnqueueChatReply, storeVars, streamVars
  <2>2. \A t \in Sends : sendPc'[t] = "announce" <=> sendPc[t] = "announce"
    BY <1>1 DEF SendProgress, SendGoes, ReadCursor, Reserve, RejectTurnInProgress,
          ReadUserSequence, PersistConflict, EnqueueChatReply
  <2>3. \A t \in Sends : job'[t] \in Saying <=> job[t] \in Saying
    <3>1. UNCHANGED job \/ EnqueueChatReply(s)
      BY <1>1 DEF SendProgress, ReadCursor, Reserve, RejectTurnInProgress, ReadUserSequence, PersistConflict
    <3>2. EnqueueChatReply(s) => job[s] = "none"
      BY DEF EnqueueChatReply, SendGoes, SerialInv, RunsOnce
    <3> QED
      BY <3>1, <3>2 DEF EnqueueChatReply
  <2> QED
    BY <2>1, <2>2, <2>3
<1>2. ASSUME NEW s \in Sends,
             StartJob(s) \/ LoadPromptHistory(s) \/ ModelUnavailable(s) \/ ToolFails(s) \/ ReadReplySequence(s)
      PROVE  NothingSaid
  BY <1>2, SMTT(30) DEF JobGoes, StartJob, LoadPromptHistory, ModelUnavailable, ToolFails,
        ReadReplySequence, sendVars, storeVars, streamVars
<1>3. ASSUME NEW s \in Sends, StreamDelta(s) \/ PublishUnavailable(s) \/ PublishError(s)
      PROVE  NothingSaid
  <2>1. UNCHANGED messages /\ \E type \in {"Delta", "Error"} : XAdd(type, s)
    BY <1>3 DEF StreamDelta, PublishUnavailable, PublishError
  <2>2. \A t \in Sends : sendPc'[t] = sendPc[t] /\ (job'[t] \in Saying <=> job[t] \in Saying)
    BY <1>3 DEF StreamDelta, PublishUnavailable, PublishError, JobGoes, sendVars
  <2> QED
    BY <2>1, <2>2
<1>4. ASSUME NEW s \in Sends, RecordTurnFailure(s) \/ ClearFlag(s) \/ CacheReply(s)
      PROVE  NothingSaid
  BY <1>4 DEF JobGoes, RecordTurnFailure, ClearFlag, CacheReply, streamVars, sendVars
<1>5. ASSUME NEW s \in Sends, ExpireStream(s)
      PROVE  NothingSaid
  BY <1>5 DEF JobGoes, ExpireStream, AfterAttempt, SerialInv, RunsOnce, sendVars
<1>6. ASSUME NEW s \in Sends, SaveReplyFails(s)
      PROVE  FALSE
  BY <1>6 DEF SaveReplyFails, ReplyUnsavable, SequenceFree, JobGoes, SerialInv, SequenceIsFresh, NextSequence,
              StoreTypeOK, QuietFaults
<1>7. ASSUME NEW s \in Sends, \/ EndpointFails(s) \/ RedisFails(s) \/ Redeliver(s) \/ Crash(s)
                              \/ \E why \in {"timeout", "shutdown"} : Cancel(s, why)
      PROVE  FALSE
  BY <1>7 DEF EndpointFails, RedisFails, Redeliver, Crash, Cancel, JobGoes, SerialInv, RunsOnce, QuietFaults
<1>8. CASE UNCHANGED << messages, log, sendPc, job >>
  BY <1>8
<1> QED
  <2>1. \/ \E s \in Sends : SendProgress(s) \/ EndpointFails(s) \/ JobAction(s)
        \/ UNCHANGED << messages, log, sendPc, job >>
    BY DEF Next, SendAction, FlagExpires, StreamExpires, CacheExpires, Quiet, vars, jobVars, sendVars, storeVars,
           streamVars
  <2>2. ASSUME NEW s \in Sends, JobAction(s), ~Speaks(s)
        PROVE  NothingSaid
    BY <2>2, <1>2, <1>3, <1>4, <1>5, <1>6, <1>7 DEF JobAction, JobProgress, Speaks
  <2> QED
    BY <2>1, <2>2, <1>1, <1>7, <1>8 DEF Speaks

(* Who has something to say is under way, so it is one turn at most.       *)
LEMMA OneSpeaker ==
  ASSUME SerialInv, NEW s \in Sends, Unspoken(s) # << >>
  PROVE  InFlight(s) /\ flag = s
BY DEF Unspoken, InFlight, Sending, Running, Generating, SerialInv, RunningTurnOwnsReservation

LEMMA ToldAppend ==
  ASSUME NEW entries \in Seq(Entry), NEW e \in Entry, NEW after, after = Append(entries, e)
  PROVE  /\ Told(entries, Len(entries)) \in Bubbles
         /\ Told(after, Len(after)) = Told(entries, Len(entries)) \o Spoken(e)
<1> PICK n \in Nat : n = Len(entries)
  OBVIOUS
<1>1. /\ Len(after) = n + 1 /\ after[n + 1] = e
      /\ \A i \in 1 .. n : after[i] = entries[i]
      /\ \A i \in 1 .. n + 1 : after[i] \in Entry
  OBVIOUS
<1>2. /\ Told(after, n) \in Bubbles
      /\ Told(after, n + 1) = Told(after, n) \o Spoken(e)
  BY <1>1, ToldNext
<1>3. Told(after, n) = Told(entries, n)
  BY <1>1, ToldAlike
<1> QED
  BY <1>1, <1>2, <1>3

(* Deltas and errors say nothing for good.                                 *)
LEMMA SilentEntries ==
  ASSUME NEW type \in {"Delta", "Error"}, NEW s \in Sends
  PROVE  Spoken([type |-> type, turn |-> s]) = << >>
<1> PICK e : e = [type |-> type, turn |-> s]
  OBVIOUS
<1>1. e.type # "UserMessage" /\ e.type # "MessageDone"
  OBVIOUS
<1>2. Spoken(e) = << >>
  BY <1>1 DEF Spoken
<1> QED
  BY <1>2

(* To append an element is to concatenate it.                              *)
LEMMA AppendsOne ==
  ASSUME NEW S, NEW seq \in Seq(S), NEW b
  PROVE  Append(seq, b) = seq \o << b >>
<1> PICK T : T = S \cup {b}
  OBVIOUS
<1>1. seq \in Seq(T) /\ b \in T
  OBVIOUS
<1> QED
  BY <1>1, AppendIsConcat, Zenon

(* One row or entry more, of turn s.                                       *)
LEMMA RowsToldStep ==
  ASSUME Faults \subseteq QuietFaults, TypeOK, SerialInv, [Next]_vars, RowsTold
  PROVE  RowsTold'
<1> PICK rows : rows = View!Replay(messages, {})
  OBVIOUS
<1> PICK told : told = Told(log, Len(log))
  OBVIOUS
<1> PICK rowsAfter : rowsAfter = View!Replay(messages', {})
  OBVIOUS
<1> PICK toldAfter : toldAfter = Told(log', Len(log'))
  OBVIOUS
<1>1. messages \in Seq(Row) /\ log \in Seq(Entry) /\ rows \in Bubbles /\ told \in Bubbles
  <2>1. messages \in Seq(Row) /\ log \in Seq(Entry)
    BY DEF TypeOK, StoreTypeOK
  <2> QED
    BY <2>1, ReplayedRows, ToldTyped
<1>2. /\ \/ rows = told /\ \A s \in Sends : Unspoken(s) = << >>
         \/ \E s \in Sends : Unspoken(s) # << >> /\ rows = told \o Unspoken(s)
      /\ \A s, t \in Sends : Unspoken(s) # << >> /\ Unspoken(t) # << >> => s = t
  BY OneSpeaker DEF RowsTold
<1>3. SUFFICES \/ rowsAfter = toldAfter /\ \A s \in Sends : Unspoken(s)' = << >>
               \/ \E s \in Sends : Unspoken(s)' # << >> /\ rowsAfter = toldAfter \o Unspoken(s)'
  BY DEF RowsTold
<1>4. ASSUME NEW role \in {"user", "assistant"}, NEW s \in Sends, InsertRow(role, s)
      PROVE  rowsAfter = rows \o << IF role = "user" THEN View!UserBubble(s) ELSE ReplyBubble(s) >>
  <2> PICK row \in Row : row = [role |-> role, turn |-> s]
    BY DEF Row
  <2>1. messages' = Append(messages, row)
    BY <1>4 DEF InsertRow
  <2>2. rowsAfter = Append(rows, RowBubble(row))
    BY <1>1, <2>1, ReplayedAppend
  <2>3. RowBubble(row) = IF role = "user" THEN View!UserBubble(s) ELSE ReplyBubble(s)
    BY DEF RowBubble, View!UserBubble, ReplyBubble
  <2>4. ASSUME NEW b
        PROVE  Append(rows, b) = rows \o << b >>
    BY <1>1, AppendsOne DEF Bubbles
  <2> QED
    BY <2>2, <2>3, <2>4
<1>5. ASSUME NEW type \in {"UserMessage", "Delta", "MessageDone", "Error"}, NEW s \in Sends, XAdd(type, s)
      PROVE  toldAfter = told \o Spoken([type |-> type, turn |-> s])
  <2> PICK e \in Entry : e = [type |-> type, turn |-> s]
    BY DEF Entry
  <2>1. log' = Append(log, e)
    BY <1>5 DEF XAdd
  <2> QED
    BY <1>1, <2>1, ToldAppend
(* A turn s alone has something to say, then or now.                       *)
<1>6. ASSUME NEW s \in Sends, Speaks(s)
      PROVE  \A t \in Sends \ {s} : Unspoken(t) = << >> /\ Unspoken(t)' = << >>
  <2>1. InFlight(s)
    BY <1>6 DEF Speaks, PersistUserMessage, AnnounceUserMessage, SaveReply, PublishDone, SendGoes, JobGoes,
                InFlight, Sending, Running, Generating
  <2>2. \A t \in Sends \ {s} : Unspoken(t) = << >>
    BY <2>1, OneSpeaker DEF SerialInv, RunningTurnOwnsReservation
  <2>3. \A t \in Sends \ {s} : sendPc'[t] = sendPc[t] /\ job'[t] = job[t]
    BY <1>6 DEF Speaks, PersistUserMessage, AnnounceUserMessage, SaveReply, PublishDone, SendGoes, JobGoes,
                TypeOK, SendTypeOK, JobTypeOK, sendVars
  <2> QED
    BY <2>2, <2>3 DEF Unspoken
<1>7. CASE NothingSaid
  <2>1. \A s \in Sends : Unspoken(s)' = Unspoken(s)
    BY <1>7 DEF NothingSaid, Unspoken, Saying
  <2>2. rowsAfter = rows
    BY <1>7 DEF NothingSaid
  <2>3. toldAfter = told
    <3>1. CASE UNCHANGED log
      BY <3>1
    <3>2. ASSUME NEW s \in Sends, NEW type \in {"Delta", "Error"}, XAdd(type, s)
          PROVE  toldAfter = told
      BY <1>1, <1>5, <3>2, SilentEntries, ConcatEmptySeq, ZenonT(30) DEF Bubbles
    <3> QED
      BY <1>7, <3>1, <3>2 DEF NothingSaid
  <2> QED
    BY <1>2, <2>1, <2>2, <2>3
<1>8. ASSUME NEW s \in Sends, PersistUserMessage(s)
      PROVE  /\ rowsAfter = toldAfter \o Unspoken(s)' /\ Unspoken(s)' # << >>
  <2>1. Unspoken(s) = << >>
    BY <1>8 DEF PersistUserMessage, SendGoes, Unspoken, SerialInv, RunsOnce
  <2>2. Unspoken(s)' = << View!UserBubble(s) >>
    BY <1>8 DEF PersistUserMessage, SendGoes, Unspoken, TypeOK, SendTypeOK
  <2>3. rows = told
    BY <1>2, <1>6, <1>8, <2>1 DEF Speaks
  <2>4. toldAfter = told /\ rowsAfter = rows \o << View!UserBubble(s) >>
    BY <1>4, <1>8 DEF PersistUserMessage, streamVars
  <2> QED
    BY <2>2, <2>3, <2>4
<1>9. ASSUME NEW s \in Sends, SaveReply(s)
      PROVE  /\ rowsAfter = toldAfter \o Unspoken(s)' /\ Unspoken(s)' # << >>
  <2>1. Unspoken(s) = << >>
    BY <1>9 DEF SaveReply, JobGoes, Unspoken, SerialInv, RunsOnce
  <2>2. Unspoken(s)' = << ReplyBubble(s) >>
    BY <1>9 DEF SaveReply, JobGoes, Unspoken, SerialInv, RunsOnce, TypeOK, JobTypeOK, sendVars
  <2>3. rows = told
    BY <1>2, <1>6, <1>9, <2>1 DEF Speaks
  <2>4. toldAfter = told /\ rowsAfter = rows \o << ReplyBubble(s) >>
    BY <1>4, <1>9 DEF SaveReply, streamVars
  <2> QED
    BY <2>2, <2>3, <2>4
<1>10. ASSUME NEW s \in Sends, AnnounceUserMessage(s) \/ PublishDone(s)
       PROVE  /\ rowsAfter = toldAfter /\ Unspoken(s)' = << >>
  <2>1. PICK type \in {"UserMessage", "MessageDone"} :
          XAdd(type, s) /\ Unspoken(s) = Spoken([type |-> type, turn |-> s]) /\ Unspoken(s) # << >>
    <3>1. CASE AnnounceUserMessage(s)
      <4> PICK e : e = [type |-> "UserMessage", turn |-> s]
        OBVIOUS
      <4>1. Spoken(e) = << View!UserBubble(s) >>
        BY DEF Spoken
      <4> QED
        BY <3>1, <4>1 DEF AnnounceUserMessage, SendGoes, Unspoken
    <3>2. CASE PublishDone(s)
      <4> PICK e : e = [type |-> "MessageDone", turn |-> s]
        OBVIOUS
      <4>1. Spoken(e) = << ReplyBubble(s) >>
        BY DEF Spoken
      <4>2. Unspoken(s) = << ReplyBubble(s) >>
        BY <3>2 DEF PublishDone, JobGoes, Unspoken, SerialInv, RunsOnce
      <4> QED
        BY <3>2, <4>1, <4>2 DEF PublishDone
    <3> QED
      BY <1>10, <3>1, <3>2
  <2>2. Unspoken(s)' = << >>
    BY <1>10 DEF AnnounceUserMessage, PublishDone, SendGoes, JobGoes, Unspoken, SerialInv, RunsOnce,
                 TypeOK, SendTypeOK, JobTypeOK, sendVars
  <2>3. rows = told \o Unspoken(s)
    BY <1>2, <2>1
  <2>4. rowsAfter = rows
    BY <1>10 DEF AnnounceUserMessage, PublishDone
  <2>5. toldAfter = told \o Unspoken(s)
    BY <1>5, <2>1
  <2> QED
    BY <2>2, <2>3, <2>4, <2>5
<1> QED
  BY <1>6, <1>7, <1>8, <1>9, <1>10, SpeechStep DEF Speaks

(* No row is there twice.                                                  *)
LEMMA RowsOnce ==
  ASSUME TypeOK, SerialInv, [Next]_vars, \A i, j \in DOMAIN messages : messages[i] = messages[j] => i = j
  PROVE  \A i, j \in DOMAIN messages' : messages'[i] = messages'[j] => i = j
<1>0. messages \in Seq(Row) /\ Len(messages) \in Nat /\ DOMAIN messages = 1 .. Len(messages)
  BY DEF TypeOK, StoreTypeOK
<1>1. ASSUME NEW s \in Sends, NEW role \in {"user", "assistant"}, InsertRow(role, s),
             \A i \in DOMAIN messages : messages[i] # [role |-> role, turn |-> s]
      PROVE  \A i, j \in DOMAIN messages' : messages'[i] = messages'[j] => i = j
  <2>1. /\ messages'[Len(messages) + 1] = [role |-> role, turn |-> s]
        /\ \A i \in DOMAIN messages : messages'[i] = messages[i]
        /\ DOMAIN messages' = DOMAIN messages \cup {Len(messages) + 1}
    BY <1>0, <1>1, RowsOfAppend
  <2> QED
    BY <1>1, <2>1
<1>2. ASSUME NEW s \in Sends, PersistUserMessage(s)
      PROVE  \A i, j \in DOMAIN messages' : messages'[i] = messages'[j] => i = j
  <2>1. InsertRow("user", s) /\ RowsOf(s) = {}
    BY <1>2, PersistStep DEF SerialInv, RowsInv
  <2>2. \A i \in DOMAIN messages : messages[i] # [role |-> "user", turn |-> s]
    BY <2>1 DEF RowsOf
  <2> QED
    BY <1>1, <2>1, <2>2
<1>3. ASSUME NEW s \in Sends, SaveReply(s)
      PROVE  \A i, j \in DOMAIN messages' : messages'[i] = messages'[j] => i = j
  <2>1. /\ InsertRow("assistant", s) /\ RowsOf(s) = {Len(messages)}
        /\ messages[Len(messages)] = [role |-> "user", turn |-> s]
    BY <1>3, SaveStep DEF SerialInv, RowsInv
  <2>2. \A i \in DOMAIN messages : messages[i] # [role |-> "assistant", turn |-> s]
    BY <2>1 DEF RowsOf
  <2> QED
    BY <1>1, <2>1, <2>2
<1>4. CASE UNCHANGED messages
  BY <1>4
<1> QED
  BY <1>2, <1>3, <1>4, MessagesStep

(* A message that has a row is on the stream, or the next to be.           *)
LEMMA SavedStep ==
  ASSUME Faults \subseteq QuietFaults, TypeOK, SerialInv, [Next]_vars, NEW s \in Sends,
         HasRow("user", s) => sendPc[s] = "announce" \/ Published("UserMessage", s),
         HasRow("user", s)'
  PROVE  sendPc'[s] = "announce" \/ Published("UserMessage", s)'
<1>1. CASE ~HasRow("user", s)
  <2>1. PersistUserMessage(s)
    <3>1. messages \in Seq(Row)
      BY DEF TypeOK, StoreTypeOK
    <3>2. ASSUME NEW t \in Sends, NEW role \in {"user", "assistant"}, InsertRow(role, t)
          PROVE  t = s /\ role = "user"
      <4> PICK row : row = [role |-> "user", turn |-> s]
        OBVIOUS
      <4>1. PICK i \in DOMAIN messages' : messages'[i] = row
        BY DEF HasRow
      <4>2. /\ messages'[Len(messages) + 1] = [role |-> role, turn |-> t]
            /\ \A j \in DOMAIN messages : messages'[j] = messages[j]
            /\ DOMAIN messages' = DOMAIN messages \cup {Len(messages) + 1}
        BY <3>1, <3>2, RowsOfAppend
      <4>3. i \notin DOMAIN messages
        BY <1>1, <4>1, <4>2 DEF HasRow
      <4> QED
        BY <4>1, <4>2, <4>3
    <3>3. ~UNCHANGED messages
      BY <1>1 DEF HasRow
    <3>4. PICK t \in Sends : PersistUserMessage(t) \/ SaveReply(t)
      BY <3>3, MessagesStep
    <3>5. CASE PersistUserMessage(t)
      BY <3>2, <3>5 DEF PersistUserMessage
    <3>6. CASE SaveReply(t)
      BY <3>2, <3>6 DEF SaveReply
    <3> QED
      BY <3>4, <3>5, <3>6
  <2> QED
    BY <2>1 DEF PersistUserMessage, SendGoes, TypeOK, SendTypeOK
<1>2. CASE HasRow("user", s) /\ Published("UserMessage", s)
  BY <1>2, EntriesStay
<1>3. CASE HasRow("user", s) /\ sendPc[s] = "announce"
  <2>1. CASE NothingSaid
    BY <1>3, <2>1 DEF NothingSaid
  <2>2. ASSUME NEW t \in Sends, Speaks(t), ~AnnounceUserMessage(s)
        PROVE  sendPc'[s] = sendPc[s]
    BY <1>3, <2>2 DEF Speaks, PersistUserMessage, AnnounceUserMessage, SaveReply, PublishDone, SendGoes,
                      TypeOK, SendTypeOK, sendVars
  <2>3. CASE AnnounceUserMessage(s)
    BY <2>3, EntryAdded DEF AnnounceUserMessage, TypeOK, StoreTypeOK
  <2> QED
    BY <1>3, <2>1, <2>2, <2>3, SpeechStep
<1> QED
  BY <1>1, <1>2, <1>3

LEMMA SpeechInvStep ==
  ASSUME Faults \subseteq QuietFaults, TypeOK, SerialInv, [Next]_vars, SpeechInv
  PROVE  SpeechInv'
<1>1. \A i, j \in DOMAIN messages' : messages'[i] = messages'[j] => i = j
  BY RowsOnce DEF SpeechInv
<1>2. \A s \in Sends : HasRow("user", s)' => sendPc'[s] = "announce" \/ Published("UserMessage", s)'
  BY SavedStep DEF SpeechInv, Saved
<1>3. ASSUME NEW s \in failures'
      PROVE  sendPc'[s] = "accepted"
  <2>1. failures \subseteq Sends
    BY DEF TypeOK, StoreTypeOK
  <2>2. CASE s \in failures
    BY <2>1, <2>2, SendStep DEF SpeechInv
  <2>3. CASE s \notin failures
    <3>1. s \in Sends /\ RecordTurnFailure(s)
      BY <2>3, FailuresStep DEF RecordTurnFailure
    <3>2. sendPc[s] = "accepted"
      BY <3>1 DEF RecordTurnFailure, JobGoes, SerialInv, RunsOnce
    <3> QED
      BY <3>1, <3>2, SendStep
  <2> QED
    BY <2>2, <2>3
<1>4. RowsTold'
  BY RowsToldStep DEF SpeechInv
<1> QED
  BY <1>1, <1>2, <1>3, <1>4 DEF SpeechInv, Saved

-----------------------------------------------------------------------------
(* What a thread waits for.                                                *)
LEMMA AwaitsOne ==
  ASSUME NEW bubbles \in Bubbles, NEW s \in Sends, View!AwaitsReply(bubbles, s)
  PROVE  /\ \A t \in Sends : View!AwaitsReply(bubbles, t) => t = s
         /\ \E i \in DOMAIN bubbles : bubbles[i] = View!UserBubble(s)
         /\ ~View!Answered(bubbles)
<1>1. Open(bubbles) - 1 \in 1 .. Len(bubbles) /\ bubbles[Open(bubbles) - 1] = View!UserBubble(s)
  BY AwaitedIsInFront
<1>2. Open(bubbles) - 1 \in DOMAIN bubbles
  BY <1>1, BubblesTyped
<1>3. \A t \in Sends : View!AwaitsReply(bubbles, t) => t = s
  BY <1>1, AwaitedIsInFront, NewBubbles
<1>4. ~View!Answered(bubbles)
  BY AnsweredAwaitsNone
<1> QED
  BY <1>1, <1>2, <1>3, <1>4

LEMMA SubmittedAwaits ==
  ASSUME NEW bubbles \in Bubbles, NEW s \in Sends, NEW after, after = View!Submitted(bubbles, s)
  PROVE  /\ after \in Bubbles
         /\ View!IsStreaming(after)
         /\ \A t \in Sends : View!AwaitsReply(after, t) <=> t = s
         /\ \A i \in DOMAIN after : \/ i \in DOMAIN bubbles /\ after[i] = bubbles[i]
                                    \/ i = Len(bubbles) + 1 /\ after[i] = View!UserBubble(s)
                                    \/ after[i].role = "assistant"
         /\ \A i \in DOMAIN bubbles : i \in DOMAIN after /\ after[i] = bubbles[i]
<1> PICK n \in Nat : n = Len(bubbles)
  BY BubblesTyped
<1>1. /\ after \in Bubbles /\ Len(after) = n + 2
      /\ \A i \in DOMAIN bubbles : after[i] = bubbles[i]
      /\ after[n + 1] = View!UserBubble(s)
      /\ after[n + 2] = View!StreamingAssistant
  BY SubmittedThread
<1>2. DOMAIN after = 1 .. n + 2 /\ DOMAIN bubbles = 1 .. n
  BY <1>1, BubblesTyped
<1>3. View!IsStreaming(after) /\ Open(after) = n + 2 /\ Open(after) - 1 = n + 1
  BY <1>1, NewBubbles DEF View!IsStreaming, View!Last, Open
<1>4. \A t \in Sends : View!AwaitsReply(after, t) <=> t = s
  BY <1>1, <1>3, AwaitedIsInFront, NewBubbles
<1>5. \A i \in 1 .. n + 2 : i \in 1 .. n \/ i = n + 1 \/ i = n + 2
  OBVIOUS
<1> QED
  BY <1>1, <1>2, <1>3, <1>4, <1>5, NewBubbles

(* A frame of a reply: the messages stay, and so does what the thread      *)
(* waits for unless the reply is over.                                     *)
LEMMA UpdatedAwaits ==
  ASSUME NEW bubbles \in Bubbles, NEW state \in {"streaming", "done", "error"}, NEW saying \in SUBSET Sends,
         NEW after, after = View!UpdateLastAssistant(bubbles, state, saying)
  PROVE  /\ after \in Bubbles
         /\ View!IsStreaming(after) <=> state = "streaming"
         /\ \A t \in Sends : View!AwaitsReply(after, t) <=> state = "streaming" /\ View!AwaitsReply(bubbles, t)
         /\ \A i \in DOMAIN after : (i \in DOMAIN bubbles /\ after[i] = bubbles[i]) \/ after[i].role = "assistant"
<1> PICK n : n = Open(bubbles)
  OBVIOUS
<1> PICK said : said = SaidThere(bubbles)
  OBVIOUS
<1>1. /\ after \in Bubbles /\ Len(after) = n /\ n \in 1 .. Len(bubbles) + 1
      /\ \A i \in 1 .. n - 1 : i \in DOMAIN bubbles /\ after[i] = bubbles[i]
      /\ after[n].role = "assistant" /\ after[n].state = state
  <2>1. Updated(bubbles, after, state, saying, n, said)
    BY UpdatedThread
  <2> QED
    BY <2>1 DEF Updated
<1>2. n \in Nat /\ n > 0 /\ DOMAIN after = 1 .. n /\ \A i \in 1 .. n : i \in 1 .. n - 1 \/ i = n
  BY <1>1, BubblesTyped
<1>3. View!IsStreaming(after) <=> state = "streaming"
  BY <1>1, <1>2 DEF View!IsStreaming, View!Last
<1>4. ASSUME NEW t \in Sends
      PROVE  View!AwaitsReply(after, t) <=> state = "streaming" /\ View!AwaitsReply(bubbles, t)
  <2>1. CASE state = "streaming"
    <3>1. Open(after) - 1 = Open(bubbles) - 1
      BY <1>1, <1>3, <2>1 DEF Open
    <3>2. n - 1 > 0 => n - 1 \in 1 .. n - 1
      BY <1>2
    <3> QED
      BY <1>1, <2>1, <3>1, <3>2, AwaitedIsInFront
  <2>2. CASE state # "streaming"
    <3>1. Open(after) - 1 = n
      BY <1>1, <1>2, <1>3, <2>2 DEF Open
    <3> QED
      BY <1>1, <2>2, <3>1, AwaitedIsInFront, NewBubbles
  <2> QED
    BY <2>1, <2>2
<1> QED
  BY <1>1, <1>2, <1>3, <1>4

(* The echo of a message that is expected.                                 *)
Echoed(bubbles, after, s) ==
  /\ after \in Bubbles
  /\ View!IsStreaming(after)
  /\ \A t \in Sends : View!AwaitsReply(after, t) <=> t = s
  /\ \A i \in DOMAIN after : \/ i \in DOMAIN bubbles /\ after[i] = bubbles[i]
                             \/ after[i].role = "assistant"
                             \/ /\ ~View!AwaitsReply(bubbles, s)
                                /\ i = Len(bubbles) + 1 /\ after[i] = View!UserBubble(s)
  /\ \A saved : Kept(after, saved) = IF View!AwaitsReply(bubbles, s) THEN Kept(bubbles, saved)
                                     ELSE Kept(bubbles, saved) \o Shown(s, saved)

LEMMA EchoAwaits ==
  ASSUME DistinctTexts, NEW bubbles \in Bubbles, Tidy(bubbles), NEW s \in Sends,
         View!Answered(bubbles) \/ View!AwaitsReply(bubbles, s)
  PROVE  Echoed(bubbles, View!ShowUserMessage(bubbles, s), s)
<1> PICK n \in Nat : n = Len(bubbles)
  BY BubblesTyped
<1> PICK after : after = View!ShowUserMessage(bubbles, s)
  OBVIOUS
<1>0. DOMAIN bubbles = 1 .. n
  BY BubblesTyped
<1>1. CASE View!AwaitsReply(bubbles, s) /\ View!IsStreaming(bubbles)
  <2>1. n > 1 /\ bubbles[n - 1] = View!UserBubble(s)
    BY <1>0, <1>1, AwaitedIsInFront DEF Open
  <2>2. View!SaysTextOf(bubbles[n - 1], s)
    BY <2>1, NewBubbles DEF View!SaysTextOf
  <2>3. after = bubbles
    BY <1>1, <2>1, <2>2 DEF View!ShowUserMessage
  <2> QED
    BY <1>1, <2>3, AwaitsOne DEF Echoed
<1>2. CASE View!AwaitsReply(bubbles, s) /\ ~View!IsStreaming(bubbles)
  <2>1. n > 0 /\ bubbles[n] = View!UserBubble(s)
    BY <1>0, <1>2, AwaitedIsInFront DEF Open
  <2>2. View!SaysTextOf(View!Last(bubbles), s)
    BY <2>1, NewBubbles DEF View!SaysTextOf, View!Last
  <2>3. after = Append(bubbles, View!StreamingAssistant)
    BY <1>2, <2>1, <2>2 DEF View!ShowUserMessage
  <2> PICK b \in View!Bubble : b = View!StreamingAssistant
    BY NewBubbles
  <2>4. /\ after \in Bubbles /\ Len(after) = n + 1
        /\ \A i \in 1 .. n : after[i] = bubbles[i]
        /\ after[n + 1] = b
    BY <1>0, <2>3, AppendedThread
  <2>5. DOMAIN after = 1 .. n + 1 /\ b.role = "assistant" /\ b.state = "streaming"
    BY <2>4, BubblesTyped, NewBubbles
  <2>6. View!IsStreaming(after) /\ Open(after) - 1 = n
    BY <2>4, <2>5 DEF View!IsStreaming, View!Last, Open
  <2>7. \A t \in Sends : View!AwaitsReply(after, t) <=> t = s
    BY <2>1, <2>4, <2>6, AwaitedIsInFront, NewBubbles
  <2>8. ASSUME NEW saved
        PROVE  Kept(after, saved) = Kept(bubbles, saved)
    <3>1. Lasting(b, saved) = << >>
      BY <2>5 DEF Lasting, Stays
    <3> QED
      BY <2>3, <3>1, KeptWithout
  <2>9. \A i \in DOMAIN after : (i \in DOMAIN bubbles /\ after[i] = bubbles[i]) \/ after[i].role = "assistant"
    <3>1. \A i \in 1 .. n + 1 : i \in 1 .. n \/ i = n + 1
      OBVIOUS
    <3> QED
      BY <1>0, <2>4, <2>5, <3>1
  <2> QED
    BY <1>2, <2>4, <2>6, <2>7, <2>8, <2>9 DEF Echoed
<1>3. CASE ~View!AwaitsReply(bubbles, s)
  <2>1. View!Answered(bubbles)
    BY <1>3
  <2>2. ~View!IsStreaming(bubbles) /\ ~(Len(bubbles) > 0 /\ View!SaysTextOf(View!Last(bubbles), s))
    BY <2>1 DEF View!Answered, View!IsStreaming, View!SaysTextOf
  <2>3. after = View!Submitted(bubbles, s)
    BY <2>2 DEF View!ShowUserMessage
  <2>4. \A saved : Kept(after, saved) = Kept(bubbles, saved) \o Shown(s, saved)
    BY <2>3, KeptSubmitted
  <2> QED
    BY <1>3, <2>3, <2>4, SubmittedAwaits DEF Echoed
<1> QED
  BY <1>1, <1>2, <1>3

-----------------------------------------------------------------------------
(* All that is known of the backend where turns fail only in the model and *)
(* its tools.                                                              *)
LEMMA ChatHolds == Faults \subseteq QuietFaults => (Spec => []ChatInv)
<1> SUFFICES ASSUME Faults \subseteq QuietFaults
             PROVE  Spec => []ChatInv
  OBVIOUS
<1>1. "streamTtl" \notin Faults
  BY DEF QuietFaults
<1> QED
  BY <1>1, SerialInvariant, ReplayInvariant, StreamOrdered, AboutSavedMessages, RepliesInOrder, PTL
     DEF ChatInv

(* Before the first request.                                               *)
LEMMA NothingTold == Init => TurnsInv /\ SpeechInv
<1> SUFFICES ASSUME Init
             PROVE  TurnsInv /\ SpeechInv
  OBVIOUS
<1>1. messages = << >> /\ log = << >> /\ failures = {}
      /\ \A s \in Sends : sendPc[s] = "new" /\ job[s] = "none"
  BY DEF Init, StoreInit, SendInit, JobInit
<1>2. TurnsInv
  BY <1>1 DEF TurnsInv, EachOnce
<1>3. View!Replay(messages, {}) = << >>
  <2> PICK rows \in Seq(Row) : rows = << >>
    BY EmptySeq
  <2> PICK bubbles \in Bubbles : bubbles = View!Replay(rows, {}) /\ bubbles = [i \in DOMAIN rows |-> RowBubble(rows[i])]
    BY ReplayedRows
  <2>1. Len(bubbles) = 0
    BY BubblesTyped
  <2>2. bubbles = << >>
    BY <2>1, EmptySeq DEF Bubbles
  <2> QED
    BY <1>1, <2>2
<1>4. Told(log, Len(log)) = << >>
  <2>1. Len(log) = 0
    BY <1>1
  <2> QED
    BY <2>1, ToldNothing
<1>5. \A s \in Sends : Unspoken(s) = << >>
  BY <1>1 DEF Unspoken
<1>6. Saved = {}
  BY <1>1 DEF Saved, HasRow
<1> QED
  BY <1>1, <1>2, <1>3, <1>4, <1>5, <1>6 DEF SpeechInv, RowsTold

(* Where turns fail only in the model and its tools, the stream and the    *)
(* rows tell the same story: a turn is on the stream once, from its        *)
(* message to one end, and the rows are what the stream has said so far,   *)
(* or one message or reply ahead of it while that is being announced.      *)
THEOREM StreamTellsTheRows == Faults \subseteq QuietFaults => (Spec => [](TurnsInv /\ SpeechInv))
<1> SUFFICES ASSUME Faults \subseteq QuietFaults
             PROVE  Spec => [](TurnsInv /\ SpeechInv)
  OBVIOUS
<1>1. ChatInv /\ TurnsInv /\ SpeechInv /\ [Next]_vars => (TurnsInv /\ SpeechInv)'
  <2> SUFFICES ASSUME ChatInv, TurnsInv, SpeechInv, [Next]_vars
               PROVE  TurnsInv' /\ SpeechInv'
    OBVIOUS
  <2>1. TypeOK /\ SerialInv
    BY DEF ChatInv
  <2>2. TurnsInv'
    BY TurnsStep
  <2>3. SpeechInv'
    BY <2>1, SpeechInvStep
  <2> QED
    BY <2>2, <2>3
<1> QED
  BY <1>1, NothingTold, ChatHolds, PTL DEF Spec

(* All that is known of the backend, with the story it tells.              *)
TellingInv == ChatInv /\ TurnsInv /\ SpeechInv /\ DoneIsSavedOrWarned

LEMMA TellingHolds == Faults \subseteq QuietFaults => (Spec => []TellingInv)
<1> SUFFICES ASSUME Faults \subseteq QuietFaults
             PROVE  Spec => []TellingInv
  OBVIOUS
<1> QED
  BY ChatHolds, StreamTellsTheRows, DoneMeansSavedOrWarned, PTL DEF TellingInv

(* A reply that was announced has its row.                                 *)
LEMMA DoneHasItsRow ==
  ASSUME TellingInv, NEW s \in Sends, Published("MessageDone", s)
  PROVE  HasRow("assistant", s)
<1>1. ~Published("PersistenceFailed", s)
  BY DEF TellingInv, ChatInv, StreamInv, InOrder, Published
<1> QED
  BY <1>1 DEF TellingInv, DoneIsSavedOrWarned

(* A message on the stream was accepted, or is about to be.                *)
LEMMA ReadIsAccepted ==
  ASSUME StreamInv, NEW i \in DOMAIN log
  PROVE  sendPc[log[i].turn] \in {"enqueue", "accepted"} /\ log[i].turn \notin Refused
BY DEF StreamInv, InOrder, Refused, SendAnswers

(* A refused message has no row.                                           *)
LEMMA RefusedIsUnsaved ==
  ASSUME StreamInv, SpeechInv, NEW s \in Sends, sendPc[s] \in (SendAnswers \ {"accepted"}) \cup {"new"}
  PROVE  s \notin Saved
<1> SUFFICES ASSUME s \in Saved
             PROVE  FALSE
  OBVIOUS
<1>1. Published("UserMessage", s)
  BY DEF SpeechInv, SendAnswers
<1>2. PICK i \in DOMAIN log : log[i].turn = s
  BY <1>1 DEF Published
<1> QED
  BY <1>2, ReadIsAccepted DEF SendAnswers

(* A step of one request, and of a job.                                    *)
LEMMA RequestMoves ==
  ASSUME NEW t \in Sends, SendAction(t)
  PROVE  sendPc[t] \in SendSteps /\ \E to : sendPc' = [sendPc EXCEPT ![t] = to]
BY DEF SendAction, SendProgress, EndpointFails, Sending, ReadCursor, Reserve, RejectTurnInProgress,
       ReadUserSequence, PersistUserMessage, PersistConflict, AnnounceUserMessage, EnqueueChatReply,
       SendGoes, SendSteps

LEMMA JobsAnswerNothing ==
  ASSUME NEW t \in Sends, JobAction(t)
  PROVE  UNCHANGED sendPc
BY DEF JobAction, JobProgress, StartJob, LoadPromptHistory, StreamDelta, ModelUnavailable,
       PublishUnavailable, ToolFails, ReadReplySequence, SaveReply, SaveReplyFails, CacheReply,
       PublishDone, PublishError, RecordTurnFailure, ClearFlag, ExpireStream, RedisFails, Redeliver,
       Cancel, Crash, sendVars

(* An answer is the last thing a request does.                             *)
LEMMA AnswersStay ==
  ASSUME TypeOK, [Next]_vars, NEW s \in Sends, sendPc[s] \in SendAnswers
  PROVE  sendPc'[s] = sendPc[s]
<1>1. CASE UNCHANGED sendPc
  BY <1>1
<1>2. ASSUME NEW t \in Sends, SendAction(t)
      PROVE  sendPc'[s] = sendPc[s]
  <2>1. PICK to : sendPc[t] \in SendSteps /\ sendPc' = [sendPc EXCEPT ![t] = to]
    BY <1>2, RequestMoves
  <2>2. s # t
    BY <2>1 DEF SendSteps, SendAnswers
  <2> QED
    BY <2>1, <2>2 DEF TypeOK, SendTypeOK
<1>3. ASSUME NEW t \in Sends, JobAction(t)
      PROVE  UNCHANGED sendPc
  BY <1>3, JobsAnswerNothing
<1>4. FlagExpires \/ StreamExpires \/ CacheExpires \/ Quiet \/ UNCHANGED vars => UNCHANGED sendPc
  BY DEF FlagExpires, StreamExpires, CacheExpires, Quiet, vars, sendVars
<1> QED
  BY <1>1, <1>2, <1>3, <1>4 DEF Next

(* What a step of the whole is a step of.                                  *)
LEMMA StepsOf ==
  ASSUME [WatchNext]_<< vars, winVars >>
  PROVE  /\ [Next]_vars
         /\ \/ UNCHANGED winVars
            \/ UNCHANGED vars /\ \E s \in Sends : Mint(s) \/ Submit(s) \/ PostAnswered(s)
            \/ UNCHANGED vars /\ \E w \in Windows : Window(w)
         /\ UNCHANGED winVars => UNCHANGED sendPc \/ \E s \in Sends : post[s] # "unsent" /\ SendAction(s)
<1>1. [Next]_vars
  BY ZenonT(30) DEF WatchNext, Mint, Submit, PostAnswered, Backend, Window, LoadHistory, Connect, Deliver, Drop,
         Leave, Return, Expiry, Finished, Next, vars
<1>2. \A s \in Sends : Mint(s) \/ Submit(s) \/ PostAnswered(s) => UNCHANGED vars
  BY DEF Mint, Submit, PostAnswered
<1>3. \A w \in Windows : Window(w) => UNCHANGED vars
  BY DEF Window, LoadHistory, Connect, Deliver, Drop, Leave, Return
<1>4. UNCHANGED vars => UNCHANGED sendPc
  BY DEF vars, sendVars
<1>5. Expiry => UNCHANGED sendPc
  BY DEF Expiry, FlagExpires, StreamExpires, CacheExpires, sendVars
<1>6. \A s \in Sends : Backend(s) => UNCHANGED sendPc \/ (post[s] # "unsent" /\ SendAction(s))
  BY JobsAnswerNothing DEF Backend
<1> QED
  BY <1>1, <1>2, <1>3, <1>4, <1>5, <1>6 DEF WatchNext, Backend, Expiry, Finished

(* A request runs once it is posted, and its window hears its answer.      *)
LEMMA PostsStep ==
  ASSUME TypeOK, WatchTypeOK, PostsInv, [WatchNext]_<< vars, winVars >>
  PROVE  PostsInv'
<1>1. [Next]_vars
  BY StepsOf
<1>2. post \in [Sends -> Posts]
  BY DEF WatchTypeOK, Posts
<1>3. CASE UNCHANGED winVars
  <2>1. UNCHANGED post
    BY <1>3 DEF winVars
  <2>2. ASSUME NEW s \in Sends, post[s] = "unsent"
        PROVE  sendPc'[s] = "new"
    <3>1. CASE UNCHANGED sendPc
      BY <2>2, <3>1 DEF PostsInv
    <3>2. ASSUME NEW t \in Sends, post[t] # "unsent", SendAction(t)
          PROVE  sendPc'[s] = "new"
      <4>1. PICK to : sendPc[t] \in SendSteps /\ sendPc' = [sendPc EXCEPT ![t] = to]
        BY <3>2, RequestMoves
      <4> QED
        BY <2>2, <3>2, <4>1 DEF PostsInv, TypeOK, SendTypeOK
    <3> QED
      BY <1>3, <3>1, <3>2, StepsOf
  <2>3. ASSUME NEW s \in Sends, post[s] = "answered"
        PROVE  sendPc'[s] \in SendAnswers
    BY <1>1, <2>3, AnswersStay DEF PostsInv
  <2> QED
    BY <2>1, <2>2, <2>3 DEF PostsInv
<1>4. CASE UNCHANGED vars /\ \E s \in Sends : Mint(s) \/ Submit(s) \/ PostAnswered(s)
  <2>1. PICK s \in Sends : Mint(s) \/ Submit(s) \/ PostAnswered(s)
    BY <1>4
  <2>2. UNCHANGED sendPc
    BY <1>4 DEF vars, sendVars
  <2>3. PICK to \in {"sent", "answered"} :
          post' = [post EXCEPT ![s] = to] /\ (to = "answered" => sendPc[s] \in SendAnswers)
    BY <2>1 DEF Mint, Submit, PostAnswered
  <2> QED
    BY <1>2, <2>2, <2>3 DEF PostsInv
<1>5. CASE UNCHANGED vars /\ \E w \in Windows : Window(w)
  <2>1. UNCHANGED << sendPc, post >>
    BY <1>5 DEF vars, sendVars, Window, LoadHistory, Connect, Deliver, Drop, Leave, Return
  <2> QED
    BY <2>1 DEF PostsInv
<1> QED
  BY <1>3, <1>4, <1>5, StepsOf

-----------------------------------------------------------------------------
(* What a thread tells, of what its window has read and knows.             *)
Tells(bubbles, entries, read, sending, denied, known, refused, saved) ==
  /\ Expects(bubbles, entries, read, sending, denied)
  /\ Accounts(bubbles, entries, read, known, refused)
  /\ Mirrors(bubbles, entries, read, saved)

(* ShowsInv, of what a step leaves in a window.                            *)
LEMMA ShowsAfter ==
  ASSUME NEW w \in Windows,
         NEW after, after = thread'[w], NEW entries, entries = log', NEW read, read = position'[w],
         NEW sending, sending = busy'[w], NEW denied, denied = Denied', NEW known, known = Known(w)',
         NEW refused, refused = Refused', NEW saved, saved = Saved',
         Tells(after, entries, read, sending, denied, known, refused, saved)
  PROVE  ShowsInv(w)'
BY DEF ShowsInv, Tells

LEMMA NamesOneTurn ==
  ASSUME NEW s \in Sends
  PROVE  /\ View!UserBubble(s).role = "user"
         /\ \A t \in Sends : View!UserBubble(t) = View!UserBubble(s) => t = s
BY NewBubbles

LEMMA KeptTyped ==
  ASSUME NEW bubbles \in Bubbles, NEW saved
  PROVE  Kept(bubbles, saved) \in Bubbles
<1> PICK b \in View!Bubble : b = View!StreamingAssistant
  BY DEF View!StreamingAssistant, View!Bubble
<1> QED
  BY KeptAppend

LEMMA JoinedThread ==
  ASSUME NEW bubbles \in Bubbles, NEW b
  PROVE  bubbles \o << b >> = Append(bubbles, b) /\ bubbles \o << >> = bubbles
BY ConcatEmptySeq DEF Bubbles

(* An empty thread that has read nothing.                                  *)
LEMMA TellsNothing ==
  ASSUME NEW entries, NEW denied, NEW known, NEW refused, NEW saved
  PROVE  Tells(<< >>, entries, 0, FALSE, denied, known, refused, saved)
<1>1. \A s : ~View!AwaitsReply(<< >>, s)
  BY DEF View!AwaitsReply, View!IsStreaming
<1>2. ~View!IsStreaming(<< >>)
  BY DEF View!IsStreaming
<1>3. Awaited(<< >>, entries, 0, saved) = {}
  BY <1>1 DEF Awaited
<1>4. Kept(<< >>, saved) = Told(entries, 0)
  BY KeptEmpty, ToldNothing
<1> QED
  BY <1>1, <1>2, <1>3, <1>4 DEF Tells, Expects, Accounts, Mirrors

(* The user sends a message, of which nobody has heard.                    *)
Unheard(entries, read, s, saved, known, now, more) ==
  /\ \A i \in 1 .. read : entries[i].turn \in Sends \ {s}
  /\ s \notin saved /\ s \notin known /\ s \notin now
  /\ known \subseteq more /\ s \in more

LEMMA TellsSubmitted ==
  ASSUME NEW bubbles \in Bubbles, View!Answered(bubbles), NEW s \in Sends,
         NEW after, after = View!Submitted(bubbles, s),
         NEW entries, NEW read \in Nat, NEW sending, NEW denied, NEW known, NEW refused,
         NEW saved \in SUBSET Sends, Tells(bubbles, entries, read, sending, denied, known, refused, saved),
         NEW now, NEW more, Unheard(entries, read, s, saved, known, now, more)
  PROVE  Tells(after, entries, read, TRUE, now, more, refused, saved)
<1> USE DEF Unheard
<1> PICK n \in Nat : n = Len(bubbles)
  BY BubblesTyped
<1>1. /\ after \in Bubbles /\ View!IsStreaming(after)
      /\ \A t \in Sends : View!AwaitsReply(after, t) <=> t = s
      /\ \A i \in DOMAIN after : \/ i \in DOMAIN bubbles /\ after[i] = bubbles[i]
                                 \/ i = n + 1 /\ after[i] = View!UserBubble(s)
                                 \/ after[i].role = "assistant"
  BY SubmittedAwaits
<1>2. \A t \in Sends : ~View!AwaitsReply(bubbles, t)
  BY AnsweredAwaitsNone
<1>3. \A type : ~Had(entries, read, type, s)
  BY DEF Had
<1>4. Expects(after, entries, read, TRUE, now)
  BY <1>1, <1>3 DEF Expects
<1>5. ASSUME NEW t \in Sends, NEW i \in DOMAIN after, after[i] = View!UserBubble(t)
      PROVE  /\ t \in more
             /\ Had(entries, read, "UserMessage", t) \/ View!AwaitsReply(after, t) \/ t \in refused
             /\ \A j \in DOMAIN after : after[j] = after[i] => j = i
  <2>1. \A j \in DOMAIN bubbles : bubbles[j] # View!UserBubble(s)
    BY DEF Tells, Accounts
  <2>2. ASSUME NEW j \in DOMAIN after, after[j] = View!UserBubble(t)
        PROVE  IF t = s THEN j = n + 1 ELSE j \in DOMAIN bubbles /\ bubbles[j] = after[j]
    BY <1>1, <2>1, <2>2, NamesOneTurn
  <2>3. CASE t = s
    BY <1>1, <1>5, <2>2, <2>3
  <2>4. CASE t # s
    BY <1>2, <1>5, <2>2, <2>4 DEF Tells, Accounts
  <2> QED
    BY <2>3, <2>4
<1>6. Accounts(after, entries, read, more, refused)
  BY <1>5 DEF Accounts
<1>7. Mirrors(after, entries, read, saved)
  <2>1. Kept(after, saved) = Kept(bubbles, saved)
    <3> PICK kept \in Bubbles : kept = Kept(bubbles, saved)
      BY KeptTyped
    <3>1. Shown(s, saved) = << >>
      BY DEF Shown
    <3>2. Kept(after, saved) = kept \o Shown(s, saved)
      BY KeptSubmitted
    <3>3. kept \o << >> = kept
      BY JoinedThread
    <3> QED
      BY <3>1, <3>2, <3>3
  <2>2. Awaited(after, entries, read, saved) = {} /\ Awaited(bubbles, entries, read, saved) \subseteq {}
    BY <1>1, <1>2 DEF Awaited
  <2>3. CASE Ahead(bubbles, entries, read)
    <3>1. ~View!AwaitsReply(after, entries[read].turn)
      <4>1. read \in 1 .. read
        BY <2>3 DEF Ahead
      <4> QED
        BY <1>1, <4>1
    <3> QED
      BY <2>3, <3>1 DEF Ahead, Mirrors
  <2> QED
    BY <2>1, <2>2, <2>3 DEF Tells, Mirrors
<1> QED
  BY <1>4, <1>6, <1>7 DEF Tells

(* The server refuses the message s.                                       *)
IsRefused(bubbles, entries, read, s, saved, refused, known, more) ==
  /\ View!AwaitsReply(bubbles, s) \/ View!Answered(bubbles)
  /\ \A i \in 1 .. read : entries[i].turn \in Sends
  /\ s \in refused /\ s \notin saved /\ known \subseteq more

LEMMA TellsRefused ==
  ASSUME NEW bubbles \in Bubbles, NEW s \in Sends,
         NEW after, after = View!MarkLastAssistantErrored(bubbles),
         NEW entries, NEW read \in Nat, NEW sending, NEW denied, NEW known, NEW refused,
         NEW saved \in SUBSET Sends, Tells(bubbles, entries, read, sending, denied, known, refused, saved),
         NEW now, NEW more, IsRefused(bubbles, entries, read, s, saved, refused, known, more)
  PROVE  Tells(after, entries, read, FALSE, now, more, refused, saved)
<1> USE DEF IsRefused
<1>1. /\ after \in Bubbles /\ ~View!IsStreaming(after)
      /\ \A t \in Sends : ~View!AwaitsReply(after, t)
      /\ \A i \in DOMAIN after : (i \in DOMAIN bubbles /\ after[i] = bubbles[i]) \/ after[i].role = "assistant"
  <2>1. after = View!UpdateLastAssistant(bubbles, "error", {})
    BY DEF View!MarkLastAssistantErrored
  <2> QED
    BY <2>1, UpdatedAwaits
<1>2. \A t \in Sends : View!AwaitsReply(bubbles, t) => t = s
  BY AwaitsOne, AnsweredAwaitsNone
<1>3. Expects(after, entries, read, FALSE, now)
  BY <1>1 DEF Expects
<1>4. ASSUME NEW t \in Sends, NEW i \in DOMAIN after, after[i] = View!UserBubble(t)
      PROVE  /\ t \in more
             /\ Had(entries, read, "UserMessage", t) \/ View!AwaitsReply(after, t) \/ t \in refused
             /\ \A j \in DOMAIN after : after[j] = after[i] => j = i
  <2>1. \A j \in DOMAIN after : after[j] = after[i] => j \in DOMAIN bubbles /\ bubbles[j] = View!UserBubble(t)
    BY <1>1, <1>4, NamesOneTurn
  <2>2. i \in DOMAIN bubbles /\ bubbles[i] = View!UserBubble(t)
    BY <2>1, <1>4
  <2>3. /\ t \in known /\ (Had(entries, read, "UserMessage", t) \/ View!AwaitsReply(bubbles, t) \/ t \in refused)
        /\ \A j \in DOMAIN bubbles : bubbles[j] = bubbles[i] => j = i
    BY <2>2 DEF Tells, Accounts
  <2> QED
    BY <1>2, <2>1, <2>2, <2>3
<1>5. Accounts(after, entries, read, more, refused)
  BY <1>4 DEF Accounts
<1>6. Mirrors(after, entries, read, saved)
  <2>1. Kept(after, saved) = Kept(bubbles, saved)
    <3> PICK kept \in Bubbles : kept = Kept(bubbles, saved)
      BY KeptTyped
    <3>1. Kept(after, saved) = kept \o << >>
      BY KeptUpdated DEF View!MarkLastAssistantErrored, Added
    <3> QED
      BY <3>1, JoinedThread
  <2>2. Awaited(after, entries, read, saved) = {} /\ Awaited(bubbles, entries, read, saved) = {}
    BY <1>1, <1>2 DEF Awaited
  <2>3. CASE Ahead(bubbles, entries, read)
    <3>1. read \in 1 .. read
      BY <2>3 DEF Ahead
    <3> QED
      BY <1>1, <2>3, <3>1 DEF Ahead, Mirrors
  <2> QED
    BY <2>1, <2>2, <2>3 DEF Tells, Mirrors
<1> QED
  BY <1>3, <1>5, <1>6 DEF Tells

(* Nothing happens to the window, while the stream, the refusals and what  *)
(* is known may grow.                                                      *)
Elsewhere(bubbles, entries, after, read, denied, now, known, more, refused, refusals) ==
  /\ \A i \in 1 .. read : after[i] = entries[i]
  /\ \A s \in Sends : View!AwaitsReply(bubbles, s) /\ s \in now => s \in denied
  /\ known \subseteq more /\ refused \subseteq refusals

LEMMA TellsStill ==
  ASSUME NEW bubbles \in Bubbles,
         NEW entries, NEW read \in Nat, NEW sending \in BOOLEAN, NEW denied, NEW known, NEW refused, NEW saved,
         Tells(bubbles, entries, read, sending, denied, known, refused, saved),
         NEW after, NEW sends \in BOOLEAN, sends => sending, NEW now, NEW more, NEW refusals,
         Elsewhere(bubbles, entries, after, read, denied, now, known, more, refused, refusals)
  PROVE  Tells(bubbles, after, read, sends, now, more, refusals, saved)
<1> USE DEF Elsewhere
<1>1. \A type, s : Had(after, read, type, s) <=> Had(entries, read, type, s)
  BY DEF Had
<1>2. Expects(bubbles, after, read, sends, now)
  BY <1>1 DEF Tells, Expects
<1>3. Accounts(bubbles, after, read, more, refusals)
  BY <1>1 DEF Tells, Accounts
<1>4. Mirrors(bubbles, after, read, saved)
  <2>1. Told(after, read) = Told(entries, read)
    BY ToldAlike
  <2>2. Awaited(bubbles, after, read, saved) = Awaited(bubbles, entries, read, saved)
    BY <1>1 DEF Awaited
  <2>3. Ahead(bubbles, entries, read) => Ahead(bubbles, after, read)
    <3>1. read > 0 => after[read] = entries[read]
      OBVIOUS
    <3> QED
      BY <3>1 DEF Ahead
  <2> QED
    BY <2>1, <2>2, <2>3 DEF Tells, Mirrors
<1> QED
  BY <1>2, <1>3, <1>4 DEF Tells

(* The row of the message u is committed, which no window has read or was  *)
(* refused: a thread that shows it waits with it.                          *)
LEMMA TellsSaved ==
  ASSUME NEW bubbles \in Bubbles, Tidy(bubbles),
         NEW entries, NEW read \in Nat, NEW sending, NEW denied, NEW known, NEW refused,
         NEW saved \in SUBSET Sends, Tells(bubbles, entries, read, sending, denied, known, refused, saved),
         NEW u \in Sends, u \notin saved, u \notin refused, ~Had(entries, read, "UserMessage", u)
  PROVE  Tells(bubbles, entries, read, sending, denied, known, refused, saved \cup {u})
<1> PICK more : more = saved \cup {u}
  OBVIOUS
<1>1. CASE View!AwaitsReply(bubbles, u)
  <2>1. Awaited(bubbles, entries, read, saved) = {} /\ u \in Awaited(bubbles, entries, read, more)
    BY <1>1, AwaitsOne DEF Awaited
  <2>2. \A i, j \in DOMAIN bubbles : bubbles[i] = View!UserBubble(u) /\ bubbles[j] = bubbles[i] => j = i
    BY DEF Tells, Accounts
  <2>3. Kept(bubbles, more) = Append(Kept(bubbles, saved), View!UserBubble(u))
    BY <1>1, <2>2, KeptSaved
  <2>4. Mirrors(bubbles, entries, read, more)
    BY <2>1, <2>3 DEF Tells, Mirrors
  <2> QED
    BY <2>4 DEF Tells
<1>2. CASE ~View!AwaitsReply(bubbles, u)
  <2>1. \A i \in DOMAIN bubbles : bubbles[i] # View!UserBubble(u)
    BY <1>2 DEF Tells, Accounts
  <2>2. ASSUME NEW i \in DOMAIN bubbles
        PROVE  Stays(bubbles[i], saved) <=> Stays(bubbles[i], more)
    <3>1. CASE bubbles[i].role = "user"
      <4>1. PICK s \in Sends : bubbles[i] = View!UserBubble(s)
        BY <3>1 DEF Tidy
      <4>2. s # u /\ bubbles[i].says = {s}
        BY <2>1, <4>1, NewBubbles
      <4> QED
        BY <3>1, <4>2 DEF Stays
    <3>2. CASE bubbles[i].role # "user"
      BY <3>2 DEF Stays
    <3> QED
      BY <3>1, <3>2
  <2>3. Kept(bubbles, more) = Kept(bubbles, saved)
    BY <2>2, KeptAlike
  <2>4. Awaited(bubbles, entries, read, more) = Awaited(bubbles, entries, read, saved)
    BY <1>2 DEF Awaited
  <2>5. Mirrors(bubbles, entries, read, more)
    BY <2>3, <2>4 DEF Tells, Mirrors
  <2> QED
    BY <2>5 DEF Tells
<1> QED
  BY <1>1, <1>2

LEMMA EntryFields ==
  ASSUME NEW e \in Entry
  PROVE  /\ e.turn \in Sends /\ e.type \in {"UserMessage", "Delta", "PersistenceFailed", "MessageDone", "Error"}
         /\ \A type, s : e.type = type /\ e.turn = s => e = [type |-> type, turn |-> s]
BY DEF Entry

(* The connection starts further back, and brings again only the turn that *)
(* the thread waits for.                                                   *)
LEMMA TellsFromStart ==
  ASSUME NEW bubbles \in Bubbles, NEW entries \in Seq(Entry), EachOnce(entries),
         \A i \in DOMAIN entries : entries[i].type # "PersistenceFailed",
         NEW read \in Nat, read <= Len(entries), NEW start \in Nat, start <= read,
         NEW sending, NEW denied, NEW known, NEW refused, NEW saved \in SUBSET Sends,
         Tells(bubbles, entries, read, sending, denied, known, refused, saved),
         \A i \in 1 .. read : entries[i].turn \in saved,
         \A i \in start + 1 .. read : View!AwaitsReply(bubbles, entries[i].turn)
  PROVE  Tells(bubbles, entries, start, sending, denied, known, refused, saved)
<1>0. /\ \A i \in 1 .. read : i \in DOMAIN entries /\ entries[i] \in Entry
      /\ Len(entries) \in Nat /\ DOMAIN entries = 1 .. Len(entries)
  OBVIOUS
<1>1. \A type, s : Had(entries, start, type, s) => Had(entries, read, type, s)
  BY DEF Had
<1>2. Expects(bubbles, entries, start, sending, denied)
  BY <1>1 DEF Tells, Expects
<1>3. ASSUME NEW s \in Sends, Had(entries, read, "UserMessage", s), ~View!AwaitsReply(bubbles, s)
      PROVE  Had(entries, start, "UserMessage", s)
  <2>1. PICK j \in 1 .. read : entries[j] = [type |-> "UserMessage", turn |-> s]
    BY <1>3 DEF Had
  <2>2. j \in 1 .. start
    BY <1>3, <2>1
  <2> QED
    BY <2>1, <2>2 DEF Had
<1>4. Accounts(bubbles, entries, start, known, refused)
  BY <1>3 DEF Tells, Accounts
<1>5. CASE start = read
  BY <1>5
<1>6. CASE start < read
  <2> PICK next \in 1 .. read : next = start + 1
    BY <1>6
  <2> PICK t \in Sends : t = entries[next].turn
    BY <1>0, EntryFields
  <2>1. View!AwaitsReply(bubbles, t) /\ t \in saved
    BY <1>6
  <2>2. \A i \in start + 1 .. read : entries[i].turn = t
    BY <1>0, <2>1, AwaitsOne, EntryFields
  <2>3. ASSUME NEW i \in start + 1 .. read
        PROVE  i \in 1 .. read /\ entries[i].type \in {"UserMessage", "Delta", "Error"}
               /\ \A type : entries[i].type = type => entries[i] = [type |-> type, turn |-> t]
    <3>1. i \in 1 .. read /\ entries[i] \in Entry /\ entries[i].turn = t /\ i \in DOMAIN entries
      BY <1>0, <2>2
    <3>2. \A type : entries[i].type = type => entries[i] = [type |-> type, turn |-> t]
      BY <3>1, EntryFields
    <3>3. entries[i].type # "MessageDone"
      BY <2>1, <3>1, <3>2 DEF Tells, Expects, Had
    <3> QED
      BY <3>1, <3>2, <3>3, EntryFields
  <2>4. ASSUME NEW i \in start + 1 .. read, entries[i].type # "UserMessage"
        PROVE  Spoken(entries[i]) = << >>
    <3> PICK type \in {"Delta", "Error"} : entries[i] = [type |-> type, turn |-> t]
      BY <2>3, <2>4
    <3> QED
      BY SilentEntries
  <2>5. ~Ahead(bubbles, entries, read)
    <3>1. read \in start + 1 .. read
      BY <1>6
    <3> QED
      BY <3>1 DEF Ahead
  <2>6. \A s \in Sends : View!AwaitsReply(bubbles, s) => s = t
    BY <2>1, AwaitsOne
  <2>7. CASE \A i \in start + 1 .. read : entries[i].type # "UserMessage"
    <3>1. Told(entries, read) = Told(entries, start)
      BY <1>0, <2>4, <2>7, ToldSilently
    <3>2. \A s \in Sends : Had(entries, read, "UserMessage", s) <=> Had(entries, start, "UserMessage", s)
      <4>1. ASSUME NEW s \in Sends, Had(entries, read, "UserMessage", s)
            PROVE  Had(entries, start, "UserMessage", s)
        <5>1. PICK j \in 1 .. read : entries[j] = [type |-> "UserMessage", turn |-> s]
          BY <4>1 DEF Had
        <5>2. entries[j].type = "UserMessage"
          BY <5>1
        <5>3. j \in 1 .. start
          BY <2>7, <5>2
        <5> QED
          BY <5>1, <5>3 DEF Had
      <4> QED
        BY <1>1, <4>1
    <3>3. Awaited(bubbles, entries, read, saved) = Awaited(bubbles, entries, start, saved)
      BY <3>2 DEF Awaited
    <3>4. Mirrors(bubbles, entries, start, saved)
      BY <2>5, <3>1, <3>3 DEF Tells, Mirrors
    <3> QED
      BY <1>2, <1>4, <3>4 DEF Tells
  <2>8. ASSUME NEW i \in start + 1 .. read, entries[i].type = "UserMessage"
        PROVE  Tells(bubbles, entries, start, sending, denied, known, refused, saved)
    <3>1. i \in DOMAIN entries /\ entries[i] = [type |-> "UserMessage", turn |-> t]
      BY <1>0, <2>3, <2>8
    <3>2. \A j \in 1 .. i - 1 : entries[j].turn # t
      BY <2>8, <3>1 DEF EachOnce
    <3>3. i = next
      <4>1. next \in 1 .. i - 1 \/ i = next
        OBVIOUS
      <4> QED
        BY <3>2, <4>1
    <3>4. ASSUME NEW j \in next + 1 .. read
          PROVE  Spoken(entries[j]) = << >>
      <4>1. j \in start + 1 .. read /\ j \in DOMAIN entries /\ i \in 1 .. j - 1
        BY <1>0, <3>3
      <4>2. entries[i].turn = t /\ entries[j].turn = t
        BY <2>2, <3>1, <4>1
      <4>3. entries[j].type # "UserMessage"
        BY <4>1, <4>2 DEF EachOnce
      <4> QED
        BY <2>4, <4>1, <4>3
    <3> PICK told \in Bubbles : told = Told(entries, start)
      BY <1>0, ToldTyped
    <3>5. Told(entries, read) = Told(entries, next)
      BY <1>0, <3>4, ToldSilently
    <3>6. Told(entries, next) = told \o Spoken(entries[next])
      <4>1. \A k \in 1 .. start + 1 : entries[k] \in Entry
        BY <1>0
      <4> QED
        BY <4>1, ToldNext
    <3>7. Spoken(entries[next]) = << View!UserBubble(t) >>
      <4> PICK e : e = [type |-> "UserMessage", turn |-> t]
        OBVIOUS
      <4>1. Spoken(e) = << View!UserBubble(t) >>
        BY DEF Spoken
      <4> QED
        BY <3>1, <3>3, <4>1
    <3>8. Told(entries, read) = Append(told, View!UserBubble(t))
      BY <3>5, <3>6, <3>7, JoinedThread
    <3>9. Had(entries, read, "UserMessage", t) /\ ~Had(entries, start, "UserMessage", t)
      <4>1. i \in 1 .. read
        OBVIOUS
      <4>2. ~Had(entries, start, "UserMessage", t)
        <5>1. \A j \in 1 .. start : j \in 1 .. i - 1
          OBVIOUS
        <5> QED
          BY <3>2, <5>1 DEF Had
      <4> QED
        BY <3>1, <4>1, <4>2 DEF Had
    <3>10. Awaited(bubbles, entries, read, saved) = {} /\ t \in Awaited(bubbles, entries, start, saved)
      BY <2>1, <2>6, <3>9 DEF Awaited
    <3>11. Kept(bubbles, saved) = Told(entries, read)
      BY <2>5, <3>10 DEF Tells, Mirrors
    <3>12. Mirrors(bubbles, entries, start, saved)
      BY <3>8, <3>10, <3>11 DEF Mirrors
    <3> QED
      BY <1>2, <1>4, <3>12 DEF Tells
  <2> QED
    BY <2>7, <2>8
<1> QED
  BY <1>5, <1>6

(* What was read, with the next entry.                                     *)
ReadOn(entries, read, next, type, s) ==
  \A t, kind : Had(entries, next, kind, t) <=> Had(entries, read, kind, t) \/ (kind = type /\ t = s)

LEMMA HadNext ==
  ASSUME NEW entries, NEW read \in Nat, NEW next, next = read + 1, NEW type, NEW s,
         entries[next] = [type |-> type, turn |-> s]
  PROVE  ReadOn(entries, read, next, type, s)
<1>1. /\ \A i \in 1 .. next : i \in 1 .. read \/ i = next
      /\ \A i \in 1 .. read : i \in 1 .. next
      /\ next \in 1 .. next
  OBVIOUS
<1>2. \A t, kind : entries[next] = [type |-> kind, turn |-> t] <=> kind = type /\ t = s
  OBVIOUS
<1>3. ASSUME NEW t, NEW kind, Had(entries, next, kind, t)
      PROVE  Had(entries, read, kind, t) \/ (kind = type /\ t = s)
  <2>1. PICK i \in 1 .. next : entries[i] = [type |-> kind, turn |-> t]
    BY <1>3 DEF Had
  <2>2. CASE i = next
    BY <1>2, <2>1, <2>2
  <2>3. CASE i \in 1 .. read
    BY <2>1, <2>3 DEF Had
  <2> QED
    BY <1>1, <2>2, <2>3
<1>4. ASSUME NEW t, NEW kind, Had(entries, read, kind, t) \/ (kind = type /\ t = s)
      PROVE  Had(entries, next, kind, t)
  <2>1. CASE Had(entries, read, kind, t)
    BY <1>1, <2>1 DEF Had
  <2>2. CASE kind = type /\ t = s
    BY <1>1, <2>2 DEF Had
  <2> QED
    BY <1>4, <2>1, <2>2
<1> QED
  BY <1>3, <1>4 DEF ReadOn

(* The next entry, of the turn s that the thread waits for, is no message: *)
(* the reply goes on or ends.                                              *)
Framed(bubbles, entries, read, next, type, s, state, saying, sends, denied) ==
  /\ next = read + 1 /\ entries[next] = [type |-> type, turn |-> s]
  /\ View!AwaitsReply(bubbles, s) /\ ~Ahead(bubbles, entries, read) /\ s \notin denied
  /\ state = "streaming" <=> type = "Delta"
  /\ state = "done" <=> type = "MessageDone"
  /\ saying \in SUBSET Sends /\ (state = "done" => saying = {s})
  /\ sends => state = "streaming"

LEMMA TellsFrame ==
  ASSUME NEW bubbles \in Bubbles, NEW entries \in Seq(Entry), EachOnce(entries),
         NEW read \in Nat, NEW next \in DOMAIN entries, NEW s \in Sends, NEW saying,
         NEW state \in {"streaming", "done", "error"}, NEW type \in {"Delta", "MessageDone", "Error"},
         NEW after, after = View!UpdateLastAssistant(bubbles, state, saying),
         NEW sending \in BOOLEAN, NEW denied, NEW known, NEW refused, NEW saved \in SUBSET Sends,
         Tells(bubbles, entries, read, sending, denied, known, refused, saved),
         NEW sends \in BOOLEAN, Framed(bubbles, entries, read, next, type, s, state, saying, sends, denied)
  PROVE  Tells(after, entries, next, sends, denied, known, refused, saved)
<1> USE DEF Framed
<1>0. /\ \A i \in 1 .. next : i \in DOMAIN entries /\ entries[i] \in Entry
      /\ next \in Nat /\ next - 1 = read /\ DOMAIN entries = 1 .. Len(entries) /\ Len(entries) \in Nat
      /\ entries[next].turn = s
  OBVIOUS
<1>1. /\ after \in Bubbles
      /\ View!IsStreaming(after) <=> state = "streaming"
      /\ \A t \in Sends : View!AwaitsReply(after, t) <=> state = "streaming" /\ View!AwaitsReply(bubbles, t)
      /\ \A i \in DOMAIN after : (i \in DOMAIN bubbles /\ after[i] = bubbles[i]) \/ after[i].role = "assistant"
  BY UpdatedAwaits
<1>2. \A t \in Sends : View!AwaitsReply(bubbles, t) => t = s
  BY AwaitsOne
<1>3. Had(entries, read, "UserMessage", s)
  <2>1. \E j \in 1 .. next - 1 : entries[j] = [type |-> "UserMessage", turn |-> s]
    BY DEF EachOnce
  <2> QED
    BY <1>0, <2>1 DEF Had
<1>4. ~Had(entries, read, "MessageDone", s) /\ ~Had(entries, read, "Error", s)
  <2>1. ASSUME NEW j \in 1 .. read, entries[j].turn = s
        PROVE  Unended(entries[j])
    <3>1. j \in DOMAIN entries /\ next \in j + 1 .. Len(entries)
      BY <1>0
    <3>2. entries[next].turn = entries[j].turn
      BY <1>0, <2>1
    <3> QED
      BY <3>1, <3>2 DEF EachOnce
  <2> QED
    BY <2>1 DEF Had, Unended
<1>5. \A t, kind : Had(entries, next, kind, t) <=> Had(entries, read, kind, t) \/ (kind = type /\ t = s)
  <2>1. ReadOn(entries, read, next, type, s)
    BY HadNext
  <2> QED
    BY <2>1 DEF ReadOn
<1>6. Expects(after, entries, next, sends, denied)
  BY <1>1, <1>2, <1>4, <1>5 DEF Expects
<1>7. ASSUME NEW t \in Sends, NEW i \in DOMAIN after, after[i] = View!UserBubble(t)
      PROVE  /\ t \in known /\ (Had(entries, next, "UserMessage", t) \/ t \in refused)
             /\ \A j \in DOMAIN after : after[j] = after[i] => j = i
  <2>1. \A j \in DOMAIN after : after[j] = after[i] => j \in DOMAIN bubbles /\ bubbles[j] = View!UserBubble(t)
    BY <1>1, <1>7, NamesOneTurn
  <2>2. i \in DOMAIN bubbles /\ bubbles[i] = View!UserBubble(t)
    BY <2>1, <1>7
  <2>3. /\ t \in known /\ (Had(entries, read, "UserMessage", t) \/ View!AwaitsReply(bubbles, t) \/ t \in refused)
        /\ \A j \in DOMAIN bubbles : bubbles[j] = bubbles[i] => j = i
    BY <2>2 DEF Tells, Accounts
  <2> QED
    BY <1>2, <1>3, <1>5, <2>1, <2>2, <2>3
<1>8. Accounts(after, entries, next, known, refused)
  BY <1>7 DEF Accounts
<1>9. Kept(after, saved) = Kept(bubbles, saved) \o Added(state, saying)
  BY KeptUpdated, SMTT(40)
<1>10. Mirrors(after, entries, next, saved)
  <2> PICK told \in Bubbles : told = Told(entries, read)
    BY <1>0, ToldTyped
  <2> PICK more : more = IF state = "done" THEN << ReplyBubble(s) >> ELSE << >>
    OBVIOUS
  <2>1. Awaited(bubbles, entries, read, saved) = {} /\ Awaited(after, entries, next, saved) = {}
    BY <1>1, <1>2, <1>3, <1>5 DEF Awaited
  <2>2. Kept(bubbles, saved) = told
    BY <2>1 DEF Tells, Mirrors
  <2>3. Kept(after, saved) = told \o more
    <3>1. Kept(after, saved) = told \o Added(state, saying)
      BY <1>9, <2>2
    <3>2. Added(state, saying) = more
      BY DEF Added, ReplyBubble
    <3> QED
      BY <3>1, <3>2
  <2>4. Told(entries, next) = told \o Spoken(entries[next])
    <3>1. \A k \in 1 .. read + 1 : entries[k] \in Entry
      BY <1>0
    <3> QED
      BY <3>1, ToldNext
  <2>5. Spoken(entries[next]) = more
    <3>1. CASE type = "MessageDone"
      <4> PICK e : e = [type |-> "MessageDone", turn |-> s]
        OBVIOUS
      <4>1. Spoken(e) = << ReplyBubble(s) >>
        BY DEF Spoken
      <4> QED
        BY <3>1, <4>1
    <3>2. CASE type # "MessageDone"
      <4>1. type \in {"Delta", "Error"}
        BY <3>2
      <4>2. Spoken([type |-> type, turn |-> s]) = << >>
        BY <4>1, SilentEntries
      <4> QED
        BY <3>2, <4>2
    <3> QED
      BY <3>1, <3>2
  <2> QED
    BY <2>1, <2>3, <2>4, <2>5 DEF Mirrors
<1> QED
  BY <1>6, <1>8, <1>10 DEF Tells

(* The next entry is the message s, which the thread waits with or does    *)
(* not know yet.                                                           *)
EchoArrives(bubbles, after, entries, read, next, s) ==
  /\ bubbles \in Bubbles /\ entries \in Seq(Entry) /\ s \in Sends
  /\ read \in Nat /\ next \in DOMAIN entries /\ next = read + 1
  /\ entries[next] = [type |-> "UserMessage", turn |-> s] /\ EachOnce(entries)
  /\ View!Answered(bubbles) \/ View!AwaitsReply(bubbles, s)
  /\ Tidy(bubbles) /\ ~Ahead(bubbles, entries, read)
  /\ after = View!ShowUserMessage(bubbles, s)

ToldAccepted(bubbles, entries, read, s, denied, known, refused, saved) ==
  /\ s \notin denied /\ s \in known /\ s \notin refused /\ s \in saved /\ saved \in SUBSET Sends
  /\ \E sending \in BOOLEAN : Tells(bubbles, entries, read, sending, denied, known, refused, saved)

LEMMA TellsEcho ==
  ASSUME DistinctTexts, NEW bubbles, NEW after, NEW entries, NEW read, NEW next, NEW s,
         EchoArrives(bubbles, after, entries, read, next, s),
         NEW denied, NEW known, NEW refused, NEW saved,
         ToldAccepted(bubbles, entries, read, s, denied, known, refused, saved)
  PROVE  Tells(after, entries, next, TRUE, denied, known, refused, saved)
<1> PICK sending \in BOOLEAN : Tells(bubbles, entries, read, sending, denied, known, refused, saved)
  BY DEF ToldAccepted
<1> SUFFICES ASSUME bubbles \in Bubbles, entries \in Seq(Entry), s \in Sends, read \in Nat,
                    saved \in SUBSET Sends, next \in DOMAIN entries, next = read + 1,
                    entries[next] = [type |-> "UserMessage", turn |-> s], EachOnce(entries),
                    View!Answered(bubbles) \/ View!AwaitsReply(bubbles, s),
                    Tidy(bubbles), ~Ahead(bubbles, entries, read), after = View!ShowUserMessage(bubbles, s),
                    s \notin denied, s \in known, s \notin refused, s \in saved
             PROVE  Tells(after, entries, next, TRUE, denied, known, refused, saved)
  BY DEF EchoArrives, ToldAccepted
<1>0. \A i \in 1 .. next : i \in DOMAIN entries /\ entries[i] \in Entry
  OBVIOUS
<1>1. Echoed(bubbles, after, s)
  BY EchoAwaits
<1>2. \A t \in Sends : View!AwaitsReply(bubbles, t) => t = s
  BY AwaitsOne, AnsweredAwaitsNone
<1>3. \A type : ~Had(entries, read, type, s)
  <2>1. \A j \in 1 .. next - 1 : entries[j].turn # s
    BY DEF EachOnce
  <2>2. \A j \in 1 .. read : j \in 1 .. next - 1
    OBVIOUS
  <2> QED
    BY <2>1, <2>2 DEF Had
<1>4. \A t, kind : Had(entries, next, kind, t) <=> Had(entries, read, kind, t) \/ (kind = "UserMessage" /\ t = s)
  <2>1. ReadOn(entries, read, next, "UserMessage", s)
    BY HadNext
  <2> QED
    BY <2>1 DEF ReadOn
<1>5. Expects(after, entries, next, TRUE, denied)
  BY <1>1, <1>3, <1>4 DEF Echoed, Expects
<1>6. ASSUME NEW t \in Sends, NEW i \in DOMAIN after, after[i] = View!UserBubble(t)
      PROVE  /\ t \in known
             /\ Had(entries, next, "UserMessage", t) \/ View!AwaitsReply(after, t) \/ t \in refused
             /\ \A j \in DOMAIN after : after[j] = after[i] => j = i
  <2>1. ASSUME ~View!AwaitsReply(bubbles, s)
        PROVE  \A j \in DOMAIN bubbles : bubbles[j] # View!UserBubble(s)
    BY <1>3, <2>1 DEF Tells, Accounts
  <2>2. ASSUME NEW j \in DOMAIN after, after[j] = View!UserBubble(t)
        PROVE  IF t = s /\ ~View!AwaitsReply(bubbles, s) THEN j = Len(bubbles) + 1
               ELSE j \in DOMAIN bubbles /\ bubbles[j] = View!UserBubble(t)
    BY <1>1, <2>1, <2>2, NamesOneTurn DEF Echoed
  <2>3. CASE t = s /\ ~View!AwaitsReply(bubbles, s)
    BY <1>4, <1>6, <2>2, <2>3
  <2>4. CASE ~(t = s /\ ~View!AwaitsReply(bubbles, s))
    <3>1. i \in DOMAIN bubbles /\ bubbles[i] = View!UserBubble(t)
      BY <1>6, <2>2, <2>4
    <3>2. /\ t \in known /\ (Had(entries, read, "UserMessage", t) \/ View!AwaitsReply(bubbles, t) \/ t \in refused)
          /\ \A j \in DOMAIN bubbles : bubbles[j] = bubbles[i] => j = i
      BY <3>1 DEF Tells, Accounts
    <3>3. View!AwaitsReply(bubbles, t) => View!AwaitsReply(after, t)
      BY <1>1, <1>2 DEF Echoed
    <3> QED
      BY <1>4, <1>6, <2>2, <2>4, <3>1, <3>2, <3>3
  <2> QED
    BY <2>3, <2>4
<1>7. Accounts(after, entries, next, known, refused)
  BY <1>6 DEF Accounts
<1>8. Mirrors(after, entries, next, saved)
  <2> PICK told \in Bubbles : told = Told(entries, read)
    <3>1. \A i \in 1 .. read : entries[i] \in Entry
      OBVIOUS
    <3> QED
      BY <3>1, ToldTyped
  <2>1. Awaited(after, entries, next, saved) = {}
    BY <1>1, <1>4 DEF Echoed, Awaited
  <2>2. Kept(after, saved) = told \o << View!UserBubble(s) >>
    <3>1. CASE View!AwaitsReply(bubbles, s)
      <4>1. Awaited(bubbles, entries, read, saved) = {s}
        BY <1>2, <1>3, <3>1 DEF Awaited
      <4>2. Kept(bubbles, saved) = Append(told, View!UserBubble(s))
        BY <4>1 DEF Tells, Mirrors
      <4>3. Kept(after, saved) = Kept(bubbles, saved)
        BY <1>1, <3>1 DEF Echoed
      <4> QED
        BY <4>2, <4>3, JoinedThread
    <3>2. CASE ~View!AwaitsReply(bubbles, s)
      <4>1. Awaited(bubbles, entries, read, saved) = {}
        BY <1>2, <3>2 DEF Awaited
      <4>2. Kept(bubbles, saved) = told
        BY <4>1 DEF Tells, Mirrors
      <4>3. Kept(after, saved) = Kept(bubbles, saved) \o Shown(s, saved)
        BY <1>1, <3>2 DEF Echoed
      <4> QED
        BY <4>2, <4>3 DEF Shown
    <3> QED
      BY <3>1, <3>2
  <2>3. Told(entries, next) = told \o Spoken(entries[next])
    <3>1. \A k \in 1 .. read + 1 : entries[k] \in Entry
      BY <1>0
    <3> QED
      BY <3>1, ToldNext
  <2>4. Spoken(entries[next]) = << View!UserBubble(s) >>
    <3> PICK e : e = [type |-> "UserMessage", turn |-> s]
      OBVIOUS
    <3>1. Spoken(e) = << View!UserBubble(s) >>
      BY DEF Spoken
    <3> QED
      BY <3>1
  <2> QED
    BY <2>1, <2>2, <2>3, <2>4 DEF Mirrors
<1> QED
  BY <1>5, <1>7, <1>8 DEF Tells

(* A thread that has nothing else.                                         *)
LEMMA KeptAll ==
  ASSUME NEW bubbles \in Bubbles, NEW saved, \A i \in DOMAIN bubbles : Stays(bubbles[i], saved)
  PROVE  Kept(bubbles, saved) = bubbles
<1> PICK n \in Nat : n = Len(bubbles)
  BY BubblesTyped
<1> PICK S : S = View!Bubble
  OBVIOUS
<1>1. DOMAIN bubbles = 1 .. n /\ bubbles \in Seq(S) /\ \A i \in 1 .. n : bubbles[i] \in S
  BY DEF Bubbles
<1> PICK pieces : pieces = [i \in 1 .. n |-> << bubbles[i] >>]
  OBVIOUS
<1>2. Kept(bubbles, saved) = FlattenSeq(pieces)
  <2>1. \A i \in 1 .. n : Lasting(bubbles[i], saved) = << bubbles[i] >>
    BY <1>1 DEF Lasting
  <2>2. [i \in DOMAIN bubbles |-> Lasting(bubbles[i], saved)] = pieces
    BY <1>1, <2>1
  <2> QED
    BY <2>2 DEF Kept
<1>3. pieces \in Seq(Seq(S)) /\ n = Len(pieces)
  <2> PICK SS : SS = Seq(S)
    OBVIOUS
  <2>1. \A i \in 1 .. n : << bubbles[i] >> \in SS
    BY <1>1
  <2>2. pieces \in [1 .. n -> SS]
    BY <2>1
  <2>3. pieces \in Seq(SS) /\ n = Len(pieces)
    BY <2>2
  <2> QED
    BY <2>3
<1>4. PICK f : Joins(f, pieces, n, S)
  BY <1>3, Flattened
<1>5. /\ f[0] = << >> /\ \A k \in 1 .. n : f[k] = f[k - 1] \o pieces[k]
      /\ \A k \in 0 .. n : f[k] \in Seq(S)
      /\ f[n] = FlattenSeq(pieces)
  BY <1>4, Zenon DEF Joins
<1> DEFINE T == {k \in 0 .. n : Len(f[k]) = k /\ \A i \in 1 .. k : f[k][i] = bubbles[i]}
<1>6. 0 \in T
  BY <1>5
<1>7. ASSUME NEW k \in 1 .. n, k - 1 \in T
      PROVE  k \in T
  <2> PICK before \in Seq(S) : before = f[k - 1]
    BY <1>5
  <2> PICK now \in Seq(S) : now = f[k]
    BY <1>5
  <2>1. Len(before) = k - 1 /\ \A i \in 1 .. k - 1 : before[i] = bubbles[i]
    BY <1>7
  <2>2. now = Append(before, bubbles[k])
    <3>1. now = before \o << bubbles[k] >> /\ bubbles[k] \in S
      BY <1>1, <1>5
    <3> QED
      BY <3>1
  <2>3. Len(now) = k /\ \A i \in 1 .. k : now[i] = bubbles[i]
    BY <1>1, <2>1, <2>2
  <2> QED
    BY <2>3
<1>8. 0 .. n \subseteq T
  <2>1. \A k \in 1 .. n : k - 1 \in T => k \in T
    BY <1>7
  <2> HIDE DEF T
  <2> QED
    BY <1>6, <2>1, CountingUp
<1>9. Len(f[n]) = n /\ (\A i \in 1 .. n : f[n][i] = bubbles[i]) /\ f[n] \in Seq(S)
  <2>1. n \in 0 .. n /\ n \in T
    <3> HIDE DEF T
    <3> QED
      BY <1>8
  <2> QED
    BY <1>5, <2>1
<1> QED
  BY <1>1, <1>2, <1>5, <1>9, SameThread DEF Bubbles

(* A thread that was opened from its rows.                                 *)
FromRows(after, rows, failed, n, plain) ==
  /\ after \in Bubbles /\ plain \in Bubbles
  /\ ~View!IsStreaming(after)
  /\ \A t \in Sends : View!AwaitsReply(after, t) => n > 0 /\ rows[n] = [role |-> "user", turn |-> t]
  /\ \A t \in Sends : n > 0 /\ rows[n] = [role |-> "user", turn |-> t] /\ t \notin failed => View!AwaitsReply(after, t)
  /\ \A t \in Sends : \A i \in DOMAIN after : after[i] = View!UserBubble(t) =>
       i \in DOMAIN rows /\ rows[i] = [role |-> "user", turn |-> t]
  /\ \A saved : (\A i \in DOMAIN rows : rows[i].role = "user" => rows[i].turn \in saved) => Kept(after, saved) = plain

LEMMA OpenedFromRows ==
  ASSUME NEW rows \in Seq(Row), NEW failed, NEW n \in Nat, n = Len(rows),
         NEW plain, plain = View!Replay(rows, {}),
         NEW after, after = View!MergeHistory(<< >>, View!Replay(rows, failed))
  PROVE  FromRows(after, rows, failed, n, plain)
<1>1. /\ plain \in Bubbles /\ plain = [i \in DOMAIN rows |-> RowBubble(rows[i])]
      /\ DOMAIN rows = 1 .. n /\ \A i \in 1 .. n : rows[i] \in Row
  BY ReplayedRows
<1>2. DOMAIN plain = 1 .. n /\ Len(plain) = n /\ \A i \in 1 .. n : plain[i] = RowBubble(rows[i])
  BY <1>1, BubblesTyped
<1>3. ASSUME NEW i \in 1 .. n
      PROVE  /\ plain[i].role = rows[i].role /\ plain[i].says = {rows[i].turn} /\ plain[i].state = "done"
             /\ rows[i].role \in {"user", "assistant"}
             /\ \A t \in Sends : plain[i] = View!UserBubble(t) <=> rows[i] = [role |-> "user", turn |-> t]
  <2>1. rows[i] \in Row /\ plain[i] = RowBubble(rows[i])
    BY <1>1, <1>2
  <2>2. plain[i].role = rows[i].role /\ plain[i].says = {rows[i].turn} /\ plain[i].state = "done"
    BY <2>1 DEF RowBubble
  <2>3. ASSUME NEW t \in Sends, plain[i] = View!UserBubble(t)
        PROVE  rows[i] = [role |-> "user", turn |-> t]
    <3>1. rows[i].role = "user" /\ rows[i].turn = t
      BY <2>2, <2>3, NewBubbles
    <3> QED
      BY <2>1, <3>1 DEF Row
  <2>4. ASSUME NEW t \in Sends, rows[i] = [role |-> "user", turn |-> t]
        PROVE  plain[i] = View!UserBubble(t)
    BY <2>1, <2>4 DEF RowBubble, View!UserBubble
  <2> QED
    BY <2>1, <2>2, <2>3, <2>4 DEF Row
<1> PICK b \in View!Bubble : b = View!ErrorBubble /\ b.role = "assistant" /\ b.state = "error"
  <2>1. View!ErrorBubble \in View!Bubble /\ View!ErrorBubble.role = "assistant" /\ View!ErrorBubble.state = "error"
    BY DEF View!ErrorBubble, View!Bubble
  <2> QED
    BY <2>1
<1>4. \/ after = plain /\ ~(n > 0 /\ rows[n].role = "user" /\ rows[n].turn \in failed)
      \/ after = Append(plain, b) /\ n > 0 /\ rows[n].role = "user" /\ rows[n].turn \in failed
  <2> PICK replay : replay = View!Replay(rows, failed)
    OBVIOUS
  <2>1. \/ replay = plain /\ ~(n > 0 /\ rows[n].role = "user" /\ rows[n].turn \in failed)
        \/ replay = Append(plain, b) /\ n > 0 /\ rows[n].role = "user" /\ rows[n].turn \in failed
    BY DEF View!Replay
  <2>2. replay \in Bubbles
    BY <1>1, <2>1, AppendedThread
  <2>3. after = replay \o << >>
    BY DEF View!MergeHistory
  <2> QED
    BY <2>1, <2>2, <2>3, JoinedThread
<1>5. ASSUME NEW saved, \A i \in DOMAIN rows : rows[i].role = "user" => rows[i].turn \in saved
      PROVE  Kept(plain, saved) = plain
  <2>1. \A i \in DOMAIN plain : Stays(plain[i], saved)
    <3> SUFFICES ASSUME NEW i \in 1 .. n
                 PROVE  Stays(plain[i], saved)
      BY <1>2
    <3>1. /\ plain[i].role = rows[i].role /\ plain[i].says = {rows[i].turn} /\ plain[i].state = "done"
          /\ rows[i].role = "user" => rows[i].turn \in saved
      BY <1>1, <1>3, <1>5
    <3> QED
      BY <3>1 DEF Stays
  <2> QED
    BY <1>1, <2>1, KeptAll
<1>6. CASE after = plain /\ ~(n > 0 /\ rows[n].role = "user" /\ rows[n].turn \in failed)
  <2>1. ~View!IsStreaming(after)
    <3>1. n > 0 => n \in 1 .. n
      OBVIOUS
    <3> QED
      BY <1>2, <1>3, <1>6, <3>1 DEF View!IsStreaming, View!Last
  <2>2. \A t : View!AwaitsReply(after, t) <=> n > 0 /\ plain[n] = View!UserBubble(t)
    BY <1>2, <1>6, <2>1 DEF View!AwaitsReply
  <2>3. \A t \in Sends : View!AwaitsReply(after, t) <=> n > 0 /\ rows[n] = [role |-> "user", turn |-> t]
    <3>1. n > 0 => n \in 1 .. n
      OBVIOUS
    <3>2. n > 0 => \A t \in Sends : plain[n] = View!UserBubble(t) <=> rows[n] = [role |-> "user", turn |-> t]
      BY <1>3, <3>1
    <3> QED
      BY <2>2, <3>2
  <2>4. \A t \in Sends : \A i \in DOMAIN after : after[i] = View!UserBubble(t) =>
          i \in DOMAIN rows /\ rows[i] = [role |-> "user", turn |-> t]
    BY <1>1, <1>2, <1>3, <1>6
  <2> QED
    BY <1>1, <1>5, <1>6, <2>1, <2>3, <2>4 DEF FromRows
<1>7. CASE after = Append(plain, b) /\ n > 0 /\ rows[n].role = "user" /\ rows[n].turn \in failed
  <2>1. /\ after \in Bubbles /\ Len(after) = n + 1 /\ DOMAIN after = 1 .. n + 1
        /\ \A i \in 1 .. n : after[i] = plain[i]
        /\ after[n + 1] = b
    <3>1. /\ after \in Bubbles /\ Len(after) = n + 1
          /\ \A i \in DOMAIN plain : after[i] = plain[i]
          /\ after[n + 1] = b
      <4>1. after = Append(plain, b) /\ plain \in Bubbles /\ Len(plain) = n
        BY <1>1, <1>2, <1>7
      <4>2. /\ Append(plain, b) \in Bubbles /\ Len(Append(plain, b)) = Len(plain) + 1
            /\ \A i \in DOMAIN plain : Append(plain, b)[i] = plain[i]
            /\ Append(plain, b)[Len(plain) + 1] = b
        BY <4>1, AppendedThread
      <4> QED
        BY <4>1, <4>2
    <3>2. DOMAIN after = 1 .. n + 1
      BY <3>1, BubblesTyped
    <3> QED
      BY <1>2, <3>1, <3>2
  <2>2. ~View!IsStreaming(after)
    BY <2>1 DEF View!IsStreaming, View!Last
  <2>3. \A t \in Sends : ~View!AwaitsReply(after, t)
    BY <2>1, <2>2, NewBubbles DEF View!AwaitsReply
  <2>4. \A t \in Sends : rows[n] = [role |-> "user", turn |-> t] => t \in failed
    BY <1>7
  <2>5. ASSUME NEW t \in Sends, NEW i \in DOMAIN after, after[i] = View!UserBubble(t)
        PROVE  i \in DOMAIN rows /\ rows[i] = [role |-> "user", turn |-> t]
    <3>1. i \in 1 .. n
      BY <2>1, <2>5, NewBubbles
    <3> QED
      BY <1>1, <1>3, <2>1, <2>5, <3>1
  <2>6. \A saved : Kept(after, saved) = Kept(plain, saved)
    <3>1. \A saved : Lasting(b, saved) = << >>
      BY DEF Lasting, Stays
    <3> QED
      BY <1>1, <1>7, <3>1, KeptWithout
  <2> QED
    BY <1>1, <1>5, <2>1, <2>2, <2>3, <2>4, <2>5, <2>6 DEF FromRows
<1> QED
  BY <1>4, <1>6, <1>7

LEMMA SavedRows ==
  ASSUME TypeOK, NEW s \in Sends
  PROVE  /\ s \in Saved <=> \E i \in DOMAIN messages : messages[i] = [role |-> "user", turn |-> s]
         /\ \A type : Published(type, s) <=> Had(log, Len(log), type, s)
BY LogTyped DEF Saved, HasRow, Published, Had

(* A window that knows of a saved message.                                 *)
LEMMA SavedIsKnown ==
  ASSUME StreamInv, SpeechInv, PostsInv, NEW w \in Windows, NEW s \in Sends, s \in Saved
  PROVE  s \in Known(w)
<1>1. sendPc[s] # "new"
  <2>1. ASSUME sendPc[s] = "new"
        PROVE  sendPc[s] \in (SendAnswers \ {"accepted"}) \cup {"new"}
    BY <2>1 DEF SendAnswers
  <2> QED
    BY <2>1, RefusedIsUnsaved
<1> QED
  BY <1>1 DEF PostsInv, Known

(* A conversation opened from its rows tells what the stream has said up   *)
(* to here, and the reply or the message that is to be said next.          *)
LEMMA HistoryTells ==
  ASSUME TellingInv, PostsInv, NEW w \in Windows,
         NEW after, after = View!MergeHistory(<< >>, View!Replay(messages, failures)),
         NEW entries, entries = log, NEW read \in Nat, read = Len(log), NEW denied,
         NEW known, known = Known(w), NEW refused, NEW saved, saved = Saved
  PROVE  Tells(after, entries, read, FALSE, denied, known, refused, saved)
<1>0. TypeOK /\ SerialInv /\ StreamInv /\ TurnsInv /\ SpeechInv /\ RepliesFollowTheirMessage
  BY DEF TellingInv, ChatInv
<1> PICK rows \in Seq(Row) : rows = messages
  BY <1>0 DEF TypeOK, StoreTypeOK
<1> PICK n \in Nat : n = Len(rows)
  OBVIOUS
<1> PICK failed : failed = failures
  OBVIOUS
<1> PICK plain : plain = View!Replay(rows, {})
  OBVIOUS
<1>1. FromRows(after, rows, failed, n, plain)
  <2>1. after = View!MergeHistory(<< >>, View!Replay(rows, failed))
    OBVIOUS
  <2> QED
    BY <2>1, OpenedFromRows
<1>2. /\ after \in Bubbles /\ plain \in Bubbles /\ ~View!IsStreaming(after)
      /\ \A t \in Sends : View!AwaitsReply(after, t) => n > 0 /\ rows[n] = [role |-> "user", turn |-> t]
      /\ \A t \in Sends : n > 0 /\ rows[n] = [role |-> "user", turn |-> t] /\ t \notin failed => View!AwaitsReply(after, t)
      /\ \A t \in Sends : \A i \in DOMAIN after : after[i] = View!UserBubble(t) =>
           i \in DOMAIN rows /\ rows[i] = [role |-> "user", turn |-> t]
  BY <1>1 DEF FromRows
<1>3. Kept(after, saved) = plain
  <2>1. ASSUME NEW i \in DOMAIN rows, rows[i].role = "user"
        PROVE  rows[i].turn \in saved
    <3>1. rows[i] \in Row /\ rows[i].turn \in Sends
      <4>1. rows[i] \in Row
        OBVIOUS
      <4> QED
        BY <4>1 DEF Row
    <3>2. rows[i] = [role |-> "user", turn |-> rows[i].turn]
      BY <2>1, <3>1 DEF Row
    <3> QED
      BY <1>0, <3>1, <3>2, SavedRows
  <2> QED
    BY <1>1, <2>1 DEF FromRows
<1>4. \A s \in Sends : s \in saved => s \in known
  BY <1>0, SavedIsKnown
<1>5. ASSUME NEW s \in Sends, s \in saved
      PROVE  Had(entries, read, "UserMessage", s) \/ sendPc[s] = "announce"
  <2>1. sendPc[s] = "announce" \/ Published("UserMessage", s)
    BY <1>0, <1>5 DEF SpeechInv
  <2> QED
    BY <1>0, <2>1, SavedRows
<1>6. ASSUME NEW s \in Sends, sendPc[s] = "announce"
      PROVE  s \in saved /\ View!AwaitsReply(after, s) /\ ~Had(entries, read, "UserMessage", s)
  <2>1. RowsOf(s) = {Len(messages)} /\ messages[Len(messages)] = [role |-> "user", turn |-> s]
    BY <1>0, <1>6 DEF SerialInv, RowsInv, AwaitingReply
  <2>2. n \in DOMAIN rows /\ rows[n] = [role |-> "user", turn |-> s]
    BY <2>1 DEF RowsOf
  <2>3. s \notin failed
    BY <1>0, <1>6 DEF SpeechInv
  <2>4. ~Published("UserMessage", s)
    <3> SUFFICES ASSUME Published("UserMessage", s)
                 PROVE  FALSE
      OBVIOUS
    <3>1. PICK i \in DOMAIN log : log[i].turn = s
      BY DEF Published
    <3> QED
      BY <1>0, <1>6, <3>1, ReadIsAccepted
  <2> QED
    BY <1>0, <1>2, <2>2, <2>3, <2>4, SavedRows
<1>7. ASSUME NEW s \in Sends, View!AwaitsReply(after, s)
      PROVE  ~Had(entries, read, "MessageDone", s)
  <2> SUFFICES ASSUME Had(entries, read, "MessageDone", s)
               PROVE  FALSE
    OBVIOUS
  <2>1. HasRow("assistant", s)
    BY <1>0, SavedRows, DoneHasItsRow
  <2>2. PICK i \in DOMAIN messages : messages[i] = [role |-> "assistant", turn |-> s]
    BY <2>1 DEF HasRow
  <2>3. i > 1 /\ messages[i - 1] = [role |-> "user", turn |-> s]
    BY <1>0, <2>2 DEF RepliesFollowTheirMessage
  <2>4. n > 0 /\ messages[n] = [role |-> "user", turn |-> s]
    BY <1>2, <1>7
  <2>5. i - 1 \in DOMAIN messages /\ n \in DOMAIN messages /\ i \in 1 .. n
    BY <2>3, <2>4
  <2>6. i - 1 = n
    <3>1. messages[i - 1] = messages[n]
      BY <2>3, <2>4
    <3> QED
      BY <1>0, <2>5, <3>1 DEF SpeechInv
  <2> QED
    BY <2>5, <2>6
<1>8. Expects(after, entries, read, FALSE, denied)
  BY <1>2, <1>7 DEF Expects
<1>9. ASSUME NEW t \in Sends, NEW i \in DOMAIN after, after[i] = View!UserBubble(t)
      PROVE  /\ t \in known
             /\ Had(entries, read, "UserMessage", t) \/ View!AwaitsReply(after, t) \/ t \in refused
             /\ \A j \in DOMAIN after : after[j] = after[i] => j = i
  <2>1. \A j \in DOMAIN after : after[j] = after[i] => j \in DOMAIN messages /\ messages[j] = [role |-> "user", turn |-> t]
    BY <1>2, <1>9
  <2>2. i \in DOMAIN messages /\ messages[i] = [role |-> "user", turn |-> t]
    BY <2>1
  <2>3. t \in saved
    BY <1>0, <2>2, SavedRows
  <2>4. \A j \in DOMAIN after : after[j] = after[i] => j = i
    BY <1>0, <2>1, <2>2 DEF SpeechInv
  <2> QED
    BY <1>4, <1>5, <1>6, <2>3, <2>4
<1>10. Accounts(after, entries, read, known, refused)
  BY <1>9 DEF Accounts
<1> PICK told \in Bubbles : told = Told(entries, read)
  BY <1>0, LogTyped, ToldTyped
<1>11. CASE plain = told /\ \A s \in Sends : Unspoken(s) = << >>
  <2>1. \A s \in Sends : sendPc[s] # "announce"
    BY <1>11 DEF Unspoken
  <2>2. Awaited(after, entries, read, saved) = {}
    BY <1>5, <2>1 DEF Awaited, Saved
  <2>3. Mirrors(after, entries, read, saved)
    BY <1>3, <1>11, <2>2 DEF Mirrors
  <2> QED
    BY <1>8, <1>10, <2>3 DEF Tells
<1>12. ASSUME NEW s \in Sends, Unspoken(s) # << >>, plain = told \o Unspoken(s)
       PROVE  Tells(after, entries, read, FALSE, denied, known, refused, saved)
  <2>1. CASE sendPc[s] = "announce"
    <3>1. plain = Append(told, View!UserBubble(s))
      BY <1>12, <2>1, JoinedThread DEF Unspoken
    <3>2. s \in Awaited(after, entries, read, saved)
      BY <1>6, <2>1 DEF Awaited
    <3>3. Mirrors(after, entries, read, saved)
      BY <1>3, <3>1, <3>2 DEF Mirrors
    <3> QED
      BY <1>8, <1>10, <3>3 DEF Tells
  <2>2. CASE sendPc[s] # "announce"
    <3>1. Unspoken(s) = << ReplyBubble(s) >> /\ job[s] \in {"caching", "publishing"}
      BY <1>12, <2>2 DEF Unspoken
    <3>2. Streaming(s)
      BY <3>1 DEF Streaming, Generating
    <3>3. read > 0 /\ Unended(entries[read]) /\ entries[read].turn = s
      BY <1>0, <3>2 DEF StreamInv
    <3>4. plain = Append(told, ReplyBubble(s))
      BY <1>12, <3>1, JoinedThread
    <3>5. ~View!AwaitsReply(after, s)
      <4> SUFFICES ASSUME View!AwaitsReply(after, s)
                   PROVE  FALSE
        OBVIOUS
      <4>1. n > 0 /\ rows[n].role = "user"
        <5>1. n > 0 /\ rows[n] = [role |-> "user", turn |-> s]
          BY <1>2
        <5> QED
          BY <5>1
      <4>2. plain = [i \in DOMAIN rows |-> RowBubble(rows[i])]
        BY ReplayedRows
      <4>3. plain[n].role = "user" /\ DOMAIN plain = 1 .. n
        <5>1. n \in DOMAIN rows /\ DOMAIN rows = 1 .. n
          BY <4>1
        <5> QED
          BY <4>1, <4>2, <5>1 DEF RowBubble
      <4>4. Len(plain) = n
        BY <1>2, <4>3, BubblesTyped
      <4>5. Len(plain) = Len(told) + 1 /\ plain[Len(told) + 1] = ReplyBubble(s)
        BY <3>4 DEF Bubbles
      <4>6. ReplyBubble(s).role = "assistant"
        BY DEF ReplyBubble
      <4> QED
        BY <4>3, <4>4, <4>5, <4>6
    <3>6. Mirrors(after, entries, read, saved)
      BY <3>3, <3>5 DEF Ahead, Mirrors
    <3> QED
      BY <1>8, <1>10, <3>6 DEF Tells
  <2> QED
    BY <2>1, <2>2
<1> QED
  BY <1>0, <1>11, <1>12 DEF SpeechInv, RowsTold

-----------------------------------------------------------------------------
(* A message that is committed now was neither refused nor announced.      *)
Committed(u) ==
  /\ u \notin Saved /\ u \notin Refused
  /\ \A i \in DOMAIN log : log[i].turn # u
  /\ Saved' = Saved \cup {u}

LEMMA SavedGrows ==
  ASSUME TellingInv, [Next]_vars
  PROVE  Saved' = Saved \/ \E u \in Sends : Committed(u)
<1>0. TypeOK /\ SerialInv /\ StreamInv
  BY DEF TellingInv, ChatInv
<1>1. messages \in Seq(Row)
  BY <1>0 DEF TypeOK, StoreTypeOK
<1>2. CASE UNCHANGED messages
  BY <1>2 DEF Saved, HasRow
<1>3. ASSUME NEW s \in Sends, NEW role \in {"user", "assistant"}, InsertRow(role, s)
      PROVE  Saved' = IF role = "user" THEN Saved \cup {s} ELSE Saved
  <2> PICK row : row = [role |-> role, turn |-> s]
    OBVIOUS
  <2> PICK n \in Nat : n = Len(messages)
    BY <1>1
  <2>1. /\ messages'[n + 1] = row /\ \A i \in DOMAIN messages : messages'[i] = messages[i]
        /\ DOMAIN messages' = DOMAIN messages \cup {n + 1}
    BY <1>1, <1>3, RowsOfAppend
  <2>2. \A t \in Sends : row = [role |-> "user", turn |-> t] <=> role = "user" /\ t = s
    OBVIOUS
  <2>3. \A t \in Sends : HasRow("user", t)' <=> HasRow("user", t) \/ (role = "user" /\ t = s)
    BY <2>1, <2>2 DEF HasRow
  <2> QED
    BY <2>3 DEF Saved
<1>4. ASSUME NEW s \in Sends, SaveReply(s)
      PROVE  Saved' = Saved
  <2>1. InsertRow("assistant", s)
    BY <1>4 DEF SaveReply
  <2> QED
    BY <1>3, <2>1
<1>5. ASSUME NEW s \in Sends, PersistUserMessage(s)
      PROVE  Committed(s)
  <2>1. sendPc[s] = "persist" /\ InsertRow("user", s)
    BY <1>5 DEF PersistUserMessage, SendGoes
  <2>2. Saved' = Saved \cup {s}
    BY <1>3, <2>1
  <2>3. s \notin Saved
    <3>1. RowsOf(s) = {}
      BY <1>0, <2>1 DEF SerialInv, RowsInv, Unsaid
    <3>2. \A i \in DOMAIN messages : messages[i] # [role |-> "user", turn |-> s]
      BY <3>1 DEF RowsOf
    <3> QED
      BY <3>2 DEF Saved, HasRow
  <2>4. s \notin Refused
    BY <2>1 DEF Refused, SendAnswers
  <2>5. \A i \in DOMAIN log : log[i].turn # s
    BY <1>0, <2>1, ReadIsAccepted
  <2> QED
    BY <2>2, <2>3, <2>4, <2>5 DEF Committed
<1> QED
  BY <1>2, <1>4, <1>5, MessagesStep

(* What is known, refused and answered only grows, and a refusal that is   *)
(* no longer on its way was answered in this step or before.               *)
LEMMA NewsGrows ==
  ASSUME TypeOK, WatchTypeOK, PostsInv, [WatchNext]_<< vars, winVars >>
  PROVE  /\ \A w \in Windows : Known(w) \subseteq Known(w)'
         /\ Refused \subseteq Refused' /\ Saved \subseteq Saved'
         /\ \A s \in Sends : post[s] # "unsent" => post'[s] # "unsent"
         /\ \A s \in Denied' : s \in Denied \/ (post[s] = "sent" /\ post'[s] = "answered")
<1>1. [Next]_vars /\ PostsInv'
  BY StepsOf, PostsStep
<1>2. post \in [Sends -> Posts]
  BY DEF WatchTypeOK, Posts
<1>3. \/ UNCHANGED post
      \/ \E s \in Sends, to \in {"sent", "answered"} :
           post' = [post EXCEPT ![s] = to] /\ (to = "answered" => post[s] = "sent")
  <2>1. UNCHANGED winVars => UNCHANGED post
    BY DEF winVars
  <2>2. \A w \in Windows : Window(w) => UNCHANGED post
    BY DEF Window, LoadHistory, Connect, Deliver, Drop, Leave, Return
  <2>3. ASSUME NEW s \in Sends, Mint(s) \/ Submit(s) \/ PostAnswered(s)
        PROVE  \E to \in {"sent", "answered"} :
                 post' = [post EXCEPT ![s] = to] /\ (to = "answered" => post[s] = "sent")
    BY <2>3 DEF Mint, Submit, PostAnswered
  <2> QED
    BY <2>1, <2>2, <2>3, StepsOf
<1>4. \A s \in Sends : post[s] # "unsent" => post'[s] # "unsent"
  BY <1>2, <1>3
<1>5. Saved \subseteq Saved'
  BY <1>1, RowsStay DEF Saved
<1>6. Refused \subseteq Refused'
  BY <1>1, AnswersStay DEF Refused
<1>7. \A w \in Windows : Known(w) \subseteq Known(w)'
  BY <1>4, <1>5 DEF Known
<1>8. ASSUME NEW s \in Denied'
      PROVE  s \in Denied \/ (post[s] = "sent" /\ post'[s] = "answered")
  <2>1. s \in Sends /\ sendPc'[s] \in SendAnswers \ {"accepted"} /\ post'[s] # "sent"
    BY <1>8 DEF Denied, Refused
  <2>2. post'[s] = "answered" /\ post[s] \in Posts
    <3>1. post'[s] \in Posts
      BY <1>2, <1>3, <2>1 DEF Posts
    <3>2. post'[s] # "unsent"
      BY <1>1, <2>1 DEF PostsInv, SendAnswers
    <3> QED
      BY <1>2, <2>1, <3>1, <3>2 DEF Posts
  <2>3. CASE post[s] = "answered"
    <3>1. sendPc[s] \in SendAnswers
      BY <2>1, <2>3 DEF PostsInv
    <3>2. sendPc'[s] = sendPc[s]
      BY <1>1, <2>1, <3>1, AnswersStay
    <3> QED
      BY <2>1, <2>3, <3>1, <3>2 DEF Denied, Refused
  <2>4. post[s] # "unsent"
    <3> SUFFICES ASSUME post[s] = "unsent"
                 PROVE  FALSE
      OBVIOUS
    <3> QED
      BY <1>2, <1>3, <2>1, <2>2
  <2> QED
    BY <2>2, <2>3, <2>4 DEF Posts
<1> QED
  BY <1>4, <1>5, <1>6, <1>7, <1>8

-----------------------------------------------------------------------------
(* What every window shows.                                                *)
WindowShows(w) == (view[w] = "blank" => ~busy[w]) /\ (intact[w] => ShowsInv(w))

WatchingInv == TellingInv /\ WatchInv /\ PostsInv /\ \A w \in Windows : WindowShows(w)

LEMMA ShowsNow ==
  ASSUME WatchingInv, NEW w \in Windows, intact[w]
  PROVE  /\ Tells(thread[w], log, position[w], busy[w], Denied, Known(w), Refused, Saved)
         /\ thread[w] \in Bubbles /\ Tidy(thread[w]) /\ position[w] \in Nat /\ busy[w] \in BOOLEAN
         /\ Follows(thread[w], log, position[w], view[w] = "open" \/ got[w])
         /\ position[w] <= Len(log) /\ Saved \in SUBSET Sends
<1>1. ShowsInv(w)
  BY DEF WatchingInv, WindowShows
<1>2. Tells(thread[w], log, position[w], busy[w], Denied, Known(w), Refused, Saved)
  BY <1>1 DEF Tells, ShowsInv
<1>3. Tidy(thread[w]) /\ Follows(thread[w], log, position[w], view[w] = "open" \/ got[w])
  BY DEF WatchingInv, WatchInv, ThreadsInv, WindowInv
<1>4. thread[w] \in Bubbles /\ position[w] \in Nat /\ busy[w] \in BOOLEAN
  BY DEF WatchingInv, WatchInv, WatchTypeOK, Bubbles
<1>5. position[w] <= Len(log)
  BY <1>3 DEF Follows
<1>6. Saved \in SUBSET Sends
  BY DEF Saved
<1> QED
  BY <1>2, <1>3, <1>4, <1>5, <1>6

(* A thread waits with a turn whose refusal is told only where it was sent. *)
LEMMA RefusalIsTold ==
  ASSUME WatchingInv, TellingInv', [WatchNext]_<< vars, winVars >>, NEW w \in Windows, intact[w],
         NEW s \in Sends, View!AwaitsReply(thread[w], s), s \in Denied', s \notin Denied
  PROVE  Sender[s] = w /\ post[s] = "sent" /\ post'[s] = "answered"
<1>1. TypeOK /\ WatchTypeOK /\ PostsInv
  BY DEF WatchingInv, TellingInv, ChatInv, WatchInv
<1>2. post[s] = "sent" /\ post'[s] = "answered"
  BY <1>1, NewsGrows
<1>3. s \in Known(w)
  <2> PICK bubbles \in Bubbles : bubbles = thread[w]
    BY ShowsNow
  <2>1. PICK k \in DOMAIN bubbles : bubbles[k] = View!UserBubble(s)
    BY AwaitedIsInFront, BubblesTyped
  <2>2. Accounts(thread[w], log, position[w], Known(w), Refused)
    BY ShowsNow DEF Tells
  <2> QED
    BY <2>1, <2>2 DEF Accounts
<1>4. s \notin Saved
  <2>1. s \notin Saved'
    <3>1. sendPc'[s] \in (SendAnswers \ {"accepted"}) \cup {"new"}
      BY DEF Denied, Refused
    <3>2. StreamInv' /\ SpeechInv'
      BY DEF TellingInv, ChatInv
    <3>3. ASSUME s \in Saved'
          PROVE  FALSE
      <4>1. sendPc'[s] = "announce" \/ Published("UserMessage", s)'
        BY <3>2, <3>3 DEF SpeechInv
      <4>2. Published("UserMessage", s)'
        BY <3>1, <4>1 DEF SendAnswers
      <4>3. PICK i \in DOMAIN log' : log'[i].turn = s
        BY <4>2 DEF Published
      <4>4. sendPc'[s] \in {"enqueue", "accepted"}
        BY <3>2, <4>3 DEF StreamInv, InOrder
      <4> QED
        BY <3>1, <4>4 DEF SendAnswers
    <3> QED
      BY <3>3
  <2> QED
    BY <1>1, <2>1, NewsGrows
<1> QED
  BY <1>2, <1>3, <1>4 DEF Known

(* A window that keeps its thread and its place in the stream.             *)
LEMMA RestTells ==
  ASSUME WatchingInv, TellingInv', [WatchNext]_<< vars, winVars >>, NEW w \in Windows, intact[w],
         thread'[w] = thread[w], position'[w] = position[w],
         busy'[w] \in BOOLEAN, busy'[w] => busy[w],
         \A s \in Sends : Sender[s] = w /\ post[s] = "sent" /\ post'[s] = "answered" => sendPc[s] = "accepted"
  PROVE  ShowsInv(w)'
<1>0. TypeOK /\ WatchTypeOK /\ PostsInv /\ [Next]_vars
  BY StepsOf DEF WatchingInv, TellingInv, ChatInv, WatchInv
<1> PICK bubbles \in Bubbles : bubbles = thread[w]
  BY ShowsNow
<1> PICK entries : entries = log
  OBVIOUS
<1> PICK read \in Nat : read = position[w]
  BY ShowsNow
<1> PICK sending \in BOOLEAN : sending = busy[w]
  BY ShowsNow
<1> PICK denied : denied = Denied
  OBVIOUS
<1> PICK known : known = Known(w)
  OBVIOUS
<1> PICK refused : refused = Refused
  OBVIOUS
<1> PICK saved \in SUBSET Sends : saved = Saved
  BY ShowsNow
<1> PICK after : after = log'
  OBVIOUS
<1> PICK sends \in BOOLEAN : sends = busy'[w]
  OBVIOUS
<1> PICK now : now = Denied'
  OBVIOUS
<1> PICK more : more = Known(w)'
  OBVIOUS
<1> PICK refusals : refusals = Refused'
  OBVIOUS
<1> PICK rows : rows = Saved'
  OBVIOUS
<1>1. Tells(bubbles, entries, read, sending, denied, known, refused, saved) /\ Tidy(bubbles)
      /\ read <= Len(log)
  BY ShowsNow
<1>2. \A i \in 1 .. read : i \in DOMAIN log /\ after[i] = entries[i]
  BY <1>0, <1>1, LogTyped, LogKept
<1>3. known \subseteq more /\ refused \subseteq refusals
  BY <1>0, NewsGrows
<1>4. ASSUME NEW s \in Sends, View!AwaitsReply(bubbles, s), s \in now
      PROVE  s \in denied
  <2> SUFFICES ASSUME s \notin denied
               PROVE  FALSE
    OBVIOUS
  <2>1. Sender[s] = w /\ post[s] = "sent" /\ post'[s] = "answered"
    BY <1>4, RefusalIsTold
  <2>2. sendPc[s] = "accepted"
    BY <2>1
  <2>3. sendPc'[s] = "accepted"
    BY <1>0, <2>2, AnswersStay DEF SendAnswers
  <2> QED
    BY <1>4, <2>3 DEF Denied, Refused
<1>5. Tells(bubbles, entries, read, sending, denied, known, refused, rows)
  <2>1. CASE rows = saved
    BY <1>1, <2>1
  <2>2. ASSUME NEW u \in Sends, Committed(u)
        PROVE  Tells(bubbles, entries, read, sending, denied, known, refused, rows)
    <3>1. u \notin saved /\ u \notin refused /\ rows = saved \cup {u}
      BY <2>2 DEF Committed
    <3>2. ~Had(entries, read, "UserMessage", u)
      BY <1>2, <2>2 DEF Committed, Had
    <3>3. Tells(bubbles, entries, read, sending, denied, known, refused, saved \cup {u})
      BY <1>1, <3>1, <3>2, TellsSaved
    <3> QED
      BY <3>1, <3>3
  <2> QED
    BY <1>0, <2>1, <2>2, SavedGrows DEF WatchingInv
<1>6. Tells(bubbles, after, read, sends, now, more, refusals, rows)
  <2>1. Elsewhere(bubbles, entries, after, read, denied, now, known, more, refused, refusals)
    BY <1>2, <1>3, <1>4 DEF Elsewhere
  <2>2. sends => sending
    OBVIOUS
  <2> QED
    BY <1>5, <2>1, <2>2, TellsStill
<1> QED
  BY <1>6, ShowsAfter

(* A window that rests goes on showing what it has to.                     *)
LEMMA RestShows ==
  ASSUME WatchingInv, TellingInv', WatchTypeOK', [WatchNext]_<< vars, winVars >>, NEW w \in Windows,
         thread'[w] = thread[w], position'[w] = position[w], busy'[w] => busy[w],
         view'[w] = "blank" => view[w] = "blank", intact'[w] => intact[w],
         intact'[w] => \A s \in Sends : Sender[s] = w /\ post[s] = "sent" /\ post'[s] = "answered" =>
                         sendPc[s] = "accepted"
  PROVE  WindowShows(w)'
<1>1. view'[w] = "blank" => ~busy'[w]
  BY DEF WatchingInv, WindowShows
<1>2. ASSUME intact'[w]
      PROVE  ShowsInv(w)'
  <2>1. busy'[w] \in BOOLEAN
    BY DEF WatchTypeOK
  <2>2. intact[w]
    BY <1>2
  <2>3. \A s \in Sends : Sender[s] = w /\ post[s] = "sent" /\ post'[s] = "answered" => sendPc[s] = "accepted"
    BY <1>2
  <2> QED
    BY <2>1, <2>2, <2>3, RestTells
<1> QED
  BY <1>1, <1>2 DEF WindowShows

(* The other windows rest.                                                 *)
LEMMA OthersRest ==
  ASSUME WatchTypeOK, NEW w \in Windows,
         \/ LoadHistory(w) \/ Connect(w) \/ Deliver(w) \/ Drop(w) \/ Leave(w) \/ Return(w)
         \/ \E s \in Sends : Sender[s] = w /\ (Mint(s) \/ Submit(s) \/ PostAnswered(s)),
         NEW v \in Windows \ {w}
  PROVE  /\ thread'[v] = thread[v] /\ position'[v] = position[v] /\ busy'[v] = busy[v]
         /\ view'[v] = view[v] /\ intact'[v] = intact[v]
         /\ \A s \in Sends : post[s] = "sent" /\ post'[s] = "answered" => Sender[s] = w
<1>1. /\ view \in [Windows -> Views] /\ busy \in [Windows -> BOOLEAN] /\ position \in [Windows -> Nat]
      /\ intact \in [Windows -> BOOLEAN] /\ post \in [Sends -> Posts] /\ thread \in [Windows -> Bubbles]
  BY DEF WatchTypeOK, Posts, Bubbles
<1>2. CASE LoadHistory(w) \/ Connect(w) \/ Deliver(w) \/ Drop(w) \/ Leave(w) \/ Return(w)
  <2>1. UNCHANGED post
    BY <1>2 DEF LoadHistory, Connect, Deliver, Drop, Leave, Return
  <2>2. thread'[v] = thread[v] /\ position'[v] = position[v] /\ busy'[v] = busy[v]
        /\ view'[v] = view[v] /\ intact'[v] = intact[v]
    BY <1>1, <1>2 DEF LoadHistory, Connect, Deliver, Drop, Leave, Return, Show, Goes, SetBusy
  <2> QED
    BY <2>1, <2>2
<1>3. ASSUME NEW s \in Sends, Sender[s] = w, Mint(s) \/ Submit(s) \/ PostAnswered(s)
      PROVE  /\ thread'[v] = thread[v] /\ position'[v] = position[v] /\ busy'[v] = busy[v]
             /\ view'[v] = view[v] /\ intact'[v] = intact[v]
             /\ \A t \in Sends : post[t] = "sent" /\ post'[t] = "answered" => Sender[t] = w
  <2>1. thread'[v] = thread[v] /\ position'[v] = position[v] /\ busy'[v] = busy[v]
        /\ view'[v] = view[v] /\ intact'[v] = intact[v]
    <3>1. Mint(s) => thread'[v] = thread[v] /\ busy'[v] = busy[v] /\ view'[v] = view[v] /\ intact'[v] = intact[v]
      BY <1>1, <1>3 DEF Mint, Show, Goes, SetBusy
    <3>2. Submit(s) => thread'[v] = thread[v] /\ busy'[v] = busy[v] /\ view'[v] = view[v] /\ intact'[v] = intact[v]
      BY <1>1, <1>3 DEF Submit, Show, SetBusy
    <3>3. PostAnswered(s) =>
            thread'[v] = thread[v] /\ busy'[v] = busy[v] /\ view'[v] = view[v] /\ intact'[v] = intact[v]
      BY <1>1, <1>3 DEF PostAnswered, Show, SetBusy
    <3>4. UNCHANGED position
      BY <1>3 DEF Mint, Submit, PostAnswered
    <3> QED
      BY <1>3, <3>1, <3>2, <3>3, <3>4
  <2>2. \A t \in Sends : post[t] = "sent" /\ post'[t] = "answered" => t = s
    <3>1. \E value : post' = [post EXCEPT ![s] = value]
      <4>1. Mint(s) => post' = [post EXCEPT ![s] = "sent"]
        BY DEF Mint
      <4>2. Submit(s) => post' = [post EXCEPT ![s] = "sent"]
        BY DEF Submit
      <4>3. PostAnswered(s) => post' = [post EXCEPT ![s] = "answered"]
        BY DEF PostAnswered
      <4> QED
        BY <1>3, <4>1, <4>2, <4>3
    <3>2. \A t \in Sends \ {s} : post'[t] = post[t]
      BY <1>1, <3>1
    <3> QED
      BY <3>2
  <2> QED
    BY <1>3, <2>1, <2>2
<1> QED
  BY <1>2, <1>3

LEMMA MoveShows ==
  ASSUME WatchingInv, TellingInv', WatchTypeOK', [WatchNext]_<< vars, winVars >>, NEW w \in Windows,
         Drop(w) \/ Leave(w) \/ Return(w)
  PROVE  WindowShows(w)'
<1>1. /\ view \in [Windows -> Views] /\ busy \in [Windows -> BOOLEAN]
  BY DEF WatchingInv, WatchInv, WatchTypeOK
<1>2. UNCHANGED << thread, position, intact, post >>
  BY DEF Drop, Leave, Return
<1>3. busy'[w] => busy[w]
  BY <1>1 DEF Drop, Leave, Return, SetBusy
<1>4. view'[w] # "blank"
  BY <1>1 DEF Drop, Leave, Return, Goes
<1> QED
  BY <1>2, <1>3, <1>4, RestShows

(* A request is accepted, or answered while its user is elsewhere.         *)
LEMMA AcceptedShows ==
  ASSUME WatchingInv, TellingInv', WatchTypeOK', [WatchNext]_<< vars, winVars >>, NEW s \in Sends,
         NEW w \in Windows, w = Sender[s], PostAnswered(s), sendPc[s] = "accepted" \/ view[w] = "away"
  PROVE  WindowShows(w)'
<1>1. /\ view \in [Windows -> Views] /\ intact \in [Windows -> BOOLEAN] /\ post \in [Sends -> Posts]
  BY DEF WatchingInv, WatchInv, WatchTypeOK, Posts
<1>2. UNCHANGED << thread, busy, position >>
  BY DEF PostAnswered
<1>3. view'[w] = "blank" => view[w] = "blank"
  BY <1>1 DEF PostAnswered
<1>4. PICK its \in BOOLEAN : its = RefusalIsIts(w, s)
  BY DEF RefusalIsIts
<1>5. intact' = [intact EXCEPT ![w] = @ /\ (sendPc[s] = "accepted" \/ its)]
  BY <1>4 DEF PostAnswered
<1>6. intact'[w] => intact[w] /\ (sendPc[s] = "accepted" \/ its)
  BY <1>1, <1>5
<1>7. its => view[w] # "away"
  BY <1>4 DEF RefusalIsIts
<1>8. \A t \in Sends : post[t] = "sent" /\ post'[t] = "answered" => t = s
  BY <1>1 DEF PostAnswered
<1>9. intact'[w] => \A t \in Sends : Sender[t] = w /\ post[t] = "sent" /\ post'[t] = "answered" =>
                      sendPc[t] = "accepted"
  BY <1>6, <1>7, <1>8
<1> QED
  BY <1>2, <1>3, <1>6, <1>9, RestShows

(* The backend rests.                                                      *)
LEMMA BackendRests ==
  ASSUME UNCHANGED vars
  PROVE  log' = log /\ Refused' = Refused /\ Saved' = Saved
BY DEF vars, storeVars, sendVars, Refused, Saved, HasRow

(* A window has heard only of turns.                                       *)
LEMMA ReadTurns ==
  ASSUME TypeOK, NEW entries, entries = log, NEW read \in Nat, read <= Len(log)
  PROVE  \A i \in 1 .. read : i \in DOMAIN log /\ entries[i] \in Entry /\ entries[i].turn \in Sends
BY LogTyped

(* A request is refused in front of its user.                              *)
LEMMA RefusalShows ==
  ASSUME WatchingInv, TellingInv', WatchInv', [WatchNext]_<< vars, winVars >>, NEW s \in Sends,
         NEW w \in Windows, w = Sender[s], PostAnswered(s), sendPc[s] # "accepted", view[w] # "away"
  PROVE  WindowShows(w)'
<1>0. /\ TypeOK /\ WatchTypeOK /\ PostsInv /\ StreamInv /\ SpeechInv /\ UNCHANGED vars
      /\ view \in [Windows -> Views] /\ busy \in [Windows -> BOOLEAN] /\ intact \in [Windows -> BOOLEAN]
      /\ thread \in [Windows -> Bubbles] /\ position \in [Windows -> Nat]
  BY DEF WatchingInv, TellingInv, ChatInv, WatchInv, WatchTypeOK, Bubbles, PostAnswered
<1>1. busy'[w] = FALSE
  BY <1>0 DEF PostAnswered, SetBusy
<1>2. ASSUME intact'[w]
      PROVE  ShowsInv(w)'
  <2> PICK its \in BOOLEAN : its = RefusalIsIts(w, s)
    BY DEF RefusalIsIts
  <2>1. intact' = [intact EXCEPT ![w] = @ /\ (sendPc[s] = "accepted" \/ its)]
    BY DEF PostAnswered
  <2>2. intact[w] /\ its
    BY <1>0, <1>2, <2>1
  <2> PICK bubbles \in Bubbles : bubbles = thread[w]
    BY <1>0
  <2> PICK entries : entries = log
    OBVIOUS
  <2> PICK read \in Nat : read = position[w]
    BY <1>0
  <2> PICK sending \in BOOLEAN : sending = busy[w]
    BY <1>0
  <2> PICK denied : denied = Denied
    OBVIOUS
  <2> PICK known : known = Known(w)
    OBVIOUS
  <2> PICK refused : refused = Refused
    OBVIOUS
  <2> PICK saved \in SUBSET Sends : saved = Saved
    BY <2>2, ShowsNow
  <2> PICK now : now = Denied'
    OBVIOUS
  <2> PICK more : more = Known(w)'
    OBVIOUS
  <2> PICK after : after = View!MarkLastAssistantErrored(bubbles)
    OBVIOUS
  <2>3. Tells(bubbles, entries, read, sending, denied, known, refused, saved) /\ read <= Len(log)
    BY <2>2, ShowsNow
  <2>4. View!AwaitsReply(bubbles, s) \/ View!Answered(bubbles)
    BY <2>2 DEF RefusalIsIts
  <2>5. \A i \in 1 .. read : entries[i].turn \in Sends
    BY <1>0, <2>3, ReadTurns
  <2>6. s \in refused
    BY DEF Refused, PostAnswered
  <2>7. s \notin saved
    BY <1>0, RefusedIsUnsaved DEF PostAnswered
  <2>8. known \subseteq more
    BY <1>0, NewsGrows
  <2>9. Tells(after, entries, read, FALSE, now, more, refused, saved)
    <3>1. IsRefused(bubbles, entries, read, s, saved, refused, known, more)
      BY <2>4, <2>5, <2>6, <2>7, <2>8 DEF IsRefused
    <3> QED
      BY <2>3, <3>1, TellsRefused
  <2>10. thread'[w] = after /\ position'[w] = read
    BY <1>0 DEF PostAnswered, Show
  <2>11. entries = log' /\ refused = Refused' /\ saved = Saved'
    BY <1>0, BackendRests
  <2> QED
    BY <1>1, <2>9, <2>10, <2>11, ShowsAfter
<1> QED
  BY <1>1, <1>2 DEF WindowShows

(* The request s has not started.                                          *)
LEMMA UnsentIsUnknown ==
  ASSUME TypeOK, PostsInv, StreamInv, SpeechInv, NEW s \in Sends, post[s] = "unsent"
  PROVE  /\ s \notin Saved /\ s \notin Refused /\ \A i \in DOMAIN log : log[i].turn # s
         /\ \A w \in Windows : s \notin Known(w)
<1>1. sendPc[s] = "new"
  BY DEF PostsInv
<1>2. s \notin Saved
  <2>1. sendPc[s] \in (SendAnswers \ {"accepted"}) \cup {"new"}
    BY <1>1
  <2> QED
    BY <2>1, RefusedIsUnsaved
<1>3. s \notin Refused
  BY <1>1 DEF Refused, SendAnswers
<1>4. \A i \in DOMAIN log : log[i].turn # s
  BY <1>1, ReadIsAccepted
<1> QED
  BY <1>2, <1>3, <1>4 DEF Known

(* A message is sent, in a new conversation and in one on screen.          *)
LEMMA SentShows ==
  ASSUME WatchingInv, TellingInv', WatchInv', [WatchNext]_<< vars, winVars >>, NEW s \in Sends,
         NEW w \in Windows, w = Sender[s], post[s] = "unsent", post' = [post EXCEPT ![s] = "sent"],
         UNCHANGED vars, NEW bubbles \in Bubbles, View!Answered(bubbles), NEW sending,
         NEW read \in Nat, read <= Len(log), busy'[w],
         Tells(bubbles, log, read, sending, Denied, Known(w), Refused, Saved),
         thread'[w] = View!Submitted(bubbles, s), position'[w] = read
  PROVE  ShowsInv(w)'
<1>0. TypeOK /\ WatchTypeOK /\ PostsInv /\ StreamInv /\ SpeechInv
  BY DEF WatchingInv, TellingInv, ChatInv, WatchInv
<1> PICK entries : entries = log
  OBVIOUS
<1> PICK denied : denied = Denied
  OBVIOUS
<1> PICK known : known = Known(w)
  OBVIOUS
<1> PICK refused : refused = Refused
  OBVIOUS
<1> PICK saved \in SUBSET Sends : saved = Saved
  BY DEF Saved
<1> PICK now : now = Denied'
  OBVIOUS
<1> PICK more : more = Known(w)'
  OBVIOUS
<1> PICK after : after = View!Submitted(bubbles, s)
  OBVIOUS
<1>1. Tells(bubbles, entries, read, sending, denied, known, refused, saved)
  OBVIOUS
<1>2. \A i \in 1 .. read : entries[i].turn \in Sends \ {s}
  BY <1>0, ReadTurns, UnsentIsUnknown
<1>3. s \notin saved /\ s \notin known
  BY <1>0, UnsentIsUnknown
<1>4. entries = log' /\ refused = Refused' /\ saved = Saved'
  BY BackendRests
<1>5. s \notin now
  BY <1>0, <1>4, UnsentIsUnknown DEF Denied
<1>6. known \subseteq more
  BY <1>0, NewsGrows
<1>7. s \in more
  <2>1. post'[s] = "sent"
    BY <1>0 DEF WatchTypeOK
  <2> QED
    BY <2>1 DEF Known
<1>8. Tells(after, entries, read, TRUE, now, more, refused, saved)
  <2>1. Unheard(entries, read, s, saved, known, now, more)
    BY <1>2, <1>3, <1>5, <1>6, <1>7 DEF Unheard
  <2> QED
    BY <1>1, <2>1, TellsSubmitted
<1>9. busy'[w] = TRUE
  BY DEF WatchInv, WatchTypeOK
<1> QED
  BY <1>4, <1>8, <1>9, ShowsAfter

LEMMA MintShows ==
  ASSUME WatchingInv, TellingInv', WatchInv', [WatchNext]_<< vars, winVars >>, NEW s \in Sends,
         NEW w \in Windows, w = Sender[s], Mint(s)
  PROVE  WindowShows(w)'
<1>0. /\ view \in [Windows -> Views] /\ busy \in [Windows -> BOOLEAN]
      /\ thread \in [Windows -> Bubbles] /\ position \in [Windows -> Nat]
  BY DEF WatchingInv, WatchInv, WatchTypeOK, Bubbles
<1>1. thread[w] = << >> /\ position[w] = 0
  BY DEF Mint, WatchingInv, WatchInv, ThreadsInv, WindowInv
<1>2. view'[w] # "blank" /\ busy'[w]
  BY <1>0 DEF Mint, Goes, SetBusy
<1>3. PICK bubbles \in Bubbles : bubbles = << >>
  BY EmptySeq DEF Bubbles
<1>4. View!Answered(bubbles)
  BY <1>3 DEF View!Answered
<1>5. thread'[w] = View!Submitted(bubbles, s)
  BY <1>0, <1>1, <1>3 DEF Mint, Show
<1>6. position'[w] = 0 /\ 0 <= Len(log)
  BY <1>1, LogTyped DEF Mint, WatchingInv, TellingInv, ChatInv
<1>7. Tells(bubbles, log, 0, FALSE, Denied, Known(w), Refused, Saved)
  <2> PICK denied : denied = Denied
    OBVIOUS
  <2> PICK known : known = Known(w)
    OBVIOUS
  <2> PICK refused : refused = Refused
    OBVIOUS
  <2> PICK saved : saved = Saved
    OBVIOUS
  <2> PICK entries : entries = log
    OBVIOUS
  <2>1. Tells(<< >>, entries, 0, FALSE, denied, known, refused, saved)
    BY TellsNothing
  <2> QED
    BY <1>3, <2>1
<1>8. ShowsInv(w)'
  <2>1. post[s] = "unsent" /\ post' = [post EXCEPT ![s] = "sent"] /\ UNCHANGED vars
    BY DEF Mint
  <2> PICK read \in Nat : read = 0
    OBVIOUS
  <2> PICK sending : sending = FALSE
    OBVIOUS
  <2>2. Tells(bubbles, log, read, sending, Denied, Known(w), Refused, Saved)
    BY <1>7
  <2>3. position'[w] = read /\ read <= Len(log)
    BY <1>6
  <2> QED
    BY <1>2, <1>4, <1>5, <2>1, <2>2, <2>3, SentShows
<1> QED
  BY <1>2, <1>8 DEF WindowShows

LEMMA SubmitShows ==
  ASSUME WatchingInv, TellingInv', WatchInv', [WatchNext]_<< vars, winVars >>, NEW s \in Sends,
         NEW w \in Windows, w = Sender[s], Submit(s)
  PROVE  WindowShows(w)'
<1>0. /\ view \in [Windows -> Views] /\ busy \in [Windows -> BOOLEAN] /\ intact \in [Windows -> BOOLEAN]
      /\ thread \in [Windows -> Bubbles] /\ position \in [Windows -> Nat]
  BY DEF WatchingInv, WatchInv, WatchTypeOK, Bubbles
<1>1. view'[w] # "blank" /\ busy'[w]
  BY <1>0 DEF Submit, SetBusy
<1>2. ASSUME intact'[w]
      PROVE  ShowsInv(w)'
  <2> PICK bubbles \in Bubbles : bubbles = thread[w]
    BY <1>0
  <2> PICK read \in Nat : read = position[w]
    BY <1>0
  <2> PICK answered \in BOOLEAN : answered = View!Answered(bubbles)
    BY DEF View!Answered
  <2>1. intact' = [intact EXCEPT ![w] = @ /\ answered]
    BY DEF Submit
  <2>2. intact[w] /\ answered
    BY <1>0, <1>2, <2>1
  <2>3. Tells(bubbles, log, read, busy[w], Denied, Known(w), Refused, Saved) /\ read <= Len(log)
    BY <2>2, ShowsNow
  <2>4. thread'[w] = View!Submitted(bubbles, s) /\ position'[w] = read
    BY <1>0 DEF Submit, Show
  <2>5. post[s] = "unsent" /\ post' = [post EXCEPT ![s] = "sent"] /\ UNCHANGED vars
    BY DEF Submit
  <2> PICK sending : sending = busy[w]
    OBVIOUS
  <2>6. Tells(bubbles, log, read, sending, Denied, Known(w), Refused, Saved)
    BY <2>3
  <2> QED
    BY <1>1, <2>2, <2>3, <2>4, <2>5, <2>6, SentShows
<1> QED
  BY <1>1, <1>2 DEF WindowShows

(* A window acts by itself.                                                *)
LEMMA AllRests ==
  ASSUME UNCHANGED << vars, post >>, NEW w \in Windows
  PROVE  log' = log /\ Refused' = Refused /\ Saved' = Saved /\ Denied' = Denied /\ Known(w)' = Known(w)
<1>1. log' = log /\ Refused' = Refused /\ Saved' = Saved
  BY BackendRests
<1> QED
  BY <1>1 DEF Denied, Known

LEMMA LoadShows ==
  ASSUME WatchingInv, NEW w \in Windows, LoadHistory(w)
  PROVE  WindowShows(w)'
<1>0. /\ view \in [Windows -> Views] /\ busy \in [Windows -> BOOLEAN]
      /\ thread \in [Windows -> Bubbles] /\ position \in [Windows -> Nat]
  BY DEF WatchingInv, WatchInv, WatchTypeOK, Bubbles
<1>1. thread[w] = << >> /\ ~busy[w]
  BY DEF LoadHistory, WatchingInv, WatchInv, ThreadsInv, WindowInv, WindowShows
<1>2. view'[w] # "blank" /\ busy'[w] = FALSE
  BY <1>0, <1>1 DEF LoadHistory, Goes
<1> PICK after : after = View!MergeHistory(<< >>, View!Replay(messages, failures))
  OBVIOUS
<1> PICK entries : entries = log
  OBVIOUS
<1> PICK read \in Nat : read = Len(log)
  BY LogTyped DEF WatchingInv, TellingInv, ChatInv
<1> PICK denied : denied = Denied
  OBVIOUS
<1> PICK known : known = Known(w)
  OBVIOUS
<1> PICK refused : refused = Refused
  OBVIOUS
<1> PICK saved : saved = Saved
  OBVIOUS
<1>3. Tells(after, entries, read, FALSE, denied, known, refused, saved)
  BY HistoryTells DEF WatchingInv
<1>4. thread'[w] = after /\ position'[w] = read
  BY <1>0, <1>1 DEF LoadHistory, Show
<1>5. entries = log' /\ refused = Refused' /\ saved = Saved' /\ denied = Denied' /\ known = Known(w)'
  BY AllRests DEF LoadHistory
<1>6. ShowsInv(w)'
  BY <1>2, <1>3, <1>4, <1>5, ShowsAfter
<1> QED
  BY <1>2, <1>6 DEF WindowShows

LEMMA ConnectShows ==
  ASSUME WatchingInv, NEW w \in Windows, Connect(w)
  PROVE  WindowShows(w)'
<1>0. /\ view \in [Windows -> Views] /\ busy \in [Windows -> BOOLEAN] /\ intact \in [Windows -> BOOLEAN]
      /\ thread \in [Windows -> Bubbles] /\ position \in [Windows -> Nat]
      /\ TypeOK /\ StreamInv /\ EachOnce(log) /\ EverythingIsAboutASavedMessage /\ gone = 0
  BY DEF WatchingInv, WatchInv, WatchTypeOK, Bubbles, TellingInv, ChatInv, TurnsInv, ReplayInv
<1>1. view'[w] # "blank" /\ busy' = busy /\ thread' = thread
  BY <1>0 DEF Connect, Goes
<1>2. ASSUME intact'[w]
      PROVE  ShowsInv(w)'
  <2> PICK bubbles \in Bubbles : bubbles = thread[w]
    BY <1>0
  <2> PICK entries \in Seq(Entry) : entries = log
    BY <1>0 DEF TypeOK, StoreTypeOK
  <2> PICK read \in Nat : read = position[w]
    BY <1>0
  <2> PICK start \in Nat : start = StartCursor(w)
    <3>1. Len(log) \in Nat /\ flagCursor \in Nat /\ position[w] \in Nat
      BY <1>0, LogTyped DEF TypeOK, StoreTypeOK
    <3>2. StartCursor(w) \in Nat
      BY <3>1 DEF StartCursor, ResumeTurnCursor, LastStreamCursor
    <3> QED
      BY <3>2
  <2> PICK rejoins \in BOOLEAN : rejoins = Rejoins(w)
    BY DEF Rejoins
  <2>1. intact' = [intact EXCEPT ![w] = @ /\ rejoins]
    BY DEF Connect
  <2>2. intact[w] /\ rejoins
    BY <1>0, <1>2, <2>1
  <2> PICK sending \in BOOLEAN : sending = busy[w]
    BY <1>0
  <2> PICK denied : denied = Denied
    OBVIOUS
  <2> PICK known : known = Known(w)
    OBVIOUS
  <2> PICK refused : refused = Refused
    OBVIOUS
  <2> PICK saved \in SUBSET Sends : saved = Saved
    BY <2>2, ShowsNow
  <2> PICK was \in BOOLEAN : was <=> view[w] = "open" \/ got[w]
    OBVIOUS
  <2>3. /\ Tells(bubbles, entries, read, sending, denied, known, refused, saved) /\ read <= Len(entries)
        /\ Follows(bubbles, entries, read, was)
    BY <2>2, ShowsNow DEF Follows
  <2>4. start <= read
    BY <2>2 DEF Rejoins
  <2>5. \A i \in DOMAIN entries : entries[i].type # "PersistenceFailed"
    BY <1>0 DEF StreamInv, InOrder
  <2>6. \A i \in 1 .. read : i \in DOMAIN log /\ entries[i] \in Entry /\ entries[i].turn \in Sends
    BY <1>0, <2>3, ReadTurns
  <2>7. \A i \in 1 .. read : entries[i].turn \in saved
    BY <1>0, <2>6 DEF EverythingIsAboutASavedMessage, Saved
  <2>8. ASSUME NEW i \in start + 1 .. read
        PROVE  View!AwaitsReply(bubbles, entries[i].turn)
    <3>1. i \in 1 .. read
      OBVIOUS
    <3> PICK t \in Sends : t = entries[i].turn
      BY <2>6, <3>1
    <3>2. PICK k \in DOMAIN bubbles : bubbles[k] = View!UserBubble(t)
      BY <2>3, <3>1 DEF Follows
    <3>3. View!Shows(bubbles, t)
      BY <3>2, NewBubbles DEF View!Shows
    <3>4. i \in EntriesAfter(StartCursor(w))
      BY <1>0, <2>6, <3>1 DEF EntriesAfter
    <3> QED
      BY <2>2, <3>3, <3>4 DEF Rejoins
  <2>9. Tells(bubbles, entries, start, sending, denied, known, refused, saved)
    BY <1>0, <2>3, <2>4, <2>5, <2>7, <2>8, TellsFromStart
  <2>10. position'[w] = start
    BY <1>0 DEF Connect
  <2>11. entries = log' /\ refused = Refused' /\ saved = Saved' /\ denied = Denied' /\ known = Known(w)'
    BY AllRests DEF Connect
  <2> QED
    BY <1>1, <2>9, <2>10, <2>11, ShowsAfter
<1> QED
  BY <1>1, <1>2 DEF WindowShows

(* The next entry goes on with the turn that the thread waits for.         *)
Arrives(bubbles, entries, read, next, entry, s, sends, denied) ==
  /\ next = read + 1 /\ entries[next] = entry /\ s = entry.turn
  /\ entry.type \in {"Delta", "MessageDone", "Error"}
  /\ View!AwaitsReply(bubbles, s) /\ ~Ahead(bubbles, entries, read) /\ s \notin denied
  /\ sends => ~View!IsTerminal(entry)

LEMMA FrameTells ==
  ASSUME NEW bubbles \in Bubbles, NEW entries \in Seq(Entry), EachOnce(entries),
         NEW read \in Nat, NEW next \in DOMAIN entries, NEW entry \in Entry, NEW s \in Sends,
         NEW after, after = View!ApplyLiveEvent(bubbles, entry),
         NEW sending \in BOOLEAN, NEW denied, NEW known, NEW refused, NEW saved \in SUBSET Sends,
         Tells(bubbles, entries, read, sending, denied, known, refused, saved),
         NEW sends \in BOOLEAN, Arrives(bubbles, entries, read, next, entry, s, sends, denied)
  PROVE  Tells(after, entries, next, sends, denied, known, refused, saved)
<1>1. PICK type \in {"Delta", "MessageDone", "Error"} : type = entry.type
  BY DEF Arrives
<1>2. entries[next] = [type |-> type, turn |-> s]
  BY <1>1, EntryFields DEF Arrives
<1>3. ASSUME NEW state, NEW saying \in SUBSET Sends,
             state = "streaming" <=> type = "Delta", state = "done" <=> type = "MessageDone",
             state = "done" => saying = {s}
      PROVE  Framed(bubbles, entries, read, next, type, s, state, saying, sends, denied)
  <2>1. sends => type = "Delta"
    BY <1>1 DEF Arrives, View!IsTerminal
  <2> QED
    BY <1>2, <1>3, <2>1 DEF Arrives, Framed
<1>4. PICK state \in {"streaming", "done", "error"}, saying \in SUBSET Sends :
        /\ after = View!UpdateLastAssistant(bubbles, state, saying)
        /\ Framed(bubbles, entries, read, next, type, s, state, saying, sends, denied)
  <2>1. CASE type = "Delta"
    <3>1. after = View!UpdateLastAssistant(bubbles, "streaming", {s})
      BY <1>1, <2>1 DEF View!ApplyLiveEvent, Arrives
    <3>2. Framed(bubbles, entries, read, next, type, s, "streaming", {s}, sends, denied)
      BY <1>3, <2>1
    <3> QED
      BY <3>1, <3>2
  <2>2. CASE type = "MessageDone"
    <3>1. after = View!UpdateLastAssistant(bubbles, "done", {s})
      BY <1>1, <2>2 DEF View!ApplyLiveEvent, Arrives
    <3>2. Framed(bubbles, entries, read, next, type, s, "done", {s}, sends, denied)
      BY <1>3, <2>2
    <3> QED
      BY <3>1, <3>2
  <2>3. CASE type = "Error"
    <3>1. after = View!UpdateLastAssistant(bubbles, "error", {})
      BY <1>1, <2>3 DEF View!ApplyLiveEvent, View!MarkLastAssistantErrored
    <3>2. Framed(bubbles, entries, read, next, type, s, "error", {}, sends, denied)
      BY <1>3, <2>3
    <3> QED
      BY <3>1, <3>2
  <2> QED
    BY <1>1, <2>1, <2>2, <2>3
<1> QED
  BY <1>4, TellsFrame

(* A frame reaches a window.                                               *)
SendsOn(w, entry, sends) ==
  sends = IF View!IsTerminal(entry) THEN FALSE ELSE busy[w] \/ entry.type = "UserMessage"

LEMMA FrameShows ==
  ASSUME DistinctTexts, WatchingInv, NEW w \in Windows, intact[w], view[w] = "open",
         NEW bubbles \in Bubbles, bubbles = thread[w], NEW read \in Nat, read = position[w],
         NEW next \in DOMAIN log, next = read + 1, NEW entry \in Entry, entry = log[next],
         NEW s \in Sends, s = entry.turn, EchoIsExpected(w, entry),
         NEW after, after = View!ApplyLiveEvent(bubbles, entry), NEW sends \in BOOLEAN, SendsOn(w, entry, sends)
  PROVE  Tells(after, log, next, sends, Denied, Known(w), Refused, Saved)
<1>0. /\ TypeOK /\ StreamInv /\ SpeechInv /\ PostsInv /\ EachOnce(log) /\ EverythingIsAboutASavedMessage
      /\ busy \in [Windows -> BOOLEAN]
  BY DEF WatchingInv, WatchInv, WatchTypeOK, TellingInv, ChatInv, TurnsInv
<1> PICK entries \in Seq(Entry) : entries = log
  BY <1>0 DEF TypeOK, StoreTypeOK
<1> PICK sending \in BOOLEAN : sending = busy[w]
  BY <1>0
<1> PICK denied : denied = Denied
  OBVIOUS
<1> PICK known : known = Known(w)
  OBVIOUS
<1> PICK refused : refused = Refused
  OBVIOUS
<1> PICK saved \in SUBSET Sends : saved = Saved
  BY ShowsNow
<1>1. /\ Tells(bubbles, entries, read, sending, denied, known, refused, saved)
      /\ Tidy(bubbles) /\ Follows(bubbles, entries, read, TRUE)
  BY ShowsNow
<1>2. ~Ahead(bubbles, entries, read)
  BY <1>1 DEF Follows, Ahead
<1>3. s \notin refused /\ s \notin denied
  BY <1>0, ReadIsAccepted DEF Denied
<1>4. s \in saved /\ s \in known
  <2>1. HasRow("user", s)
    BY <1>0 DEF EverythingIsAboutASavedMessage
  <2>2. s \in Saved
    BY <2>1 DEF Saved
  <2> QED
    BY <1>0, <2>2, SavedIsKnown
<1>5. InOrder(next)
  BY <1>0 DEF StreamInv
<1>6. /\ entry.type \in {"UserMessage", "Delta", "MessageDone", "Error"}
      /\ entries[next] = [type |-> entry.type, turn |-> s] /\ next \in DOMAIN entries
  <2>1. entry.type # "PersistenceFailed"
    BY <1>5 DEF InOrder
  <2> QED
    BY <2>1, EntryFields
<1>7. CASE entry.type = "UserMessage"
  <2>1. View!Answered(bubbles) \/ View!AwaitsReply(bubbles, s)
    BY <1>7 DEF EchoIsExpected
  <2>2. after = View!ShowUserMessage(bubbles, s)
    BY <1>7 DEF View!ApplyLiveEvent
  <2>3. sends = TRUE
    BY <1>0, <1>7 DEF View!IsTerminal, SendsOn
  <2>4. entries[next] = [type |-> "UserMessage", turn |-> s]
    BY <1>6, <1>7
  <2>5. Tells(after, entries, next, TRUE, denied, known, refused, saved)
    <3>1. EachOnce(entries) /\ next \in DOMAIN entries /\ next = read + 1 /\ Tidy(bubbles)
      BY <1>0, <1>1, <1>6
    <3>2. EchoArrives(bubbles, after, entries, read, next, s)
      BY <1>2, <2>1, <2>2, <2>4, <3>1 DEF EchoArrives
    <3>3. ToldAccepted(bubbles, entries, read, s, denied, known, refused, saved)
      BY <1>1, <1>3, <1>4 DEF ToldAccepted
    <3> QED
      BY <3>2, <3>3, TellsEcho
  <2> QED
    BY <2>3, <2>5
<1>8. ASSUME entry.type # "UserMessage"
      PROVE  View!AwaitsReply(bubbles, s)
  <2>1. next > 1 /\ Unended(log[next - 1]) /\ log[next - 1].turn = s
    BY <1>5, <1>8 DEF InOrder
  <2>2. next - 1 = read /\ read > 0
    BY <2>1
  <2> QED
    BY <1>1, <2>1, <2>2 DEF Follows
<1>9. CASE entry.type # "UserMessage"
  <2>1. Arrives(bubbles, entries, read, next, entry, s, sends, denied)
    BY <1>2, <1>3, <1>6, <1>8, <1>9 DEF Arrives, SendsOn
  <2>2. EachOnce(entries) /\ next \in DOMAIN entries
    BY <1>0
  <2>3. Tells(bubbles, entries, read, sending, denied, known, refused, saved)
    BY <1>1
  <2>4. Tells(after, entries, next, sends, denied, known, refused, saved)
    BY <2>1, <2>2, <2>3, FrameTells
  <2> QED
    BY <2>4
<1> QED
  BY <1>7, <1>9

LEMMA DeliverShows ==
  ASSUME DistinctTexts, WatchingInv, NEW w \in Windows, Deliver(w)
  PROVE  WindowShows(w)'
<1>0. /\ ChatInv /\ view \in [Windows -> Views] /\ busy \in [Windows -> BOOLEAN]
      /\ intact \in [Windows -> BOOLEAN] /\ thread \in [Windows -> Bubbles] /\ position \in [Windows -> Nat]
  BY DEF WatchingInv, TellingInv, WatchInv, WatchTypeOK, Bubbles
<1> PICK bubbles \in Bubbles : bubbles = thread[w]
  BY <1>0
<1> PICK read \in Nat : read = position[w]
  BY <1>0
<1>1. view[w] = "open" /\ EntriesAfter(read) # {}
  BY DEF Deliver
<1>2. PICK next \in DOMAIN log : next = read + 1
  BY <1>0, <1>1, NextEntry
<1>3. PICK entry \in Entry : entry = log[next]
  BY <1>0, LogTyped DEF ChatInv
<1>4. PICK s \in Sends : s = entry.turn
  BY EntryFields
<1>5. PICK after : after = View!ApplyLiveEvent(bubbles, entry)
  OBVIOUS
<1>6. PICK echo \in BOOLEAN : echo = EchoIsExpected(w, entry)
  BY DEF EchoIsExpected
<1>7. (CHOOSE k \in EntriesAfter(position[w]) : \A j \in EntriesAfter(position[w]) : k <= j) = next
  BY <1>0, <1>1, <1>2, NextEntry
<1>8. /\ position' = [position EXCEPT ![w] = next]
      /\ thread' = [thread EXCEPT ![w] = after]
      /\ busy' = [busy EXCEPT ![w] = IF View!IsTerminal(entry) THEN FALSE ELSE @ \/ entry.type = "UserMessage"]
      /\ intact' = [intact EXCEPT ![w] = @ /\ echo]
      /\ UNCHANGED << vars, view, post >>
  BY <1>3, <1>5, <1>6, <1>7 DEF Deliver, Show
<1>9. PICK sends \in BOOLEAN : SendsOn(w, entry, sends)
  BY <1>0 DEF SendsOn
<1>10. thread'[w] = after /\ position'[w] = next /\ busy'[w] = sends /\ view'[w] # "blank"
  BY <1>0, <1>1, <1>8, <1>9 DEF SendsOn
<1>11. ASSUME intact'[w]
       PROVE  ShowsInv(w)'
  <2>1. intact[w] /\ echo
    BY <1>0, <1>8, <1>11
  <2>2. Tells(after, log, next, sends, Denied, Known(w), Refused, Saved)
    BY <1>1, <1>2, <1>3, <1>4, <1>5, <1>6, <1>9, <2>1, FrameShows
  <2> PICK entries : entries = log
    OBVIOUS
  <2> PICK denied : denied = Denied
    OBVIOUS
  <2> PICK known : known = Known(w)
    OBVIOUS
  <2> PICK refused : refused = Refused
    OBVIOUS
  <2> PICK saved : saved = Saved
    OBVIOUS
  <2>3. entries = log' /\ refused = Refused' /\ saved = Saved' /\ denied = Denied' /\ known = Known(w)'
    BY <1>8, AllRests
  <2>4. Tells(after, entries, next, sends, denied, known, refused, saved)
    BY <2>2
  <2> QED
    BY <1>10, <2>3, <2>4, ShowsAfter
<1> QED
  BY <1>10, <1>11 DEF WindowShows

LEMMA WatchingStep ==
  ASSUME DistinctTexts, WatchingInv, TellingInv', [WatchNext]_<< vars, winVars >>
  PROVE  WatchInv' /\ PostsInv' /\ \A w \in Windows : WindowShows(w)'
<1>0. /\ ChatInv /\ WatchInv /\ TypeOK /\ WatchTypeOK /\ PostsInv /\ [Next]_vars
      /\ post \in [Sends -> Posts]
  BY StepsOf DEF WatchingInv, TellingInv, ChatInv, WatchInv, WatchTypeOK, Posts
<1>1. WatchInv' /\ WatchTypeOK'
  BY <1>0, WatchStep DEF WatchInv
<1>2. PostsInv'
  BY <1>0, PostsStep
<1>3. ASSUME NEW w \in Windows,
             \/ LoadHistory(w) \/ Connect(w) \/ Deliver(w) \/ Drop(w) \/ Leave(w) \/ Return(w)
             \/ \E s \in Sends : Sender[s] = w /\ (Mint(s) \/ Submit(s) \/ PostAnswered(s)),
             NEW v \in Windows, v # w
      PROVE  WindowShows(v)'
  <2>1. /\ thread'[v] = thread[v] /\ position'[v] = position[v] /\ busy'[v] = busy[v]
        /\ view'[v] = view[v] /\ intact'[v] = intact[v]
        /\ \A s \in Sends : post[s] = "sent" /\ post'[s] = "answered" => Sender[s] = w
    BY <1>0, <1>3, OthersRest
  <2>2. \A s \in Sends : Sender[s] = v /\ post[s] = "sent" /\ post'[s] = "answered" => sendPc[s] = "accepted"
    BY <1>3, <2>1
  <2> QED
    BY <1>1, <2>1, <2>2, RestShows
<1>4. ASSUME NEW w \in Windows, NEW v \in Windows, Window(w)
      PROVE  WindowShows(v)'
  <2>1. CASE v # w
    BY <1>3, <1>4, <2>1 DEF Window
  <2>2. CASE LoadHistory(w)
    BY <2>1, <2>2, LoadShows
  <2>3. CASE Connect(w)
    BY <2>1, <2>3, ConnectShows
  <2>4. CASE Deliver(w)
    BY <2>1, <2>4, DeliverShows
  <2>5. CASE Drop(w) \/ Leave(w) \/ Return(w)
    BY <1>1, <2>1, <2>5, MoveShows
  <2> QED
    BY <1>4, <2>2, <2>3, <2>4, <2>5 DEF Window
<1>5. ASSUME NEW s \in Sends, NEW v \in Windows, Mint(s) \/ Submit(s) \/ PostAnswered(s)
      PROVE  WindowShows(v)'
  <2> PICK w \in Windows : w = Sender[s]
    BY WindowsAssumption
  <2>1. CASE v # w
    BY <1>3, <1>5, <2>1
  <2>2. CASE Mint(s)
    BY <1>1, <2>1, <2>2, MintShows
  <2>3. CASE Submit(s)
    BY <1>1, <2>1, <2>3, SubmitShows
  <2>4. CASE PostAnswered(s) /\ (sendPc[s] = "accepted" \/ view[w] = "away")
    BY <1>1, <2>1, <2>4, AcceptedShows
  <2>5. CASE PostAnswered(s) /\ sendPc[s] # "accepted" /\ view[w] # "away"
    BY <1>1, <2>1, <2>5, RefusalShows
  <2> QED
    BY <1>5, <2>2, <2>3, <2>4, <2>5
<1>6. ASSUME UNCHANGED winVars, NEW v \in Windows
      PROVE  WindowShows(v)'
  <2>1. UNCHANGED << view, thread, busy, position, post, intact >>
    BY <1>6 DEF winVars
  <2>2. \A s \in Sends : ~(post[s] = "sent" /\ post'[s] = "answered")
    BY <2>1
  <2> QED
    BY <1>1, <2>1, <2>2, RestShows
<1> QED
  BY <1>1, <1>2, <1>4, <1>5, <1>6, StepsOf

(* Where the turns are over, no turn is on the stream without its end.     *)
LEMMA QuietStream ==
  ASSUME TellingInv, TurnsOver
  PROVE  /\ \A s \in Sends : ~Streaming(s) /\ Unspoken(s) = << >> /\ sendPc[s] # "announce"
         /\ View!Replay(messages, {}) = Told(log, Len(log))
<1>0. TypeOK /\ SerialInv /\ SpeechInv /\ StreamInv
  BY DEF TellingInv, ChatInv
<1>1. \A s \in Sends : ~InFlight(s)
  BY DEF TurnsOver
<1>2. \A s \in Sends : ~Streaming(s)
  BY <1>0, <1>1, StreamingInFlight DEF Streaming, InFlight, Sending, Running, Generating
<1>3. \A s \in Sends : Unspoken(s) = << >> /\ sendPc[s] # "announce"
  BY <1>1 DEF Unspoken, InFlight, Sending, Running, Generating
<1> QED
  BY <1>0, <1>2, <1>3 DEF SpeechInv, RowsTold

LEMMA SettledMatches ==
  ASSUME WatchingInv, NEW w \in Windows, Settled(w), intact[w]
  PROVE  Matches(w)
<1>0. /\ TypeOK /\ SpeechInv /\ StreamInv /\ TurnsInv /\ PostsInv /\ TellingInv /\ gone = 0 /\ TurnsOver
      /\ post \in [Sends -> Posts] /\ EntriesAfter(position[w]) = {}
  BY DEF WatchingInv, WatchInv, WatchTypeOK, Posts, TellingInv, ChatInv, ReplayInv, Settled
<1> PICK bubbles \in Bubbles : bubbles = thread[w]
  BY ShowsNow
<1> PICK read \in Nat : read = position[w]
  BY ShowsNow
<1>1. read = Len(log)
  <2>1. Len(log) \in Nat /\ DOMAIN log = 1 .. Len(log) /\ read <= Len(log)
    BY <1>0, LogTyped, ShowsNow
  <2>2. \A i \in DOMAIN log : ~(i > 0 /\ i > read)
    BY <1>0 DEF EntriesAfter
  <2> QED
    BY <2>1, <2>2, SMTT(30)
<1>2. /\ Expects(bubbles, log, read, busy[w], Denied) /\ Accounts(bubbles, log, read, Known(w), Refused)
      /\ Mirrors(bubbles, log, read, Saved)
  BY ShowsNow DEF Tells
<1>3. ~Ahead(bubbles, log, read)
  <2> SUFFICES ASSUME read > 0, Unended(log[read])
               PROVE  FALSE
    BY DEF Ahead
  <2>1. log[read].turn \in Sends
    <3>1. DOMAIN log = 1 .. Len(log)
      BY <1>0, LogTyped
    <3>2. read \in DOMAIN log
      BY <1>1, <3>1
    <3> QED
      BY <1>0, <3>2, LogTyped
  <2>2. Streaming(log[read].turn)
    BY <1>0, <1>1, <2>1 DEF StreamInv
  <2> QED
    BY <1>0, <2>1, <2>2, QuietStream
<1>4. Awaited(bubbles, log, read, Saved) = {}
  <2>1. ASSUME NEW s \in Saved
        PROVE  Had(log, read, "UserMessage", s)
    <3>1. s \in Sends
      BY DEF Saved
    <3>2. Published("UserMessage", s)
      BY <1>0, <3>1, QuietStream DEF SpeechInv
    <3> QED
      BY <1>0, <1>1, <3>1, <3>2, SavedRows
  <2> QED
    BY <2>1 DEF Awaited
<1>5. Transcript(w) = View!Replay(messages, {})
  <2>1. Kept(bubbles, Saved) = Told(log, read)
    BY <1>2, <1>3, <1>4 DEF Mirrors
  <2> QED
    BY <1>0, <1>1, <2>1, QuietStream DEF Transcript
<1>6. ~View!IsStreaming(bubbles)
  <2> SUFFICES ASSUME View!IsStreaming(bubbles)
               PROVE  FALSE
    OBVIOUS
  <2>1. PICK s \in Sends : View!AwaitsReply(bubbles, s)
    BY <1>2 DEF Expects
  <2>2. /\ ~Had(log, Len(log), "MessageDone", s) /\ ~Had(log, Len(log), "Error", s) /\ s \notin Denied
    BY <1>1, <1>2, <2>1 DEF Expects
  <2>3. s \in Known(w)
    <3>1. PICK k \in DOMAIN bubbles : bubbles[k] = View!UserBubble(s)
      BY <2>1, AwaitedIsInFront, BubblesTyped
    <3> QED
      BY <1>2, <3>1 DEF Accounts
  <2>4. post[s] = "answered" /\ sendPc[s] \in SendAnswers
    <3>1. post[s] \in Posts /\ post[s] # "unsent" /\ post[s] # "sent"
      BY <1>0, <2>3 DEF Known, TurnsOver
    <3> QED
      BY <1>0, <3>1 DEF Posts, PostsInv
  <2>5. sendPc[s] = "accepted"
    BY <2>2, <2>4 DEF Denied, Refused
  <2>6. Ended(s)
    BY <1>0, <2>5, QuietStream DEF TurnsInv
  <2>7. PICK i \in DOMAIN log : ~Unended(log[i]) /\ log[i].turn = s
    BY <2>6 DEF Ended
  <2>8. log[i] \in Entry /\ i \in 1 .. Len(log)
    BY <1>0, LogTyped
  <2>9. log[i].type \in {"MessageDone", "Error"}
    BY <1>0, <2>7, <2>8, EntryFields DEF StreamInv, InOrder, Unended
  <2>10. log[i] = [type |-> log[i].type, turn |-> s]
    BY <2>7, <2>8, EntryFields
  <2> QED
    BY <2>2, <2>8, <2>9, <2>10 DEF Had
<1>7. ~busy[w]
  BY <1>2, <1>6 DEF Expects
<1> QED
  BY <1>5, <1>6, <1>7 DEF Matches

(* Where turns fail only in the model and its tools and no two messages    *)
(* read the same, a window without a gap tells what it has read: it shows  *)
(* for good the messages and replies that the stream has said so far, and  *)
(* the saved message that it waits with, each message once, unless its     *)
(* history has the end of a turn that it still reads; and it shows a reply *)
(* that is under way only while its turn is (onLiveEvent, mergeHistory,    *)
(* markLastAssistantErrored).                                              *)
THEOREM ThreadsTellTheStream ==
  Faults \subseteq QuietFaults /\ DistinctTexts => (WatchSpec => []MatchInv)
<1> SUFFICES ASSUME Faults \subseteq QuietFaults, DistinctTexts
             PROVE  WatchSpec => []MatchInv
  OBVIOUS
<1>1. WatchInit => PostsInv /\ \A w \in Windows : WindowShows(w)
  BY DEF WatchInit, Init, SendInit, PostsInv, WindowShows
<1>2. WatchSpec => [](TellingInv /\ WatchTypeOK /\ ThreadsInv)
  BY TellingHolds, WatchIsChat, ThreadsFollowTheStream, PTL
<1>3. ASSUME TellingInv, WatchTypeOK, ThreadsInv, TellingInv', [WatchNext]_<< vars, winVars >>,
             PostsInv, \A w \in Windows : WindowShows(w)
      PROVE  PostsInv' /\ \A w \in Windows : WindowShows(w)'
  <2>1. WatchingInv
    BY <1>3 DEF WatchingInv, WatchInv
  <2> QED
    BY <1>3, <2>1, WatchingStep
<1> DEFINE Showing == PostsInv /\ \A w \in Windows : WindowShows(w)
<1>4. WatchInit => Showing
  BY <1>1
<1>5. TellingInv /\ WatchTypeOK /\ ThreadsInv /\ TellingInv' /\ [WatchNext]_<< vars, winVars >> /\ Showing => Showing'
  BY <1>3
<1>6. TellingInv /\ Showing => MatchInv
  BY DEF MatchInv, TellingInv, WindowShows
<1> HIDE DEF Showing
<1> QED
  BY <1>2, <1>4, <1>5, <1>6, PTL DEF WatchSpec

(* There, a window whose connection met its history shows, once the turns  *)
(* are over, exactly what a reload would, and can send again, whatever its *)
(* users did: however many windows send, hasten, regenerate, are refused,  *)
(* drop, leave in the middle of a reply and return.                        *)
THEOREM ConnectedThreadsShowTheRows ==
  Faults \subseteq QuietFaults /\ DistinctTexts => (WatchSpec => []ConnectedThreadsMatchTheRows)
<1> SUFFICES ASSUME Faults \subseteq QuietFaults, DistinctTexts
             PROVE  WatchSpec => []ConnectedThreadsMatchTheRows
  OBVIOUS
<1>1. TellingInv /\ WatchTypeOK /\ ThreadsInv /\ MatchInv => ConnectedThreadsMatchTheRows
  <2> SUFFICES ASSUME TellingInv, WatchTypeOK, ThreadsInv, MatchInv, NEW w \in Windows, Settled(w), intact[w]
               PROVE  Matches(w)
    BY DEF ConnectedThreadsMatchTheRows
  <2>1. WatchingInv
    BY DEF WatchingInv, WatchInv, MatchInv, WindowShows
  <2> QED
    BY <2>1, SettledMatches
<1> QED
  BY <1>1, TellingHolds, WatchIsChat, ThreadsFollowTheStream, ThreadsTellTheStream, PTL
=============================================================================
