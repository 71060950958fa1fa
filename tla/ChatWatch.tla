------------------------------ MODULE ChatWatch ------------------------------
(***************************************************************************)
(* Chat windows on one conversation: useChatThread in every window, the    *)
(* SSE connection each holds, and the requests, jobs and keys of ChatTurn  *)
(* behind them.  Windows and backend run interleaved; a window learns of   *)
(* the backend only through GET messages, its connection and the answers   *)
(* to its own POSTs.                                                       *)
(***************************************************************************)
EXTENDS ChatTurn, SequencesExt

CONSTANTS
  Windows,   (* Browser windows.                                           *)
  Text,      (* The text of each request's message.                        *)
  Sender,    (* The window each request is submitted from.                 *)
  Minter,    (* The window that mints the conversation, or None: it exists. *)
  Habits,    (* What the users of this instance do besides sending.        *)
  MaxBubbles (* Bound: a user leaves only a thread this long or shorter,   *)
             (* which every return in the middle of a turn may lengthen.   *)

ASSUME WindowsAssumption ==
  /\ Sender \in [Sends -> Windows] /\ DOMAIN Text = Sends
  /\ Minter \in Windows \cup {None}
  /\ MaxBubbles \in Nat
  /\ Habits \subseteq {"regenerate", "hasty", "drop", "leave"}

VARIABLES
  view,      (* What each window has on screen.                            *)
  thread,    (* Its `messages`, kept by in-flight-turn while it is away.   *)
  busy,      (* Its `isSending`.                                           *)
  position,  (* The last stream id its connection read, see EventSource.   *)
  got,       (* An id was delivered: EventSource will send Last-Event-ID.  *)
  post,      (* Each request's POST as its window sees it.                 *)
  intact     (* Auxiliary: its connections joined its thread without a gap. *)

winVars == << view, thread, busy, position, got, post, intact >>

View == INSTANCE ThreadView WITH Turns <- Sends, Text <- Text

Views == {"blank", "minted", "connecting", "open", "away"}

Show(w, bubbles) == thread' = [thread EXCEPT ![w] = bubbles]
Goes(w, to)      == view' = [view EXCEPT ![w] = to]
SetBusy(w, is)   == busy' = [busy EXCEPT ![w] = is]

(* start_turn has created the conversation's row.                          *)
Exists == Minter = None \/ \E s \in Sends : sendPc[s] # "new"

-----------------------------------------------------------------------------
(* submit: the first message of a new conversation mints its id and opens  *)
(* no connection yet.                                                      *)
Mint(s) ==
  LET w == Sender[s] IN
  /\ post[s] = "unsent" /\ w = Minter /\ view[w] = "blank"
  /\ Goes(w, "minted") /\ SetBusy(w, TRUE)
  /\ Show(w, View!Submitted(thread[w], s))
  /\ post' = [post EXCEPT ![s] = "sent"]
  /\ intact' = [intact EXCEPT ![w] = TRUE]
  /\ UNCHANGED << vars, position, got >>

(* submit in a conversation on screen.  The composer waits for the reply,  *)
(* the Regenerate button of a finished answer does not; a hasty user sends *)
(* while the history is loading, and its answer is then ignored.           *)
Submit(s) ==
  LET w == Sender[s] IN
  /\ post[s] = "unsent"
  /\ \/ view[w] \in {"minted", "connecting", "open"}
     \/ view[w] = "blank" /\ w # Minter /\ Exists /\ "hasty" \in Habits
  /\ \/ ~busy[w]
     \/ /\ "regenerate" \in Habits
        /\ \E i \in DOMAIN thread[w] : thread[w][i].role = "assistant" /\ thread[w][i].state # "streaming"
  /\ SetBusy(w, TRUE)
  /\ Show(w, View!Submitted(thread[w], s))
  /\ post' = [post EXCEPT ![s] = "sent"]
  /\ view' = IF view[w] = "open" THEN view ELSE [view EXCEPT ![w] = "connecting"]
  /\ intact' = [intact EXCEPT ![w] = @ /\ View!Answered(thread[w])]
  /\ UNCHANGED << vars, position, got >>

(* The refusal of s marks no other turn's bubble.                          *)
RefusalIsIts(w, s) ==
  view[w] # "away" /\ (View!AwaitsReply(thread[w], s) \/ View!Answered(thread[w]))

(* The POST's answer.  A minted conversation connects now; a refusal marks *)
(* the last assistant bubble, unless the user has left.                    *)
PostAnswered(s) ==
  LET w == Sender[s] IN
  /\ post[s] = "sent" /\ sendPc[s] \in SendAnswers
  /\ post' = [post EXCEPT ![s] = "answered"]
  /\ IF sendPc[s] = "accepted" \/ view[w] = "away"
     THEN UNCHANGED << thread, busy >>
     ELSE Show(w, View!MarkLastAssistantErrored(thread[w])) /\ SetBusy(w, FALSE)
  /\ view' = IF sendPc[s] = "accepted" /\ view[w] = "minted"
             THEN [view EXCEPT ![w] = "connecting"] ELSE view
  /\ intact' = [intact EXCEPT ![w] = @ /\ (sendPc[s] = "accepted" \/ RefusalIsIts(w, s))]
  /\ UNCHANGED << vars, position, got >>

(* Opening the conversation: GET messages is answered, then the connection *)
(* is asked for.                                                           *)
LoadHistory(w) ==
  /\ view[w] = "blank" /\ Exists /\ w # Minter
  /\ Goes(w, "connecting")
  /\ Show(w, View!MergeHistory(thread[w], View!Replay(messages, failures)))
  /\ position' = [position EXCEPT ![w] = Len(log)]
  /\ intact' = [intact EXCEPT ![w] = TRUE]
  /\ UNCHANGED << vars, busy, got, post >>

(* stream_conversation_events: Last-Event-ID, else resume_turn_cursor.     *)
StartCursor(w) == IF got[w] THEN position[w] ELSE ResumeTurnCursor

(* The connection skips nothing the thread has not seen, and brings again  *)
(* only the turn it still waits for, whose echo applyLiveEvent recognises. *)
Rejoins(w) ==
  /\ StartCursor(w) <= position[w]
  /\ \A i \in EntriesAfter(StartCursor(w)) :
       View!Shows(thread[w], log[i].turn) => View!AwaitsReply(thread[w], log[i].turn)

Connect(w) ==
  /\ view[w] = "connecting"
  /\ Goes(w, "open")
  /\ position' = [position EXCEPT ![w] = StartCursor(w)]
  /\ intact' = [intact EXCEPT ![w] = @ /\ Rejoins(w)]
  /\ UNCHANGED << vars, thread, busy, got, post >>

(* No other turn's message comes between a message and its echo.           *)
EchoIsExpected(w, entry) ==
  entry.type = "UserMessage" => View!Answered(thread[w]) \/ View!AwaitsReply(thread[w], entry.turn)

(* One frame of _conversation_events reaches onLiveEvent.                  *)
Deliver(w) ==
  /\ view[w] = "open" /\ EntriesAfter(position[w]) # {}
  /\ LET i == CHOOSE i \in EntriesAfter(position[w]) : \A j \in EntriesAfter(position[w]) : i <= j
     IN  /\ position' = [position EXCEPT ![w] = i]
         /\ Show(w, View!ApplyLiveEvent(thread[w], log[i]))
         /\ busy' = [busy EXCEPT ![w] = IF View!IsTerminal(log[i]) THEN FALSE
                                        ELSE @ \/ log[i].type = "UserMessage"]
         /\ intact' = [intact EXCEPT ![w] = @ /\ EchoIsExpected(w, log[i])]
  /\ got' = [got EXCEPT ![w] = TRUE]
  /\ UNCHANGED << vars, view, post >>

(* The connection drops; EventSource connects again by itself.             *)
Drop(w) ==
  /\ "drop" \in Habits /\ view[w] = "open"
  /\ Goes(w, "connecting")
  /\ UNCHANGED << vars, thread, busy, position, got, post, intact >>

(* The user opens another conversation and comes back: the remembered      *)
(* thread is shown as it was, with a new connection and no history load.   *)
Leave(w) ==
  /\ "leave" \in Habits /\ view[w] \in {"minted", "connecting", "open"}
  /\ Len(thread[w]) \in 1 .. MaxBubbles
  /\ Goes(w, "away") /\ SetBusy(w, FALSE)
  /\ UNCHANGED << vars, thread, position, got, post, intact >>

Return(w) ==
  /\ view[w] = "away"
  /\ Goes(w, "connecting")
  /\ got' = [got EXCEPT ![w] = FALSE]
  /\ UNCHANGED << vars, thread, busy, position, post, intact >>

-----------------------------------------------------------------------------
WatchInit ==
  /\ Init
  /\ view = [w \in Windows |-> "blank"]
  /\ thread = [w \in Windows |-> << >>]
  /\ busy = [w \in Windows |-> FALSE]
  /\ position = [w \in Windows |-> 0]
  /\ got = [w \in Windows |-> FALSE]
  /\ post = [s \in Sends |-> "unsent"]
  /\ intact = [w \in Windows |-> FALSE]

Backend(s) == post[s] # "unsent" /\ (SendAction(s) \/ JobAction(s)) /\ UNCHANGED winVars
Expiry     == (FlagExpires \/ StreamExpires \/ CacheExpires) /\ UNCHANGED winVars
Window(w)  == LoadHistory(w) \/ Connect(w) \/ Deliver(w) \/ Drop(w) \/ Leave(w) \/ Return(w)

(* Every turn is over and every window has all there is.                   *)
TurnsOver  == \A s \in Sends : ~InFlight(s) /\ post[s] # "sent"
Settled(w) == TurnsOver /\ view[w] = "open" /\ EntriesAfter(position[w]) = {}

Finished == TurnsOver /\ UNCHANGED << vars, winVars >>

WatchNext ==
  \/ \E s \in Sends : Mint(s) \/ Submit(s) \/ PostAnswered(s) \/ Backend(s)
  \/ \E w \in Windows : Window(w)
  \/ Expiry
  \/ Finished

(* The backend's fairness, and the browser's: answers and frames arrive,   *)
(* connections are made, and one that is up again and again does deliver.  *)
(* Nobody has to open a window or send.                                    *)
WatchFairness ==
  /\ \A s \in Sends :
       /\ WF_<< vars, winVars >>(post[s] # "unsent" /\ SendProgress(s)
                                 /\ UNCHANGED << cancelled, tries, deltas, prompt, winVars >>)
       /\ WF_<< vars, winVars >>(JobProgress(s) /\ UNCHANGED winVars)
       /\ WF_<< vars, winVars >>(PostAnswered(s))
  /\ \A w \in Windows : WF_<< vars, winVars >>(Connect(w)) /\ SF_<< vars, winVars >>(Deliver(w))

WatchSpec     == WatchInit /\ [][WatchNext]_<< vars, winVars >>
FairWatchSpec == WatchSpec /\ WatchFairness

-----------------------------------------------------------------------------
(* The shape of every window.                                              *)
WatchTypeOK ==
  /\ view \in [Windows -> Views]
  /\ thread \in [Windows -> Seq(View!Bubble)]
  /\ busy \in [Windows -> BOOLEAN] /\ got \in [Windows -> BOOLEAN] /\ intact \in [Windows -> BOOLEAN]
  /\ position \in [Windows -> Nat]
  /\ post \in [Sends -> {"unsent", "sent", "answered"}]

(* A reply is shown under its own message, and no bubble mixes two turns,  *)
(* although applyLiveEvent only looks at the last bubble.                  *)
ReplyUnderItsMessage ==
  \A w \in Windows : \A i \in DOMAIN thread[w] :
    intact[w] /\ thread[w][i].role = "assistant" /\ thread[w][i].says # {} =>
      i > 1 /\ thread[w][i - 1].role = "user" /\ thread[w][i - 1].says = thread[w][i].says

(* What a window shows for good, without the messages the server refused.  *)
Saved == {s \in Sends : HasRow("user", s)}

Stays(bubble, saved) ==
  IF bubble.role = "user" THEN bubble.says \cap saved # {} ELSE bubble.state = "done"

Lasting(bubble, saved) == IF Stays(bubble, saved) THEN << bubble >> ELSE << >>

Kept(bubbles, saved) == FlattenSeq([i \in DOMAIN bubbles |-> Lasting(bubbles[i], saved)])

Transcript(w) == Kept(thread[w], Saved)

Matches(w) ==
  /\ Transcript(w) = View!Replay(messages, {})
  /\ ~View!IsStreaming(thread[w]) /\ ~busy[w]

(* A window whose connection met its history shows, once the turns are     *)
(* over, exactly what a reload would, and can send again.                  *)
ConnectedThreadsMatchTheRows == \A w \in Windows : Settled(w) /\ intact[w] => Matches(w)

(* The same for every window: a finished turn's stream stays reattachable  *)
(* for 900 s, which no run of this property lets pass.                     *)
EveryThreadMatchesTheRows == \A w \in Windows : Settled(w) => Matches(w)

(* A conversation opened from its rows replays no turn it already shows    *)
(* (resume_turn_cursor).                                                   *)
NothingShownTwice ==
  \A w \in Windows : \A i, j \in DOMAIN thread[w] :
    thread[w][i].says # {} /\ thread[w][i] = thread[w][j] => i = j

(* PersistenceFailed is not fatal: the turn ends in one reply bubble.      *)
OneBubblePerTurn ==
  \A w \in Windows : Settled(w) =>
    \A i \in DOMAIN thread[w] :
      thread[w][i].role = "assistant" => i > 1 /\ thread[w][i - 1].role = "user"

(* The composer of a window without a gap is enabled again.                *)
ComposerComesBack == \A w \in Windows : busy[w] ~> ~busy[w] \/ ~intact[w]

-----------------------------------------------------------------------------
(* Inductive form of ReplyUnderItsMessage, where every turn says on the     *)
(* stream how it ended and no two messages have the same text.             *)

QuietFaults == {"llm", "tool", "cacheTtl"}

DistinctTexts == \A s, t \in Sends : Text[s] = Text[t] => s = t

(* An entry that leaves its turn open, and a turn that has its message on  *)
(* the stream and no end yet.                                              *)
Unended(entry) == entry.type \in {"UserMessage", "Delta"}
Streaming(s)   == sendPc[s] = "enqueue" \/ job[s] \in {"queued", "unavailable", "failing"} \cup Generating

(* The stream is one turn after the other: each from its user message to   *)
(* its end, behind the cursor its request read.                            *)
InOrder(i) ==
  /\ log[i].type # "PersistenceFailed"
  /\ IF log[i].type = "UserMessage" THEN i = 1 \/ ~Unended(log[i - 1])
     ELSE i > 1 /\ Unended(log[i - 1]) /\ log[i - 1].turn = log[i].turn
  /\ sendPc[log[i].turn] \in {"enqueue", "accepted"} /\ i > cursor[log[i].turn]

StreamInv ==
  /\ \A i \in DOMAIN log : InOrder(i)
  /\ \A s \in Sends :
       Streaming(s) <=> Len(log) > 0 /\ Unended(log[Len(log)]) /\ log[Len(log)].turn = s

(* A thread whose replies are under their messages.                        *)
Tidy(bubbles) ==
  \A i \in DOMAIN bubbles :
    IF bubbles[i].role = "user" THEN \E s \in Sends : bubbles[i] = View!UserBubble(s)
    ELSE bubbles[i].says # {} =>
           i > 1 /\ bubbles[i - 1].role = "user" /\ bubbles[i - 1].says = bubbles[i].says

(* A thread has what its window has read of the stream, and a connection   *)
(* in the middle of a turn finds that turn's message at the thread's end.  *)
Follows(bubbles, entries, read, connected) ==
  /\ read <= Len(entries)
  /\ \A i \in 1 .. read : \E k \in DOMAIN bubbles : bubbles[k] = View!UserBubble(entries[i].turn)
  /\ connected /\ read > 0 /\ Unended(entries[read]) => View!AwaitsReply(bubbles, entries[read].turn)

WindowInv(w) ==
  /\ view[w] = "blank" => thread[w] = << >> /\ position[w] = 0 /\ ~got[w] /\ ~intact[w]
  /\ intact[w] => /\ Tidy(thread[w])
                  /\ Follows(thread[w], log, position[w], view[w] = "open" \/ got[w])

ThreadsInv ==
  /\ \A s \in Sends : post[s] # "unsent" => view[Sender[s]] # "blank"
  /\ \A w \in Windows : WindowInv(w)

-----------------------------------------------------------------------------
(* Inductive form of ConnectedThreadsMatchTheRows under the same faults.    *)

ReplyBubble(s) == [role |-> "assistant", says |-> {s}, state |-> "done"]

(* What an entry of the stream says for good, and what the first n do.     *)
Spoken(entry) ==
  CASE entry.type = "UserMessage" -> << View!UserBubble(entry.turn) >>
    [] entry.type = "MessageDone" -> << ReplyBubble(entry.turn) >>
    [] OTHER                      -> << >>

Told(entries, n) == FlattenSeq([i \in 1 .. n |-> Spoken(entries[i])])

(* A turn is on the stream once: from its message, up to one end.          *)
EachOnce(entries) ==
  \A i \in DOMAIN entries :
    /\ IF entries[i].type = "UserMessage" THEN \A j \in 1 .. i - 1 : entries[j].turn # entries[i].turn
       ELSE \E j \in 1 .. i - 1 : entries[j] = [type |-> "UserMessage", turn |-> entries[i].turn]
    /\ ~Unended(entries[i]) => \A j \in i + 1 .. Len(entries) : entries[j].turn # entries[i].turn

Ended(s) == \E i \in DOMAIN log : ~Unended(log[i]) /\ log[i].turn = s

TurnsInv ==
  /\ EachOnce(log)
  /\ \A s \in Sends : sendPc[s] \in {"enqueue", "accepted"} => Streaming(s) \/ Ended(s)

(* The rows are what the stream has said, and at most one row more: that   *)
(* of the message or the reply that is to be said next.                    *)
Unspoken(s) == IF sendPc[s] = "announce" THEN << View!UserBubble(s) >>
               ELSE IF job[s] \in {"caching", "publishing"} THEN << ReplyBubble(s) >> ELSE << >>

RowsTold ==
  LET rows == View!Replay(messages, {})
      told == Told(log, Len(log))
  IN  \/ rows = told /\ \A s \in Sends : Unspoken(s) = << >>
      \/ \E s \in Sends : Unspoken(s) # << >> /\ rows = told \o Unspoken(s)

SpeechInv ==
  /\ \A i, j \in DOMAIN messages : messages[i] = messages[j] => i = j
  /\ \A s \in Saved : sendPc[s] = "announce" \/ Published("UserMessage", s)
  /\ \A s \in failures : sendPc[s] = "accepted"
  /\ RowsTold

PostsInv ==
  \A s \in Sends : /\ post[s] = "unsent" => sendPc[s] = "new"
                   /\ post[s] = "answered" => sendPc[s] \in SendAnswers

Had(entries, n, type, s) == \E i \in 1 .. n : entries[i] = [type |-> type, turn |-> s]

(* What is sending shows so, and what shows so waits with a message whose  *)
(* turn it has seen no end of, on the stream or by a refusal.              *)
Expects(bubbles, entries, read, sending, denied) ==
  /\ sending => View!IsStreaming(bubbles)
  /\ View!IsStreaming(bubbles) => \E s \in Sends : View!AwaitsReply(bubbles, s)
  /\ \A s \in Sends : View!AwaitsReply(bubbles, s) =>
       /\ ~Had(entries, read, "MessageDone", s)
       /\ View!IsStreaming(bubbles) => ~Had(entries, read, "Error", s) /\ s \notin denied

(* Every message is a known one, is shown once, and was read on the stream *)
(* or refused if it is not the last.                                       *)
Accounts(bubbles, entries, read, known, refused) ==
  \A s \in Sends : \A i \in DOMAIN bubbles : bubbles[i] = View!UserBubble(s) =>
    /\ s \in known
    /\ Had(entries, read, "UserMessage", s) \/ View!AwaitsReply(bubbles, s) \/ s \in refused
    /\ \A j \in DOMAIN bubbles : bubbles[j] = bubbles[i] => j = i

(* A thread that has read on past its end: its history has the reply that  *)
(* the stream has not ended yet, or an error for it.                       *)
Ahead(bubbles, entries, read) ==
  read > 0 /\ Unended(entries[read]) /\ ~View!AwaitsReply(bubbles, entries[read].turn)

(* The message a thread waits with, saved but not read on the stream.      *)
Awaited(bubbles, entries, read, saved) ==
  {s \in saved : View!AwaitsReply(bubbles, s) /\ ~Had(entries, read, "UserMessage", s)}

(* For good, a thread shows what was read and the message it waits with.   *)
Mirrors(bubbles, entries, read, saved) ==
  \/ Ahead(bubbles, entries, read)
  \/ /\ Awaited(bubbles, entries, read, saved) = {}
     /\ Kept(bubbles, saved) = Told(entries, read)
  \/ \E s \in Awaited(bubbles, entries, read, saved) :
       Kept(bubbles, saved) = Append(Told(entries, read), View!UserBubble(s))

Refused  == {s \in Sends : sendPc[s] \in SendAnswers \ {"accepted"}}
Denied   == {s \in Refused : post[s] # "sent"}
Known(w) == {s \in Sends : post[s] # "unsent" /\ (Sender[s] = w \/ s \in Saved)}

ShowsInv(w) ==
  /\ Expects(thread[w], log, position[w], busy[w], Denied)
  /\ Accounts(thread[w], log, position[w], Known(w), Refused)
  /\ Mirrors(thread[w], log, position[w], Saved)

MatchInv ==
  /\ TurnsInv /\ SpeechInv /\ PostsInv
  /\ \A w \in Windows : /\ view[w] = "blank" => ~busy[w]
                        /\ intact[w] => ShowsInv(w)
=============================================================================
