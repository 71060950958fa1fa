----------------------------- MODULE ThreadView -----------------------------
(***************************************************************************)
(* What a chat window does to its thread of bubbles: mergeHistory,         *)
(* applyLiveEvent and markLastAssistantErrored, as operators.  A bubble    *)
(* says the turns whose text it holds, which the code does not record: it  *)
(* compares user texts.                                                    *)
(***************************************************************************)
EXTENDS Sequences, Naturals

CONSTANTS
  Turns,     (* The requests to send whose messages and replies are shown.  *)
  Text       (* The text of each request's message.                        *)

Bubble == [role : {"user", "assistant"}, says : SUBSET Turns,
           state : {"streaming", "done", "error"}]

UserBubble(s)      == [role |-> "user", says |-> {s}, state |-> "done"]
StreamingAssistant == [role |-> "assistant", says |-> {}, state |-> "streaming"]
ErrorBubble        == [role |-> "assistant", says |-> {}, state |-> "error"]

Last(thread)     == thread[Len(thread)]
SaysTextOf(b, s) == b.role = "user" /\ \E u \in b.says : Text[u] = Text[s]

IsStreaming(thread) ==
  Len(thread) > 0 /\ Last(thread).role = "assistant" /\ Last(thread).state = "streaming"

(* The thread waits for no reply; its end waits for the reply of s.        *)
Answered(thread) == Len(thread) = 0 \/ (Last(thread).role = "assistant" /\ ~IsStreaming(thread))

Shows(thread, s) == \E i \in DOMAIN thread : s \in thread[i].says

AwaitsReply(thread, s) ==
  LET asked == IF IsStreaming(thread) THEN Len(thread) - 1 ELSE Len(thread)
  IN  asked > 0 /\ thread[asked] = UserBubble(s)

(* The thread after the optimistic pair of submit.                         *)
Submitted(thread, s) == thread \o << UserBubble(s), StreamingAssistant >>

(* updateLastAssistant: the streaming bubble at the end, or a new one.  A  *)
(* finished reply replaces its parts, anything else adds to them.          *)
UpdateLastAssistant(thread, state, saying) ==
  LET open == IF IsStreaming(thread) THEN thread ELSE Append(thread, StreamingAssistant)
  IN  [open EXCEPT ![Len(open)].state = state,
                   ![Len(open)].says = IF state = "done" THEN saying ELSE @ \cup saying]

MarkLastAssistantErrored(thread) == UpdateLastAssistant(thread, "error", {})

(* Faulty variant of the next definition: every echo is new.               *)
ShowUserMessageAgain(thread, s) == Submitted(thread, s)

(* The echo of the optimistic bubble is ignored; after the same text from  *)
(* the history only the reply is opened.                                   *)
ShowUserMessage(thread, s) ==
  IF IsStreaming(thread) /\ Len(thread) > 1 /\ SaysTextOf(thread[Len(thread) - 1], s)
  THEN thread
  ELSE IF Len(thread) > 0 /\ SaysTextOf(Last(thread), s)
  THEN Append(thread, StreamingAssistant)
  ELSE Submitted(thread, s)

(* client_message and applyLiveEvent: PersistenceFailed is an error frame. *)
ApplyLiveEvent(thread, entry) ==
  CASE entry.type = "UserMessage" -> ShowUserMessage(thread, entry.turn)
    [] entry.type = "Delta"       -> UpdateLastAssistant(thread, "streaming", {entry.turn})
    [] entry.type = "MessageDone" -> UpdateLastAssistant(thread, "done", {entry.turn})
    [] entry.type \in {"Error", "PersistenceFailed"} -> MarkLastAssistantErrored(thread)

(* Faulty variant of the next definition: only a reply ends a turn.        *)
IsTerminalWhenDone(entry) == entry.type = "MessageDone"

IsTerminal(entry) == entry.type \in {"MessageDone", "Error", "PersistenceFailed"}

(* Faulty variant of the next definition: ORDER BY sequence DESC.          *)
ReplayNewestFirst(rows, failed) ==
  [i \in DOMAIN rows |-> [role |-> rows[Len(rows) + 1 - i].role,
                          says |-> {rows[Len(rows) + 1 - i].turn}, state |-> "done"]]

(* GET messages: the rows, and an error bubble if the last turn failed.    *)
Replay(rows, failed) ==
  LET bubbles == [i \in DOMAIN rows |->
                    [role |-> rows[i].role, says |-> {rows[i].turn}, state |-> "done"]]
  IN  IF Len(rows) > 0 /\ rows[Len(rows)].role = "user" /\ rows[Len(rows)].turn \in failed
      THEN Append(bubbles, ErrorBubble) ELSE bubbles

MergeHistory(thread, replay) ==
  IF \A i \in DOMAIN thread : thread[i].role = "assistant" THEN replay \o thread ELSE thread
=============================================================================
