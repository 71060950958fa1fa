------------------------------- MODULE ToolLoop -------------------------------
(***************************************************************************)
(* One attempt of a reply: ToolCallExecutor.run inside                     *)
(* ChatService.send_message inside generate_chat_reply_task, from the      *)
(* first completion request to the terminal event, with the turn stream it *)
(* fills and the bubble a window builds from that stream.                  *)
(*                                                                         *)
(* A content delta is a token <<iteration, position>>, a text a sequence   *)
(* of tokens.  Reasoning deltas change nothing else and are left out.      *)
(***************************************************************************)
EXTENDS Integers, Sequences, SequencesExt, FiniteSets

CONSTANTS
  WidgetTools,     (* Tools of the registry that declare a widget_type.    *)
  PlainTools,      (* Tools of the registry that do not.                   *)
  UnknownTools,    (* Names the model makes up.                            *)
  MaxIterations,   (* MAX_ITERATIONS, 5 in the code.                       *)
  MaxDeltas,       (* Bound: content deltas of one completion.             *)
  MaxCalls,        (* Bound: tool calls of one completion.                 *)
  Faults           (* Subset of {"request", "stream", "handler", "save"}.  *)

ASSUME LoopBounds ==
  /\ MaxIterations \in Nat \ {0}
  /\ MaxDeltas \in Nat /\ MaxCalls \in Nat

VARIABLES
  phase,       (* What the job does next.                                  *)
  iteration,   (* Completion requests sent.                                *)
  prompt,      (* What the loop appended to completion_messages.           *)
  fragments,   (* The client's tool_call_fragments, by index.              *)
  answer,      (* The _ChunkAggregator of the current completion.          *)
  todo,        (* Calls of the current completion not dispatched yet.      *)
  segments,    (* content_segments.                                        *)
  stream,      (* Events of this turn on the Redis stream.                 *)
  row          (* The chat_message row of the reply, None if not saved.    *)

loopVars == << phase, iteration, prompt, fragments, answer, todo, segments, stream, row >>

None          == [saved |-> FALSE]
Clarification == << "clarification" >>            (* CLARIFICATION_REQUEST *)
Tools         == WidgetTools \cup PlainTools \cup UnknownTools

Text(content)  == [kind |-> "text", content |-> content]
Widget(call)   == [kind |-> "widget", call |-> call]

(* What parts say, read from the first to the last: the text, the widgets, *)
(* and the tokens and calls as they stand.  Adjacent texts read as one.    *)
Nothing         == [text |-> << >>, widgets |-> << >>, order |-> << >>]
Say(said, part) ==
  IF part.kind = "widget"
  THEN [text    |-> said.text,
        widgets |-> Append(said.widgets, part),
        order   |-> Append(said.order, part.call)]
  ELSE [text    |-> said.text \o part.content,
        widgets |-> said.widgets,
        order   |-> said.order \o part.content]
Said(parts) ==
  LET said[n \in 0 .. Len(parts)] == IF n = 0 THEN Nothing ELSE Say(said[n - 1], parts[n])
  IN  said[Len(parts)]
TextOf(parts)    == Said(parts).text
WidgetsOf(parts) == Said(parts).widgets

Event(type)            == [type |-> type]
ContentDelta(token)    == [type |-> "content_delta", token |-> token]
WidgetReady(call)      == [type |-> "widget_ready", call |-> call]
CapReached(content)    == [type |-> "cap_reached", content |-> content]
MessageDone(parts)     == [type |-> "message_done", parts |-> parts]

Publish(event) == stream' = Append(stream, event)

EmptyAnswer == [content |-> << >>, calls |-> << >>, finish |-> "none", model |-> FALSE]

-----------------------------------------------------------------------------
(* The completion stream, chunk by chunk.                                  *)

(* Another completion is asked for with the prompt as it stands.           *)
RequestCompletion ==
  /\ phase = "requesting" /\ iteration < MaxIterations
  /\ phase' = "streaming" /\ iteration' = iteration + 1
  /\ fragments' = << >> /\ answer' = EmptyAnswer
  /\ UNCHANGED << prompt, todo, segments, stream, row >>

(* status_code >= 400, or httpx gives up before the answer starts.         *)
RequestFails ==
  /\ "request" \in Faults
  /\ phase = "requesting" /\ iteration < MaxIterations
  /\ phase' = "failing"
  /\ UNCHANGED << iteration, prompt, fragments, answer, todo, segments, stream, row >>

(* A chunk with delta_content is forwarded and aggregated.                 *)
StreamContent ==
  /\ phase = "streaming" /\ Len(answer.content) < MaxDeltas
  /\ LET token == << iteration, Len(answer.content) + 1 >>
     IN  /\ answer' = [answer EXCEPT !.content = Append(@, token)]
         /\ Publish(ContentDelta(token))
  /\ UNCHANGED << phase, iteration, prompt, fragments, todo, segments, row >>

(* A chunk with a piece of a tool call: only the client's table changes.   *)
(* The arguments are valid for the tool's args_model or they are not.      *)
StreamFragment ==
  /\ phase = "streaming" /\ Len(fragments) < MaxCalls
  /\ \E tool \in Tools, valid \in BOOLEAN :
       /\ tool \in UnknownTools => valid
       /\ fragments' = Append(fragments, [id    |-> << iteration, Len(fragments) + 1 >>,
                                          tool  |-> tool,
                                          valid |-> valid])
  /\ UNCHANGED << phase, iteration, prompt, answer, todo, segments, stream, row >>

(* The chunk with finish_reason carries every call assembled so far.  What *)
(* the provider sends after it is a fragment the aggregator never sees.    *)
StreamFinish ==
  /\ phase = "streaming" /\ answer.finish = "none"
  /\ \E reason \in {"stop", "tool_calls"}, model \in BOOLEAN :
       answer' = [answer EXCEPT !.finish = reason, !.calls = fragments, !.model = model]
  /\ UNCHANGED << phase, iteration, prompt, fragments, todo, segments, stream, row >>

(* The connection breaks: httpx's error is not an OpenRouterRequestFailed, *)
(* and the task's own handler ends the turn just the same.                 *)
StreamBreaks ==
  /\ "stream" \in Faults
  /\ phase = "streaming"
  /\ phase' = "failing"
  /\ UNCHANGED << iteration, prompt, fragments, answer, todo, segments, stream, row >>

-----------------------------------------------------------------------------
(* The loop.                                                               *)

Complete       == answer.finish # "none" /\ answer.model
WithText       == IF answer.content = << >> THEN segments
                  ELSE Append(segments, Text(answer.content))
CallsForTools  == answer.finish = "tool_calls" /\ answer.calls # << >>

(* finalize() refuses an answer without finish_reason or model.            *)
RefuseAnswer ==
  /\ phase = "streaming" /\ ~Complete
  /\ phase' = "failing"
  /\ UNCHANGED << iteration, prompt, fragments, answer, todo, segments, stream, row >>

(* No tool is asked for: TurnResolvedEvent with this answer.               *)
ResolveTurn ==
  /\ phase = "streaming" /\ Complete /\ ~CallsForTools
  /\ phase' = "saving"
  /\ segments' = WithText
  /\ UNCHANGED << iteration, prompt, fragments, answer, todo, stream, row >>

(* The assistant's tool-call message goes in front of the results.         *)
BeginDispatch ==
  /\ phase = "streaming" /\ Complete /\ CallsForTools
  /\ phase' = "dispatching"
  /\ segments' = WithText
  /\ prompt' = Append(prompt, [role |-> "assistant", calls |-> answer.calls])
  /\ todo' = answer.calls
  /\ UNCHANGED << iteration, fragments, answer, stream, row >>

AnnounceCall ==
  /\ phase = "dispatching" /\ todo # << >>
  /\ phase' = "executing"
  /\ Publish(Event("tool_call"))
  /\ UNCHANGED << iteration, prompt, fragments, answer, todo, segments, row >>

(* The tool message that answers the call at the head of todo.             *)
ToolMessage(call) == [role |-> "tool", call |-> call.id]
AnswerCall ==
  /\ prompt' = Append(prompt, ToolMessage(Head(todo)))
  /\ todo' = Tail(todo)
  /\ phase' = "dispatching"

Executable(call) == call.tool \notin UnknownTools /\ call.valid

(* Faulty variant: a rejected call gets no tool message.                   *)
SkipRejectedCall ==
  /\ phase = "executing" /\ ~Executable(Head(todo))
  /\ todo' = Tail(todo) /\ phase' = "dispatching"
  /\ UNCHANGED << iteration, prompt, fragments, answer, segments, stream, row >>

(* Unknown tool, or arguments args_model refuses: an answer, no widget.    *)
RejectCall ==
  /\ phase = "executing" /\ ~Executable(Head(todo))
  /\ AnswerCall
  /\ UNCHANGED << iteration, fragments, answer, segments, stream, row >>

(* The handler found nothing, or several matches, or has no widget.        *)
ExecutePlainly ==
  /\ phase = "executing" /\ Executable(Head(todo))
  /\ AnswerCall
  /\ UNCHANGED << iteration, fragments, answer, segments, stream, row >>

(* Faulty variant: widgets in front of the text, as a reload shows them.   *)
ExecuteWithWidgetFirst ==
  /\ phase = "executing" /\ Executable(Head(todo)) /\ Head(todo).tool \in WidgetTools
  /\ AnswerCall
  /\ segments' = << Widget(Head(todo).id) >> \o segments
  /\ Publish(WidgetReady(Head(todo).id))
  /\ UNCHANGED << iteration, fragments, answer, row >>

(* The handler found data for the tool's widget.                           *)
ExecuteWithWidget ==
  /\ phase = "executing" /\ Executable(Head(todo)) /\ Head(todo).tool \in WidgetTools
  /\ AnswerCall
  /\ segments' = Append(segments, Widget(Head(todo).id))
  /\ Publish(WidgetReady(Head(todo).id))
  /\ UNCHANGED << iteration, fragments, answer, row >>

(* A repository query raises, or a date the model wrote is no ISO date.    *)
HandlerRaises ==
  /\ "handler" \in Faults
  /\ phase = "executing" /\ Executable(Head(todo))
  /\ phase' = "failing"
  /\ UNCHANGED << iteration, prompt, fragments, answer, todo, segments, stream, row >>

NextIteration ==
  /\ phase = "dispatching" /\ todo = << >>
  /\ phase' = "requesting"
  /\ UNCHANGED << iteration, prompt, fragments, answer, todo, segments, stream, row >>

(* The cap: send_message keeps the text, drops the widgets and announces.  *)
ReachCap ==
  /\ phase = "requesting" /\ iteration = MaxIterations
  /\ phase' = "savingCapped"
  /\ Publish(CapReached(TextOf(segments)))
  /\ UNCHANGED << iteration, prompt, fragments, answer, todo, segments, row >>

-----------------------------------------------------------------------------
(* The end of send_message.                                                *)
Capped        == phase \in {"savingCapped", "endingCapped"}
ReplyContent  == IF Capped THEN TextOf(segments) \o Clarification ELSE answer.content
ReplySegments == IF Capped THEN << Text(ReplyContent) >> ELSE segments
Ending        == IF Capped THEN "endingCapped" ELSE "ending"

(* Faulty variant: every widget of the turn, also of one the cap ended.    *)
SaveEveryWidget ==
  /\ phase \in {"saving", "savingCapped"}
  /\ row' = [saved |-> TRUE, content |-> ReplyContent, widgets |-> WidgetsOf(segments)]
  /\ phase' = Ending
  /\ UNCHANGED << iteration, prompt, fragments, answer, todo, segments, stream >>

SaveReply ==
  /\ phase \in {"saving", "savingCapped"}
  /\ row' = [saved |-> TRUE, content |-> ReplyContent, widgets |-> WidgetsOf(ReplySegments)]
  /\ phase' = Ending
  /\ UNCHANGED << iteration, prompt, fragments, answer, todo, segments, stream >>

(* PersistenceFailedEvent is not fatal.                                    *)
SaveFails ==
  /\ "save" \in Faults
  /\ phase \in {"saving", "savingCapped"}
  /\ phase' = Ending
  /\ Publish(Event("error"))
  /\ UNCHANGED << iteration, prompt, fragments, answer, todo, segments, row >>

(* MessageDoneEvent as the SSE frame shows it: never without a part.       *)
FinishTurn ==
  /\ phase \in {"ending", "endingCapped"}
  /\ phase' = "done"
  /\ Publish(MessageDone(IF ReplySegments = << >> THEN << Text(ReplyContent) >> ELSE ReplySegments))
  /\ UNCHANGED << iteration, prompt, fragments, answer, todo, segments, row >>

(* Faulty variant: the turn fails and nobody is told.                      *)
FailSilently ==
  /\ phase = "failing"
  /\ phase' = "failed"
  /\ UNCHANGED << iteration, prompt, fragments, answer, todo, segments, stream, row >>

(* The task's except blocks: the failure is the turn's last event.         *)
FailTurn ==
  /\ phase = "failing"
  /\ phase' = "failed"
  /\ Publish(Event("error"))
  /\ UNCHANGED << iteration, prompt, fragments, answer, todo, segments, row >>

-----------------------------------------------------------------------------
(* The window.                                                             *)
EmptyBubble == [parts |-> << >>, clarified |-> FALSE, streaming |-> TRUE]

AppendTextDelta(parts, token) ==
  IF parts # << >> /\ Last(parts).kind = "text"
  THEN Append(Front(parts), Text(Append(Last(parts).content, token)))
  ELSE Append(parts, Text(<< token >>))

(* updateLastAssistant: an event after the bubble's end starts another.    *)
ApplyLiveEvent(finished, event) ==
  LET bubble == IF finished.streaming THEN finished ELSE EmptyBubble
  IN  CASE event.type = "content_delta" ->
             [bubble EXCEPT !.parts = AppendTextDelta(@, event.token)]
        [] event.type = "widget_ready" ->
             [bubble EXCEPT !.parts = Append(@, Widget(event.call))]
        [] event.type = "cap_reached" ->
             [bubble EXCEPT !.parts = << Text(event.content) >>, !.clarified = TRUE]
        [] event.type = "message_done" ->
             [bubble EXCEPT !.streaming = FALSE,
                            !.parts = IF bubble.clarified THEN @ ELSE event.parts]
        [] event.type = "error" -> [bubble EXCEPT !.streaming = FALSE]
        [] OTHER -> bubble

Bubble(events) ==
  LET seen[n \in 0 .. Len(events)] ==
        IF n = 0 THEN EmptyBubble ELSE ApplyLiveEvent(seen[n - 1], events[n])
  IN  seen[Len(events)]

(* _to_message_dto: what GET /messages makes of the row.                   *)
ReloadedParts == row.widgets \o << Text(row.content) >>

-----------------------------------------------------------------------------
LoopInit ==
  /\ phase = "requesting" /\ iteration = 0
  /\ prompt = << >> /\ fragments = << >> /\ answer = EmptyAnswer /\ todo = << >>
  /\ segments = << >> /\ stream = << >> /\ row = None

(* What the provider sends; it may also fall silent until httpx times out. *)
Chunk == StreamContent \/ StreamFragment \/ StreamFinish

LoopProgress ==
  \/ RequestCompletion \/ RequestFails \/ StreamBreaks
  \/ RefuseAnswer \/ ResolveTurn \/ BeginDispatch \/ AnnounceCall
  \/ RejectCall \/ ExecutePlainly \/ ExecuteWithWidget \/ HandlerRaises
  \/ NextIteration \/ ReachCap \/ SaveReply \/ SaveFails \/ FinishTurn \/ FailTurn

LoopStep   == Chunk \/ LoopProgress
TurnIsOver == phase \in {"done", "failed"}
LoopNext   == LoopStep \/ (TurnIsOver /\ UNCHANGED loopVars)

LoopSpec     == LoopInit /\ [][LoopNext]_loopVars
(* The worker keeps running the coroutine: the stream ends or its 60 s     *)
(* timeout breaks it, and every await returns or raises.                   *)
FairLoopSpec == LoopSpec /\ WF_loopVars(LoopProgress)
-----------------------------------------------------------------------------
(* The type invariant of the turn (ToolCallExecutor.run, send_message).    *)
CallIds == (1 .. MaxIterations) \X (1 .. MaxCalls)
Tokens  == (1 .. MaxIterations) \X (1 .. MaxDeltas)
Calls   == [id : CallIds, tool : Tools, valid : BOOLEAN]
Parts   == [kind : {"text"}, content : Seq(Tokens)] \cup [kind : {"widget"}, call : CallIds]
LoopTypeOK ==
  /\ phase \in {"requesting", "streaming", "dispatching", "executing", "saving", "savingCapped",
               "ending", "endingCapped", "done", "failing", "failed"}
  /\ iteration \in 0 .. MaxIterations
  /\ fragments \in Seq(Calls) /\ todo \in Seq(Calls)
  /\ answer \in [content : Seq(Tokens), calls : Seq(Calls),
                 finish : {"none", "stop", "tool_calls"}, model : BOOLEAN]
  /\ prompt \in Seq([role : {"assistant"}, calls : Seq(Calls)] \cup [role : {"tool"}, call : CallIds])
  /\ segments \in Seq(Parts)

(* Whenever a completion is asked for, every tool call of the prompt has   *)
(* its tool message, right behind the assistant message that made it and   *)
(* in the calls' order, and no tool message stands anywhere else: the API  *)
(* refuses any other prompt, and with it the rest of the turn.             *)
Asks(i)         == prompt[i].role = "assistant"
Answers(i, j)   == Asks(j) /\ i - j \in DOMAIN prompt[j].calls
AnsweredUpTo(n) ==
  \A i \in 1 .. n :
    IF Asks(i)
    THEN \A k \in DOMAIN prompt[i].calls : i + k <= n /\ prompt[i + k] = ToolMessage(prompt[i].calls[k])
    ELSE \E j \in 1 .. i - 1 : Answers(i, j)
EveryCallIsAnswered == phase = "requesting" => AnsweredUpTo(Len(prompt))

(* message_done replaces the bubble's parts by its own.  Unless the cap    *)
(* tripped nothing on the screen moves, appears or goes with it: texts and *)
(* widgets stand in the order in which they came in (TurnResolvedEvent's   *)
(* docstring, applyLiveEvent).                                             *)
Reading(parts) == Said(parts).order
NothingJumps ==
  \A i \in DOMAIN stream :
    LET before == Bubble(SubSeq(stream, 1, i - 1))
    IN  stream[i].type = "message_done" /\ before.streaming /\ ~before.clarified =>
          Reading(Bubble(SubSeq(stream, 1, i)).parts) = Reading(before.parts)

(* What a reload of the conversation will show was on the screen when the  *)
(* turn ended: the saved widgets are those of the bubble, in order, and a  *)
(* saved text ends the text that was shown, with the clarification behind  *)
(* it when the cap tripped (_reply_content, append_message).               *)
SavedReplyWasShown ==
  phase = "done" /\ row.saved =>
    LET bubble == Bubble(stream)
    IN  /\ row.widgets = WidgetsOf(bubble.parts)
        /\ IsSuffix(row.content, TextOf(bubble.parts) \o
                                   (IF bubble.clarified THEN Clarification ELSE << >>))

(* Inductive form of the two: what is on the screen while the reply is     *)
(* made, saved and announced.  The segments lag behind by the content of   *)
(* the completion that streams.                                            *)
Open(parts, clarified) == [parts |-> parts, clarified |-> clarified, streaming |-> TRUE]
Unseen == IF phase = "streaming" THEN answer.content ELSE << >>
Segmented == {"requesting", "streaming", "dispatching", "executing", "saving"}
ShowsSegments(bubble) ==
  /\ bubble = Open(bubble.parts, FALSE) /\ bubble.parts \in Seq(Parts)
  /\ WidgetsOf(bubble.parts) = WidgetsOf(segments)
  /\ Reading(bubble.parts) = Reading(segments) \o Unseen
  /\ TextOf(bubble.parts) = TextOf(segments) \o Unseen
EndsWithAnswer ==
  /\ segments = << >> => answer.content = << >>
  /\ IsSuffix(answer.content, TextOf(segments))
CappedBubble == Open(<< Text(TextOf(segments)) >>, TRUE)
MakingInv ==
  /\ phase \in Segmented => ShowsSegments(Bubble(stream))
  /\ phase = "savingCapped" => Bubble(stream) = CappedBubble
  /\ phase \notin {"ending", "endingCapped", "done"} => ~row.saved
EndingInv ==
  /\ phase \in {"saving", "ending"} => EndsWithAnswer
  /\ phase \in {"ending", "endingCapped"} /\ ~row.saved => ~Bubble(stream).streaming
  /\ phase = "ending" /\ row.saved =>
       /\ row.content = answer.content /\ row.widgets = WidgetsOf(segments)
       /\ ShowsSegments(Bubble(stream))
  /\ phase = "endingCapped" /\ row.saved =>
       /\ row.content = TextOf(segments) \o Clarification /\ row.widgets = << >>
       /\ Bubble(stream) = CappedBubble
ScreenInv == MakingInv /\ EndingInv /\ NothingJumps /\ SavedReplyWasShown

(* Contradicted: MessageDoneEvent's docstring says that a page reload is   *)
(* built from content_segments.  Reloading shows all the text that the     *)
(* turn showed.                                                            *)
ReloadKeepsTheText ==
  phase = "done" /\ row.saved /\ ~Bubble(stream).clarified =>
    ToSet(TextOf(Bubble(stream).parts)) \subseteq ToSet(TextOf(ReloadedParts))

(* A turn ends, however often the model asks for tools, and when a request, *)
(* the stream of a completion, a handler or the save fails: the bubble does *)
(* not stay a streaming one.                                               *)
TurnEnds == <>[](TurnIsOver /\ ~Bubble(stream).streaming)
=============================================================================
