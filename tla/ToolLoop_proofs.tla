---------------------------- MODULE ToolLoop_proofs ----------------------------
(***************************************************************************)
(* What holds of a turn however many rounds, deltas, calls and tools there *)
(* are, and whatever the model and the provider do.                        *)
(***************************************************************************)
EXTENDS ToolLoop, SequenceTheorems, WellFoundedInduction, TLAPS

(* A completion that streams has been counted; a call that is executed is  *)
(* still to do.                                                            *)
ShapeInv ==
  /\ LoopTypeOK
  /\ phase = "streaming" => iteration >= 1
  /\ phase = "executing" => todo # << >>

(* The answers given so far of the round that begins at prompt[b], and the *)
(* calls that are left.                                                    *)
RoundOpen(b) ==
  /\ Asks(b) /\ prompt[b].calls = answer.calls
  /\ AnsweredUpTo(b - 1)
  /\ Len(answer.calls) = Len(prompt) - b + Len(todo)
  /\ \A k \in 1 .. Len(prompt) - b : prompt[b + k] = ToolMessage(answer.calls[k])
  /\ \A k \in 1 .. Len(todo) : todo[k] = answer.calls[Len(prompt) - b + k]

AnswersInv ==
  /\ phase \in {"requesting", "streaming"} => AnsweredUpTo(Len(prompt))
  /\ phase \in {"dispatching", "executing"} => \E b \in 1 .. Len(prompt) : RoundOpen(b)

LoopInv == ShapeInv /\ AnswersInv

Messages == [role : {"assistant"}, calls : Seq(Calls)] \cup [role : {"tool"}, call : CallIds]

-----------------------------------------------------------------------------
LEMMA ShapeInit == LoopInit => ShapeInv
  BY LoopBounds DEF LoopInit, ShapeInv, LoopTypeOK, EmptyAnswer

(* WithText keeps the shape of the segments.                               *)
LEMMA WithTextTyped ==
  ASSUME LoopTypeOK
  PROVE  WithText \in Seq(Parts)
<1>1. answer.content \in Seq(Tokens)
  BY DEF LoopTypeOK
<1>2. Text(answer.content) \in Parts
  BY <1>1 DEF Text, Parts
<1> QED
  BY <1>2, AppendProperties DEF WithText, LoopTypeOK

(* A call is answered, with the shape of what is left.                     *)
LEMMA AnswerTyped ==
  ASSUME LoopTypeOK, AnswerCall, todo # << >>
  PROVE  /\ prompt' \in Seq(Messages)
         /\ todo' \in Seq(Calls)
         /\ phase' = "dispatching"
         /\ Head(todo).id \in CallIds
<1>1. Head(todo) \in Calls /\ Tail(todo) \in Seq(Calls)
  BY HeadTailProperties DEF LoopTypeOK
<1>2. Head(todo).id \in CallIds
  BY <1>1 DEF Calls
<1>3. ToolMessage(Head(todo)) \in [role : {"tool"}, call : CallIds]
  BY <1>2 DEF ToolMessage
<1> QED
  BY <1>1, <1>2, <1>3, AppendProperties DEF AnswerCall, LoopTypeOK, Messages

LEMMA ShapeStep == ShapeInv /\ [LoopNext]_loopVars => ShapeInv'
<1> SUFFICES ASSUME ShapeInv, [LoopNext]_loopVars
             PROVE  ShapeInv'
  OBVIOUS
<1> USE LoopBounds DEF ShapeInv
<1>1. CASE UNCHANGED loopVars
  BY <1>1 DEF loopVars, LoopTypeOK
<1>2. CASE RequestCompletion
  BY <1>2 DEF RequestCompletion, LoopTypeOK, EmptyAnswer
<1>3. CASE StreamContent
  <2>1. << iteration, Len(answer.content) + 1 >> \in Tokens
    BY <1>3 DEF StreamContent, LoopTypeOK, Tokens
  <2> QED
    BY <1>3, <2>1, AppendProperties DEF StreamContent, LoopTypeOK
<1>4. CASE StreamFragment
  <2>1. << iteration, Len(fragments) + 1 >> \in CallIds
    BY <1>4 DEF StreamFragment, LoopTypeOK, CallIds
  <2>2. PICK tool \in Tools, valid \in BOOLEAN :
          fragments' = Append(fragments, [id |-> << iteration, Len(fragments) + 1 >>,
                                          tool |-> tool, valid |-> valid])
    BY <1>4 DEF StreamFragment
  <2>3. fragments' \in Seq(Calls)
    BY <2>1, <2>2, AppendProperties DEF LoopTypeOK, Calls
  <2> QED
    BY <1>4, <2>3 DEF StreamFragment, LoopTypeOK
<1>5. CASE StreamFinish
  BY <1>5 DEF StreamFinish, LoopTypeOK
<1>6. CASE BeginDispatch
  <2>1. [role |-> "assistant", calls |-> answer.calls] \in [role : {"assistant"}, calls : Seq(Calls)]
    BY DEF LoopTypeOK
  <2>2. answer.calls \in Seq(Calls)
    BY DEF LoopTypeOK
  <2> QED
    BY <1>6, <2>1, <2>2, WithTextTyped, AppendProperties DEF BeginDispatch, LoopTypeOK
<1>7. CASE ResolveTurn
  BY <1>7, WithTextTyped DEF ResolveTurn, LoopTypeOK
<1>8. CASE RejectCall \/ ExecutePlainly \/ ExecuteWithWidget
  <2>1. AnswerCall /\ todo # << >>
    BY <1>8 DEF RejectCall, ExecutePlainly, ExecuteWithWidget
  <2>2. segments' \in Seq(Parts)
    <3>1. Widget(Head(todo).id) \in Parts
      BY <2>1, AnswerTyped DEF Widget, Parts
    <3>2. segments \in Seq(Parts)
      BY DEF LoopTypeOK
    <3>3. segments' = segments \/ segments' = Append(segments, Widget(Head(todo).id))
      BY <1>8 DEF RejectCall, ExecutePlainly, ExecuteWithWidget
    <3> QED
      BY <3>1, <3>2, <3>3, AppendProperties
  <2>3. UNCHANGED << iteration, fragments, answer >>
    BY <1>8 DEF RejectCall, ExecutePlainly, ExecuteWithWidget
  <2> QED
    BY <2>1, <2>2, <2>3, AnswerTyped DEF LoopTypeOK, Messages
<1>9. CASE RequestFails \/ StreamBreaks \/ RefuseAnswer \/ AnnounceCall \/ HandlerRaises
            \/ NextIteration \/ ReachCap \/ FailTurn
  BY <1>9 DEF RequestFails, StreamBreaks, RefuseAnswer, AnnounceCall, HandlerRaises,
              NextIteration, ReachCap, FailTurn, LoopTypeOK
<1>10. CASE SaveReply \/ SaveFails \/ FinishTurn
  BY <1>10 DEF SaveReply, SaveFails, FinishTurn, Ending, LoopTypeOK
<1> QED
  BY <1>1, <1>2, <1>3, <1>4, <1>5, <1>6, <1>7, <1>8, <1>9, <1>10
     DEF LoopNext, LoopStep, Chunk, LoopProgress

-----------------------------------------------------------------------------
(* A prompt of which only the end grows keeps what was answered before.    *)
LEMMA AnsweredKept ==
  ASSUME NEW n \in Nat, AnsweredUpTo(n), n <= Len(prompt), prompt \in Seq(Messages),
         NEW message \in Messages, prompt' = Append(prompt, message)
  PROVE  AnsweredUpTo(n)'
<1>1. \A i \in 1 .. n : prompt'[i] = prompt[i]
  BY AppendProperties
<1>2. ASSUME NEW i \in 1 .. n, Asks(i)'
      PROVE  \A k \in DOMAIN prompt'[i].calls :
                i + k <= n /\ prompt'[i + k] = ToolMessage(prompt'[i].calls[k])
  <2>1. Asks(i) /\ prompt'[i].calls = prompt[i].calls
    BY <1>1, <1>2 DEF Asks
  <2>2. \A k \in DOMAIN prompt[i].calls :
          i + k <= n /\ prompt[i + k] = ToolMessage(prompt[i].calls[k])
    BY <2>1 DEF AnsweredUpTo
  <2>3. prompt[i] \in [role : {"assistant"}, calls : Seq(Calls)]
    BY <2>1 DEF Asks, Messages
  <2>4. \A k \in DOMAIN prompt[i].calls : i + k \in 1 .. n
    BY <2>2, <2>3
  <2> QED
    BY <1>1, <2>1, <2>2, <2>4
<1>3. ASSUME NEW i \in 1 .. n, ~Asks(i)'
      PROVE  \E j \in 1 .. i - 1 : Answers(i, j)'
  <2>1. ~Asks(i)
    BY <1>1, <1>3 DEF Asks
  <2>2. PICK j \in 1 .. i - 1 : Answers(i, j)
    BY <2>1 DEF AnsweredUpTo
  <2>3. j \in 1 .. n /\ prompt'[j] = prompt[j]
    BY <1>1
  <2> QED
    BY <2>2, <2>3 DEF Answers, Asks
<1> QED
  BY <1>2, <1>3 DEF AnsweredUpTo

(* The round that BeginDispatch opens.                                     *)
LEMMA RoundBegins ==
  ASSUME ShapeInv, AnswersInv, BeginDispatch
  PROVE  \E b \in 1 .. Len(prompt') : RoundOpen(b)'
<1> DEFINE asking == [role |-> "assistant", calls |-> answer.calls]
<1>1. prompt \in Seq(Messages) /\ answer.calls \in Seq(Calls) /\ asking \in Messages
  BY DEF ShapeInv, LoopTypeOK, Messages
<1>2. prompt' = Append(prompt, asking) /\ todo' = answer.calls /\ answer' = answer
  BY DEF BeginDispatch
<1> HIDE DEF asking
<1>3. PICK n \in Nat : n = Len(prompt)
  BY <1>1
<1>4. Len(prompt') = n + 1 /\ prompt'[n + 1] = asking
  BY <1>1, <1>2, <1>3, AppendProperties
<1>5. AnsweredUpTo(n)
  BY <1>3 DEF AnswersInv, BeginDispatch
<1>6. AnsweredUpTo(n)'
  BY <1>1, <1>2, <1>3, <1>5, AnsweredKept
<1>7. RoundOpen(n + 1)'
  <2>1. Asks(n + 1)' /\ prompt'[n + 1].calls = answer'.calls
    BY <1>2, <1>4 DEF asking, Asks
  <2>2. Len(answer'.calls) = Len(prompt') - (n + 1) + Len(todo')
    BY <1>1, <1>2, <1>4
  <2>3. \A k \in 1 .. Len(todo') : todo'[k] = answer'.calls[Len(prompt') - (n + 1) + k]
    BY <1>1, <1>2, <1>4
  <2>4. \A k \in 1 .. Len(prompt') - (n + 1) : prompt'[n + 1 + k] = ToolMessage(answer'.calls[k])
    BY <1>4
  <2>5. AnsweredUpTo(n + 1 - 1)'
    <3>1. n + 1 - 1 = n
      OBVIOUS
    <3> QED
      BY <1>6, <3>1
  <2> QED
    BY <2>1, <2>2, <2>3, <2>4, <2>5 DEF RoundOpen, ToolMessage
<1> QED
  BY <1>4, <1>7

(* One more answer of the open round.                                      *)
LEMMA RoundGoesOn ==
  ASSUME ShapeInv, AnswerCall, todo # << >>, answer' = answer,
         NEW b \in 1 .. Len(prompt), RoundOpen(b)
  PROVE  b \in 1 .. Len(prompt') /\ RoundOpen(b)'
<1> DEFINE given == Len(prompt) - b
<1>1. /\ prompt \in Seq(Messages) /\ todo \in Seq(Calls) /\ answer.calls \in Seq(Calls)
      /\ Head(todo) = todo[1] /\ Head(todo) \in Calls /\ Len(todo) >= 1
      /\ Len(todo') = Len(todo) - 1 /\ \A k \in 1 .. Len(todo') : todo'[k] = todo[k + 1]
  BY HeadTailProperties, EmptySeq DEF ShapeInv, LoopTypeOK, Messages, AnswerCall
<1>2. ToolMessage(Head(todo)) \in Messages
  BY <1>1 DEF ToolMessage, Messages, Calls
<1>3. /\ Len(prompt') = Len(prompt) + 1
      /\ \A i \in 1 .. Len(prompt) : prompt'[i] = prompt[i]
      /\ prompt'[Len(prompt) + 1] = ToolMessage(todo[1])
  BY <1>1, <1>2, AppendProperties DEF AnswerCall
<1>4. AnsweredUpTo(b - 1)'
  <2>1. b - 1 \in Nat /\ b - 1 <= Len(prompt) /\ AnsweredUpTo(b - 1)
    BY <1>1 DEF RoundOpen
  <2>2. prompt' = Append(prompt, ToolMessage(Head(todo)))
    BY DEF AnswerCall
  <2> QED
    BY <1>1, <1>2, <2>1, <2>2, AnsweredKept
<1>5. todo[1] = answer.calls[given + 1]
  BY <1>1 DEF RoundOpen
<1>6. \A k \in 1 .. Len(prompt') - b : prompt'[b + k] = ToolMessage(answer.calls[k])
  <2> SUFFICES ASSUME NEW k \in 1 .. Len(prompt') - b
               PROVE  prompt'[b + k] = ToolMessage(answer.calls[k])
    OBVIOUS
  <2>1. CASE k = given + 1
    BY <1>1, <1>3, <1>5, <2>1
  <2>2. CASE k \in 1 .. given
    <3>1. prompt[b + k] = ToolMessage(answer.calls[k])
      BY <2>2 DEF RoundOpen
    <3>2. b + k \in 1 .. Len(prompt)
      BY <1>1, <2>2
    <3> QED
      BY <1>3, <3>1, <3>2
  <2>3. k = given + 1 \/ k \in 1 .. given
    BY <1>1, <1>3
  <2> QED
    BY <2>1, <2>2, <2>3
<1>7. \A k \in 1 .. Len(todo') : todo'[k] = answer.calls[Len(prompt') - b + k]
  <2> SUFFICES ASSUME NEW k \in 1 .. Len(todo')
               PROVE  todo'[k] = answer.calls[Len(prompt') - b + k]
    OBVIOUS
  <2>1. k + 1 \in 1 .. Len(todo) /\ todo'[k] = todo[k + 1]
    BY <1>1
  <2>2. todo[k + 1] = answer.calls[given + (k + 1)]
    BY <2>1 DEF RoundOpen
  <2>3. given + (k + 1) = Len(prompt') - b + k
    BY <1>1, <1>3
  <2> QED
    BY <2>1, <2>2, <2>3
<1>8. Asks(b)' /\ prompt'[b].calls = answer.calls
  BY <1>3 DEF RoundOpen, Asks
<1>9. Len(answer.calls) = Len(prompt') - b + Len(todo')
  BY <1>1, <1>3 DEF RoundOpen
<1> QED
  BY <1>1, <1>3, <1>4, <1>6, <1>7, <1>8, <1>9 DEF RoundOpen

(* With nothing left to do, every call of the prompt is answered.          *)
LEMMA RoundEnds ==
  ASSUME ShapeInv, todo = << >>, NEW b \in 1 .. Len(prompt), RoundOpen(b)
  PROVE  AnsweredUpTo(Len(prompt))
<1>1. /\ prompt \in Seq(Messages) /\ answer.calls \in Seq(Calls)
      /\ Len(answer.calls) = Len(prompt) - b
  BY EmptySeq DEF ShapeInv, LoopTypeOK, Messages, RoundOpen
<1> SUFFICES ASSUME NEW i \in 1 .. Len(prompt)
             PROVE  IF Asks(i)
                    THEN \A k \in DOMAIN prompt[i].calls :
                           i + k <= Len(prompt) /\ prompt[i + k] = ToolMessage(prompt[i].calls[k])
                    ELSE \E j \in 1 .. i - 1 : Answers(i, j)
  BY DEF AnsweredUpTo
<1>2. CASE i < b
  <2>1. i \in 1 .. b - 1
    BY <1>1, <1>2
  <2>2. CASE Asks(i)
    <3>1. \A k \in DOMAIN prompt[i].calls :
            i + k <= b - 1 /\ prompt[i + k] = ToolMessage(prompt[i].calls[k])
      BY <2>1, <2>2 DEF RoundOpen, AnsweredUpTo
    <3>2. prompt[i] \in [role : {"assistant"}, calls : Seq(Calls)]
      BY <1>1, <2>2 DEF Asks, Messages
    <3>3. \A k \in DOMAIN prompt[i].calls : k \in Nat
      BY <3>2
    <3> QED
      BY <1>1, <2>2, <3>1, <3>3
  <2>3. CASE ~Asks(i)
    BY <2>1, <2>3 DEF RoundOpen, AnsweredUpTo
  <2> QED
    BY <2>2, <2>3
<1>3. CASE i = b
  <2>1. Asks(i) /\ prompt[i].calls = answer.calls
    BY <1>3 DEF RoundOpen
  <2>2. \A k \in 1 .. Len(answer.calls) : prompt[b + k] = ToolMessage(answer.calls[k])
    BY <1>1 DEF RoundOpen
  <2>3. DOMAIN answer.calls = 1 .. Len(answer.calls)
    BY <1>1
  <2> QED
    BY <1>1, <1>3, <2>1, <2>2, <2>3
<1>4. CASE i > b
  <2>1. i - b \in 1 .. Len(answer.calls) /\ i = b + (i - b)
    BY <1>1, <1>4
  <2>2. Answers(i, b)
    BY <1>1, <2>1 DEF Answers, RoundOpen
  <2>3. prompt[i] = ToolMessage(answer.calls[i - b])
    BY <1>1, <2>1 DEF RoundOpen
  <2>4. ~Asks(i)
    BY <2>3 DEF Asks, ToolMessage
  <2> QED
    BY <1>1, <1>4, <2>2, <2>4
<1> QED
  BY <1>1, <1>2, <1>3, <1>4

LEMMA AnswersInit == LoopInit => AnswersInv
  BY DEF LoopInit, AnswersInv, AnsweredUpTo

LEMMA AnswersStep == LoopInv /\ [LoopNext]_loopVars => AnswersInv'
<1> SUFFICES ASSUME LoopInv, [LoopNext]_loopVars
             PROVE  AnswersInv'
  OBVIOUS
<1> USE DEF LoopInv
<1>1. ASSUME prompt' = prompt
      PROVE  \A n : AnsweredUpTo(n)' <=> AnsweredUpTo(n)
  BY <1>1 DEF AnsweredUpTo, Answers, Asks
<1>2. CASE UNCHANGED loopVars
  <2>1. \A n : AnsweredUpTo(n)' <=> AnsweredUpTo(n)
    BY <1>1, <1>2 DEF loopVars
  <2>2. \A b : RoundOpen(b)' <=> RoundOpen(b)
    BY <1>2, <2>1 DEF RoundOpen, Asks, loopVars
  <2> QED
    BY <1>2, <2>1, <2>2 DEF AnswersInv, loopVars
<1>3. CASE AnnounceCall
  <2>1. \A n : AnsweredUpTo(n)' <=> AnsweredUpTo(n)
    BY <1>1, <1>3 DEF AnnounceCall
  <2>2. \A b : RoundOpen(b)' <=> RoundOpen(b)
    BY <1>3, <2>1 DEF RoundOpen, Asks, AnnounceCall
  <2> QED
    BY <1>3, <2>2 DEF AnswersInv, AnnounceCall
<1>4. CASE RequestCompletion \/ Chunk
  <2>1. prompt' = prompt /\ phase \in {"requesting", "streaming"} /\ phase' = "streaming"
    BY <1>4 DEF RequestCompletion, Chunk, StreamContent, StreamFragment, StreamFinish
  <2> QED
    BY <1>1, <2>1 DEF AnswersInv
<1>5. CASE BeginDispatch
  BY <1>5, RoundBegins DEF AnswersInv, BeginDispatch
<1>6. CASE RejectCall \/ ExecutePlainly \/ ExecuteWithWidget
  <2>1. AnswerCall /\ phase = "executing" /\ answer' = answer
    BY <1>6 DEF RejectCall, ExecutePlainly, ExecuteWithWidget
  <2>2. PICK b \in 1 .. Len(prompt) : RoundOpen(b)
    BY <2>1 DEF AnswersInv
  <2>3. b \in 1 .. Len(prompt') /\ RoundOpen(b)'
    BY <2>1, <2>2, RoundGoesOn DEF ShapeInv
  <2>4. phase' = "dispatching"
    BY <2>1 DEF AnswerCall
  <2> QED
    BY <2>3, <2>4 DEF AnswersInv
<1>7. CASE NextIteration
  <2>1. PICK b \in 1 .. Len(prompt) : RoundOpen(b)
    BY <1>7 DEF AnswersInv, NextIteration
  <2>2. AnsweredUpTo(Len(prompt))
    BY <1>7, <2>1, RoundEnds DEF NextIteration
  <2> QED
    BY <1>1, <1>7, <2>2 DEF AnswersInv, NextIteration
<1>8. CASE RequestFails \/ StreamBreaks \/ RefuseAnswer \/ ResolveTurn \/ HandlerRaises
           \/ ReachCap \/ SaveReply \/ SaveFails \/ FinishTurn \/ FailTurn
  <2>1. phase' \notin {"requesting", "streaming", "dispatching", "executing"}
    BY <1>8 DEF RequestFails, StreamBreaks, RefuseAnswer, ResolveTurn, HandlerRaises, ReachCap,
                SaveReply, SaveFails, FinishTurn, FailTurn, Ending
  <2> QED
    BY <2>1 DEF AnswersInv
<1> QED
  BY <1>2, <1>3, <1>4, <1>5, <1>6, <1>7, <1>8 DEF LoopNext, LoopStep, LoopProgress

-----------------------------------------------------------------------------
(* Recursion over 0 .. N.  A nonempty set of numbers has a least member,   *)
(* so a property of 0 that passes from n - 1 to n holds up to N.           *)
LEMMA LeastNumber ==
  ASSUME NEW T, T \subseteq Nat, T # {}
  PROVE  \E n \in T : \A m \in T : n <= m
<1> DEFINE R == OpToRel(<, Nat)
<1>1. IsWellFoundedOn(R, Nat)
  BY NatLessThanWellFounded
<1>2. PICK n \in T : \A m \in T : << m, n >> \notin R
  <2> HIDE DEF R
  <2> QED
    BY <1>1, WFMin
<1>3. \A m \in T : ~(m < n)
  BY <1>2 DEF OpToRel
<1> HIDE DEF R
<1> QED
  BY <1>3

LEMMA NumberInduction ==
  ASSUME NEW N \in Nat, NEW T, 0 \in T, \A n \in 1 .. N : n - 1 \in T => n \in T
  PROVE  0 .. N \subseteq T
<1> DEFINE Rest == {n \in 0 .. N : n \notin T}
<1>1. CASE Rest # {}
  <2>1. Rest \subseteq Nat
    OBVIOUS
  <2>2. PICK n \in Rest : \A m \in Rest : n <= m
    <3> HIDE DEF Rest
    <3> QED
      BY <1>1, <2>1, LeastNumber
  <2>3. n \in 1 .. N /\ n - 1 \notin Rest
    BY <2>2
  <2> QED
    BY <2>2, <2>3
<1> QED
  BY <1>1

(* Two recursions that start alike and go on alike agree.                  *)
LEMMA SameRecursion ==
  ASSUME NEW N \in Nat, NEW f, NEW g, f[0] = g[0],
         \A n \in 1 .. N : f[n - 1] = g[n - 1] => f[n] = g[n]
  PROVE  \A n \in 0 .. N : f[n] = g[n]
<1> DEFINE T == {n \in 0 .. N : f[n] = g[n]}
<1>1. 0 \in T
  OBVIOUS
<1>2. \A n \in 1 .. N : n - 1 \in T => n \in T
  <2>1. \A n \in 1 .. N : n \in 0 .. N
    OBVIOUS
  <2> QED
    BY <2>1
<1>3. 0 .. N \subseteq T
  <2> HIDE DEF T
  <2> QED
    BY <1>1, <1>2, NumberInduction
<1> QED
  BY <1>3

(* The recursion that defines Said has a solution, whatever the parts are. *)
LEMMA SaidDefined ==
  ASSUME NEW parts, NEW N \in Nat, N = Len(parts)
  PROVE  \E f : /\ Said(parts) = f[N]
                /\ f = [n \in 0 .. N |-> IF n = 0 THEN Nothing ELSE Say(f[n - 1], parts[n])]
<1> DEFINE Is(f, n) == f = [i \in 0 .. n |-> IF i = 0 THEN Nothing ELSE Say(f[i - 1], parts[i])]
           T        == {n \in 0 .. N : \E f : Is(f, n)}
<1>1. 0 \in T
  <2>1. Is([i \in 0 .. 0 |-> Nothing], 0)
    OBVIOUS
  <2> HIDE DEF Is
  <2> QED
    BY <2>1
<1>2. ASSUME NEW n \in 1 .. N, n - 1 \in T
      PROVE  n \in T
  <2>1. PICK f : Is(f, n - 1)
    BY <1>2
  <2> DEFINE g == [i \in 0 .. n |-> IF i = n THEN Say(f[n - 1], parts[n]) ELSE f[i]]
  <2>2. \A i \in 0 .. n : g[i] = IF i = 0 THEN Nothing ELSE Say(g[i - 1], parts[i])
    BY <2>1
  <2>3. Is(g, n)
    BY <2>2
  <2> HIDE DEF Is, g
  <2> QED
    BY <2>3
<1>3. \E f : Is(f, N)
  <2>1. \A n \in 1 .. N : n - 1 \in T => n \in T
    BY <1>2
  <2>2. 0 .. N \subseteq T
    <3> HIDE DEF T
    <3> QED
      BY <1>1, <2>1, NumberInduction
  <2> HIDE DEF Is
  <2> QED
    BY <2>2
<1>4. Said(parts) = (CHOOSE f : Is(f, N))[N]
  BY DEF Said
<1>5. Is(CHOOSE f : Is(f, N), N)
  <2> HIDE DEF Is
  <2> QED
    BY <1>3
<1> HIDE DEF Is
<1>6. \E f : Said(parts) = f[N] /\ Is(f, N)
  BY <1>4, <1>5
<1> QED
  BY <1>6 DEF Is

(* One more part says what it says behind what was said.                   *)
LEMMA SaidAppend ==
  ASSUME NEW S, NEW parts \in Seq(S), NEW one \in S
  PROVE  Said(Append(parts, one)) = Say(Said(parts), one)
<1> DEFINE N    == Len(parts)
           more == Append(parts, one)
<1>1. N \in Nat /\ Len(more) = N + 1 /\ more[N + 1] = one /\ \A n \in 1 .. N : more[n] = parts[n]
  BY AppendProperties, LenProperties
<1>2. PICK f : /\ Said(parts) = f[N]
               /\ f = [n \in 0 .. N |-> IF n = 0 THEN Nothing ELSE Say(f[n - 1], parts[n])]
  BY <1>1, SaidDefined
<1> HIDE DEF more
<1>3. PICK g : /\ Said(more) = g[N + 1]
               /\ g = [n \in 0 .. N + 1 |-> IF n = 0 THEN Nothing ELSE Say(g[n - 1], more[n])]
  <2>1. N + 1 \in Nat /\ N + 1 = Len(more)
    BY <1>1
  <2> QED
    BY <2>1, SaidDefined, Zenon
<1> HIDE DEF N
<1>4. \A n \in 0 .. N : f[n] = g[n]
  <2>1. f[0] = g[0]
    BY <1>1, <1>2, <1>3
  <2>2. ASSUME NEW n \in 1 .. N, f[n - 1] = g[n - 1]
        PROVE  f[n] = g[n]
    <3>1. f[n] = Say(f[n - 1], parts[n])
      BY <1>1, <1>2
    <3>2. g[n] = Say(g[n - 1], more[n])
      BY <1>1, <1>3
    <3> QED
      BY <1>1, <2>2, <3>1, <3>2
  <2>3. \A n \in 1 .. N : f[n - 1] = g[n - 1] => f[n] = g[n]
    BY <2>2
  <2>4. N \in Nat
    BY <1>1
  <2> QED
    BY <2>1, <2>3, <2>4, SameRecursion, ZenonT(60)
<1>5. g[N + 1] = Say(g[N], one)
  BY <1>1, <1>3
<1>6. f[N] = g[N]
  BY <1>1, <1>4
<1> QED
  BY <1>2, <1>3, <1>5, <1>6 DEF more

(* The same of the bubble that a window makes of a stream of events ...    *)
LEMMA BubbleDefined ==
  ASSUME NEW events, NEW N \in Nat, N = Len(events)
  PROVE  \E f : /\ Bubble(events) = f[N]
                /\ f = [n \in 0 .. N |-> IF n = 0 THEN EmptyBubble ELSE ApplyLiveEvent(f[n - 1], events[n])]
<1> DEFINE Is(f, n) == f = [i \in 0 .. n |-> IF i = 0 THEN EmptyBubble ELSE ApplyLiveEvent(f[i - 1], events[i])]
           T        == {n \in 0 .. N : \E f : Is(f, n)}
<1>1. 0 \in T
  <2>1. Is([i \in 0 .. 0 |-> EmptyBubble], 0)
    OBVIOUS
  <2> HIDE DEF Is
  <2> QED
    BY <2>1
<1>2. ASSUME NEW n \in 1 .. N, n - 1 \in T
      PROVE  n \in T
  <2>1. PICK f : Is(f, n - 1)
    BY <1>2
  <2> DEFINE g == [i \in 0 .. n |-> IF i = n THEN ApplyLiveEvent(f[n - 1], events[n]) ELSE f[i]]
  <2>2. \A i \in 0 .. n : g[i] = IF i = 0 THEN EmptyBubble ELSE ApplyLiveEvent(g[i - 1], events[i])
    BY <2>1
  <2>3. Is(g, n)
    BY <2>2
  <2> HIDE DEF Is, g
  <2> QED
    BY <2>3
<1>3. \E f : Is(f, N)
  <2>1. \A n \in 1 .. N : n - 1 \in T => n \in T
    BY <1>2
  <2>2. 0 .. N \subseteq T
    <3> HIDE DEF T
    <3> QED
      BY <1>1, <2>1, NumberInduction
  <2> HIDE DEF Is
  <2> QED
    BY <2>2
<1>4. Bubble(events) = (CHOOSE f : Is(f, N))[N]
  BY DEF Bubble
<1>5. Is(CHOOSE f : Is(f, N), N)
  <2> HIDE DEF Is
  <2> QED
    BY <1>3
<1> HIDE DEF Is
<1>6. \E f : Bubble(events) = f[N] /\ Is(f, N)
  BY <1>4, <1>5
<1> QED
  BY <1>6 DEF Is

(* ... to which one more event is applied last.                            *)
LEMMA BubbleAppend ==
  ASSUME NEW S, NEW events \in Seq(S), NEW one \in S
  PROVE  Bubble(Append(events, one)) = ApplyLiveEvent(Bubble(events), one)
<1> DEFINE N    == Len(events)
           more == Append(events, one)
<1>1. N \in Nat /\ Len(more) = N + 1 /\ more[N + 1] = one /\ \A n \in 1 .. N : more[n] = events[n]
  BY AppendProperties, LenProperties
<1>2. PICK f : /\ Bubble(events) = f[N]
               /\ f = [n \in 0 .. N |-> IF n = 0 THEN EmptyBubble ELSE ApplyLiveEvent(f[n - 1], events[n])]
  BY <1>1, BubbleDefined
<1> HIDE DEF more
<1>3. PICK g : /\ Bubble(more) = g[N + 1]
               /\ g = [n \in 0 .. N + 1 |-> IF n = 0 THEN EmptyBubble ELSE ApplyLiveEvent(g[n - 1], more[n])]
  <2>1. N + 1 \in Nat /\ N + 1 = Len(more)
    BY <1>1
  <2> QED
    BY <2>1, BubbleDefined, Zenon
<1> HIDE DEF N
<1>4. \A n \in 0 .. N : f[n] = g[n]
  <2>1. f[0] = g[0]
    BY <1>1, <1>2, <1>3
  <2>2. ASSUME NEW n \in 1 .. N, f[n - 1] = g[n - 1]
        PROVE  f[n] = g[n]
    <3>1. f[n] = ApplyLiveEvent(f[n - 1], events[n])
      BY <1>1, <1>2
    <3>2. g[n] = ApplyLiveEvent(g[n - 1], more[n])
      BY <1>1, <1>3
    <3> QED
      BY <1>1, <2>2, <3>1, <3>2
  <2>3. \A n \in 1 .. N : f[n - 1] = g[n - 1] => f[n] = g[n]
    BY <2>2
  <2>4. N \in Nat
    BY <1>1
  <2> QED
    BY <2>1, <2>3, <2>4, SameRecursion, ZenonT(60)
<1>5. g[N + 1] = ApplyLiveEvent(g[N], one)
  BY <1>1, <1>3
<1>6. f[N] = g[N]
  BY <1>1, <1>4
<1> QED
  BY <1>2, <1>3, <1>5, <1>6 DEF more

(* What nothing says, and the bubble before any event.                     *)
LEMMA NothingSaid == Said(<< >>) = Nothing
<1>1. ASSUME NEW parts, Len(parts) = 0
      PROVE  Said(parts) = Nothing
  <2>1. 0 \in Nat /\ 0 = Len(parts)
    BY <1>1
  <2>2. PICK f : /\ Said(parts) = f[0]
                 /\ f = [n \in 0 .. 0 |-> IF n = 0 THEN Nothing ELSE Say(f[n - 1], parts[n])]
    BY <2>1, SaidDefined, Zenon
  <2> QED
    BY <2>2
<1> QED
  BY <1>1, EmptySeq

LEMMA NothingSeen == Bubble(<< >>) = EmptyBubble
<1>1. ASSUME NEW events, Len(events) = 0
      PROVE  Bubble(events) = EmptyBubble
  <2>1. 0 \in Nat /\ 0 = Len(events)
    BY <1>1
  <2>2. PICK f : /\ Bubble(events) = f[0]
                 /\ f = [n \in 0 .. 0 |-> IF n = 0 THEN EmptyBubble ELSE ApplyLiveEvent(f[n - 1], events[n])]
    BY <2>1, BubbleDefined, Zenon
  <2> QED
    BY <2>2
<1> QED
  BY <1>1, EmptySeq

(* What parts say is a text, widgets, and tokens and calls in order.       *)
Sayings == [text : Seq(Tokens), widgets : Seq(Parts), order : Seq(Tokens \cup CallIds)]

LEMMA SayTyped ==
  ASSUME NEW said \in Sayings, NEW part \in Parts
  PROVE  Say(said, part) \in Sayings
<1>1. /\ said.text \in Seq(Tokens) /\ said.widgets \in Seq(Parts)
      /\ said.order \in Seq(Tokens \cup CallIds)
  BY DEF Sayings
<1>2. CASE part.kind = "widget"
  <2>1. part.call \in Tokens \cup CallIds
    BY <1>2 DEF Parts
  <2>2. Append(said.widgets, part) \in Seq(Parts) /\ Append(said.order, part.call) \in Seq(Tokens \cup CallIds)
    BY <1>1, <2>1, AppendProperties
  <2> QED
    BY <1>1, <1>2, <2>2 DEF Say, Sayings
<1>3. CASE part.kind # "widget"
  <2>1. part.content \in Seq(Tokens)
    BY <1>3 DEF Parts
  <2>2. part.content \in Seq(Tokens \cup CallIds)
    BY <2>1, SeqMonotonic
  <2>3. said.text \o part.content \in Seq(Tokens) /\ said.order \o part.content \in Seq(Tokens \cup CallIds)
    BY <1>1, <2>1, <2>2, ConcatProperties
  <2> QED
    BY <1>1, <1>3, <2>3 DEF Say, Sayings
<1> QED
  BY <1>2, <1>3

LEMMA SaidTyped ==
  ASSUME NEW parts \in Seq(Parts)
  PROVE  Said(parts) \in Sayings
<1>1. PICK N \in Nat : N = Len(parts)
  BY LenProperties
<1>2. PICK f : /\ Said(parts) = f[N]
               /\ f = [n \in 0 .. N |-> IF n = 0 THEN Nothing ELSE Say(f[n - 1], parts[n])]
  BY <1>1, SaidDefined
<1> DEFINE T == {n \in 0 .. N : f[n] \in Sayings}
<1>3. 0 \in T
  <2>1. Nothing \in Sayings
    BY EmptySeq DEF Nothing, Sayings
  <2>2. f[0] = Nothing
    BY <1>1, <1>2
  <2> QED
    BY <2>1, <2>2
<1>4. ASSUME NEW n \in 1 .. N, n - 1 \in T
      PROVE  n \in T
  <2>1. f[n] = Say(f[n - 1], parts[n])
    BY <1>2
  <2>2. parts[n] \in Parts
    BY <1>1, ElementOfSeq
  <2> QED
    BY <1>4, <2>1, <2>2, SayTyped
<1>5. 0 .. N \subseteq T
  <2>1. \A n \in 1 .. N : n - 1 \in T => n \in T
    BY <1>4
  <2> HIDE DEF T
  <2> QED
    BY <1>3, <2>1, NumberInduction
<1> QED
  BY <1>2, <1>5

-----------------------------------------------------------------------------
(* What saying a text changes.                                             *)
LEMMA SayText ==
  ASSUME NEW said, NEW part, part.kind = "text"
  PROVE  /\ Say(said, part).text = said.text \o part.content
         /\ Say(said, part).widgets = said.widgets
         /\ Say(said, part).order = said.order \o part.content
<1>1. part.kind # "widget"
  OBVIOUS
<1> DEFINE text  == said.text \o part.content
           order == said.order \o part.content
<1>2. Say(said, part) = [text |-> text, widgets |-> said.widgets, order |-> order]
  BY <1>1, Zenon DEF Say
<1> HIDE DEF text, order
<1>3. /\ Say(said, part).text = text
      /\ Say(said, part).widgets = said.widgets
      /\ Say(said, part).order = order
  BY <1>2
<1> QED
  BY <1>3 DEF text, order

(* One more element is a concatenation, and moves through one.             *)
LEMMA AppendMoves ==
  ASSUME NEW S, NEW s \in Seq(S), NEW t \in Seq(S), NEW one \in S
  PROVE  /\ s \o << one >> = Append(s, one)
         /\ s \o Append(t, one) = Append(s \o t, one)
<1>1. << one >> \in Seq(S)
  OBVIOUS
<1>2. s \o << one >> = Append(s, one)
  BY AppendIsConcat
<1>3. t \o << one >> = Append(t, one)
  BY AppendIsConcat
<1>4. s \o t \in Seq(S)
  BY ConcatProperties
<1>5. (s \o t) \o << one >> = Append(s \o t, one)
  BY <1>4, AppendIsConcat, Zenon
<1>6. (s \o t) \o << one >> = s \o (t \o << one >>)
  BY <1>1, ConcatAssociative
<1> QED
  BY <1>2, <1>3, <1>5, <1>6, Zenon

(* A delta that joins the last text, or opens one, adds its token to what  *)
(* the parts say.                                                          *)
LEMMA SaidDelta ==
  ASSUME NEW parts \in Seq(Parts), NEW token \in Tokens
  PROVE  /\ AppendTextDelta(parts, token) \in Seq(Parts)
         /\ TextOf(AppendTextDelta(parts, token)) = Append(TextOf(parts), token)
         /\ WidgetsOf(AppendTextDelta(parts, token)) = WidgetsOf(parts)
         /\ Reading(AppendTextDelta(parts, token)) = Append(Reading(parts), token)
<1> DEFINE more == AppendTextDelta(parts, token)
<1>1. CASE parts # << >> /\ Last(parts).kind = "text"
  <2>1. PICK n \in Nat \ {0} : n = Len(parts)
    BY <1>1, EmptySeq
  <2> DEFINE front == SubSeq(parts, 1, n - 1)
             last  == parts[n]
             text  == Append(last.content, token)
  <2>2. last \in Parts /\ last.kind = "text"
    BY <1>1, <2>1, ElementOfSeq DEF Last
  <2>3. last.content \in Seq(Tokens)
    BY <2>2 DEF Parts
  <2>4. front \in Seq(Parts) /\ Len(front) = n - 1 /\ \A i \in 1 .. n - 1 : front[i] = parts[i]
    BY <2>1, SubSeqProperties, ElementOfSeq
  <2>5. Append(front, last) = parts
    <3>1. /\ Append(front, last) \in Seq(Parts) /\ Len(Append(front, last)) = Len(parts)
          /\ \A i \in 1 .. Len(parts) : Append(front, last)[i] = parts[i]
      BY <2>1, <2>2, <2>4, AppendProperties
    <3> QED
      BY <3>1, SeqEqual
  <2>6. more = Append(front, Text(text))
    BY <1>1, <2>1 DEF AppendTextDelta, Last, Front
  <2>7. text \in Seq(Tokens) /\ Text(text) \in Parts
    BY <2>3, AppendProperties DEF Text, Parts
  <2> HIDE DEF front, last, more
  <2>8. Said(parts) = Say(Said(front), last) /\ Said(more) = Say(Said(front), Text(text))
    BY <2>2, <2>4, <2>5, <2>6, <2>7, SaidAppend
  <2>9. Text(text).kind = "text" /\ Text(text).content = text
    BY DEF Text
  <2>10. /\ Said(parts).text = Said(front).text \o last.content
         /\ Said(parts).widgets = Said(front).widgets
         /\ Said(parts).order = Said(front).order \o last.content
    BY <2>2, <2>8, SayText, ZenonT(60)
  <2>11. /\ Said(more).text = Said(front).text \o text
         /\ Said(more).widgets = Said(front).widgets
         /\ Said(more).order = Said(front).order \o text
    BY <2>8, <2>9, SayText, ZenonT(60)
  <2>12. ASSUME NEW S, Tokens \subseteq S, NEW before \in Seq(S)
         PROVE  before \o text = Append(before \o last.content, token)
    <3>1. last.content \in Seq(S) /\ token \in S
      BY <2>3, <2>12, SeqMonotonic
    <3>2. before \o Append(last.content, token) = Append(before \o last.content, token)
      BY <3>1, AppendMoves
    <3> QED
      BY <3>2 DEF text
  <2>13. Said(front).text \in Seq(Tokens) /\ Said(front).order \in Seq(Tokens \cup CallIds)
    BY <2>4, SaidTyped DEF Sayings
  <2>14. Said(front).text \o text = Append(Said(front).text \o last.content, token)
    BY <2>12, <2>13
  <2>15. Said(front).order \o text = Append(Said(front).order \o last.content, token)
    BY <2>12, <2>13
  <2>16. more \in Seq(Parts)
    BY <2>4, <2>6, <2>7, AppendProperties
  <2> QED
    BY <2>10, <2>11, <2>14, <2>15, <2>16 DEF more, TextOf, WidgetsOf, Reading
<1>2. CASE ~(parts # << >> /\ Last(parts).kind = "text")
  <2>1. more = Append(parts, Text(<< token >>))
    BY <1>2 DEF AppendTextDelta
  <2>2. Text(<< token >>) \in Parts
    BY DEF Text, Parts
  <2>3. Text(<< token >>).kind = "text" /\ Text(<< token >>).content = << token >>
    BY DEF Text
  <2> HIDE DEF more
  <2>4. Said(more) = Say(Said(parts), Text(<< token >>))
    BY <2>1, <2>2, SaidAppend
  <2>5. /\ Said(more).text = Said(parts).text \o << token >>
        /\ Said(more).widgets = Said(parts).widgets
        /\ Said(more).order = Said(parts).order \o << token >>
    BY <2>3, <2>4, SayText, ZenonT(60)
  <2>6. Said(parts).text \in Seq(Tokens) /\ Said(parts).order \in Seq(Tokens \cup CallIds)
    BY SaidTyped DEF Sayings
  <2>7. Append(Said(parts).text, token) = Said(parts).text \o << token >>
    BY <2>6, AppendIsConcat
  <2>8. Append(Said(parts).order, token) = Said(parts).order \o << token >>
    <3>1. token \in Tokens \cup CallIds
      OBVIOUS
    <3> QED
      BY <2>6, <3>1, AppendMoves, Zenon
  <2>9. more \in Seq(Parts)
    BY <2>1, <2>2, AppendProperties
  <2> QED
    BY <2>5, <2>7, <2>8, <2>9 DEF more, TextOf, WidgetsOf, Reading
<1> QED
  BY <1>1, <1>2

(* A widget stands behind what was said, and says no text.                 *)
LEMMA SaidWidget ==
  ASSUME NEW parts \in Seq(Parts), NEW call \in CallIds
  PROVE  /\ Append(parts, Widget(call)) \in Seq(Parts)
         /\ TextOf(Append(parts, Widget(call))) = TextOf(parts)
         /\ WidgetsOf(Append(parts, Widget(call))) = Append(WidgetsOf(parts), Widget(call))
         /\ Reading(Append(parts, Widget(call))) = Append(Reading(parts), call)
<1>1. Widget(call) \in Parts /\ Widget(call).kind = "widget" /\ Widget(call).call = call
  BY DEF Widget, Parts
<1>2. Said(Append(parts, Widget(call))) = Say(Said(parts), Widget(call))
  BY <1>1, SaidAppend
<1> QED
  BY <1>1, <1>2, AppendProperties DEF Say, TextOf, WidgetsOf, Reading

(* A text says itself behind what was said.                                *)
LEMMA SaidText ==
  ASSUME NEW parts \in Seq(Parts), NEW content \in Seq(Tokens)
  PROVE  /\ TextOf(Append(parts, Text(content))) = TextOf(parts) \o content
         /\ WidgetsOf(Append(parts, Text(content))) = WidgetsOf(parts)
         /\ Reading(Append(parts, Text(content))) = Reading(parts) \o content
<1>1. Text(content) \in Parts /\ Text(content).kind = "text" /\ Text(content).content = content
  BY DEF Text, Parts
<1>2. Said(Append(parts, Text(content))) = Say(Said(parts), Text(content))
  BY <1>1, SaidAppend
<1> QED
  BY <1>1, <1>2 DEF Say, TextOf, WidgetsOf, Reading

(* A single text says only itself.                                         *)
LEMMA SaidAlone ==
  ASSUME NEW content \in Seq(Tokens)
  PROVE  /\ TextOf(<< Text(content) >>) = content
         /\ WidgetsOf(<< Text(content) >>) = << >>
         /\ Reading(<< Text(content) >>) = content
<1>1. << >> \in Seq(Parts) /\ << Text(content) >> = Append(<< >>, Text(content))
  BY EmptySeq
<1>2. << >> \o content = content
  BY ConcatEmptySeq
<1>3. TextOf(<< >>) = << >> /\ WidgetsOf(<< >>) = << >> /\ Reading(<< >>) = << >>
  BY NothingSaid DEF Nothing, TextOf, WidgetsOf, Reading
<1>4. /\ TextOf(Append(<< >>, Text(content))) = TextOf(<< >>) \o content
      /\ WidgetsOf(Append(<< >>, Text(content))) = WidgetsOf(<< >>)
      /\ Reading(Append(<< >>, Text(content))) = Reading(<< >>) \o content
  BY <1>1, SaidText, Zenon
<1> QED
  BY <1>1, <1>2, <1>3, <1>4, Zenon

(* The segments catch up with the screen when a completion is over.        *)
LEMMA SaidWithText ==
  ASSUME LoopTypeOK
  PROVE  /\ TextOf(WithText) = TextOf(segments) \o answer.content
         /\ WidgetsOf(WithText) = WidgetsOf(segments)
         /\ Reading(WithText) = Reading(segments) \o answer.content
<1>1. segments \in Seq(Parts) /\ answer.content \in Seq(Tokens)
  BY DEF LoopTypeOK
<1>2. CASE answer.content = << >>
  <2>1. TextOf(segments) \in Seq(Tokens) /\ Reading(segments) \in Seq(Tokens \cup CallIds)
    BY <1>1, SaidTyped DEF Sayings, TextOf, Reading
  <2> QED
    BY <1>2, <2>1, ConcatEmptySeq DEF WithText
<1>3. CASE answer.content # << >>
  BY <1>1, <1>3, SaidText DEF WithText
<1> QED
  BY <1>2, <1>3

(* What a sequence ends with is a suffix of it.                            *)
LEMMA EndIsSuffix ==
  ASSUME NEW S, NEW s \in Seq(S), NEW t \in Seq(S)
  PROVE  IsSuffix(t, s \o t)
<1> DEFINE whole == s \o t
           front == SubSeq(Reverse(whole), 1, Len(t))
           back  == SubSeq(Reverse(t), 1, Len(t))
<1>1. /\ Len(s) \in Nat /\ Len(t) \in Nat /\ Len(whole) = Len(s) + Len(t)
      /\ \A i \in 1 .. Len(t) : whole[Len(s) + i] = t[i]
      /\ \A i \in 1 .. Len(whole) : whole[i] \in S
  BY ConcatProperties, ElementOfSeq
<1> HIDE DEF whole
<1>2. /\ Reverse(t) = [i \in 1 .. Len(t) |-> t[(Len(t) - i) + 1]]
      /\ Reverse(whole) = [i \in 1 .. Len(whole) |-> whole[(Len(whole) - i) + 1]]
  BY DEF Reverse
<1>3. \A i \in 1 .. Len(t) : Reverse(whole)[i] = Reverse(t)[i] /\ Reverse(t)[i] \in S
  <2> SUFFICES ASSUME NEW i \in 1 .. Len(t)
               PROVE  Reverse(whole)[i] = Reverse(t)[i] /\ Reverse(t)[i] \in S
    OBVIOUS
  <2>1. (Len(t) - i) + 1 \in 1 .. Len(t) /\ (Len(whole) - i) + 1 = Len(s) + ((Len(t) - i) + 1)
    BY <1>1
  <2>2. Reverse(t)[i] = t[(Len(t) - i) + 1]
    BY <1>2
  <2>3. i \in 1 .. Len(whole)
    BY <1>1
  <2>4. Reverse(whole)[i] = whole[(Len(whole) - i) + 1]
    BY <1>2, <2>3
  <2>5. whole[Len(s) + ((Len(t) - i) + 1)] = t[(Len(t) - i) + 1]
    BY <1>1, <2>1
  <2>6. t[(Len(t) - i) + 1] \in S
    BY <2>1, ElementOfSeq
  <2> QED
    BY <2>1, <2>2, <2>4, <2>5, <2>6
<1>4. /\ front \in Seq(S) /\ back \in Seq(S) /\ Len(front) = Len(t) /\ Len(back) = Len(t)
      /\ \A i \in 1 .. Len(t) : front[i] = Reverse(whole)[i] /\ back[i] = Reverse(t)[i]
  BY <1>1, <1>3, SubSeqProperties, SMTT(30)
<1>5. front = back
  BY <1>3, <1>4, SeqEqual
<1>6. Len(Reverse(t)) = Len(t) /\ Len(Reverse(whole)) = Len(whole)
  BY <1>1, <1>2
<1> QED
  BY <1>1, <1>5, <1>6 DEF IsSuffix, IsPrefix, whole

-----------------------------------------------------------------------------
(* What an event makes of a bubble that still streams.                     *)
LEMMA OpenDelta ==
  ASSUME NEW parts, NEW clarified \in BOOLEAN, NEW token
  PROVE  ApplyLiveEvent(Open(parts, clarified), ContentDelta(token))
           = Open(AppendTextDelta(parts, token), clarified)
<1>1. Open(parts, clarified).streaming
  BY Zenon DEF Open
<1>2. ContentDelta(token).type = "content_delta" /\ ContentDelta(token).token = token
  BY DEF ContentDelta
<1>3. ApplyLiveEvent(Open(parts, clarified), ContentDelta(token))
        = [Open(parts, clarified) EXCEPT !.parts = AppendTextDelta(@, token)]
  BY <1>1, <1>2, Zenon DEF ApplyLiveEvent
<1> QED
  BY <1>3 DEF Open

LEMMA OpenWidget ==
  ASSUME NEW parts, NEW clarified \in BOOLEAN, NEW call
  PROVE  ApplyLiveEvent(Open(parts, clarified), WidgetReady(call))
           = Open(Append(parts, Widget(call)), clarified)
<1>1. Open(parts, clarified).streaming
  BY Zenon DEF Open
<1>2. WidgetReady(call).type = "widget_ready" /\ WidgetReady(call).call = call
  BY DEF WidgetReady
<1>3. ApplyLiveEvent(Open(parts, clarified), WidgetReady(call))
        = [Open(parts, clarified) EXCEPT !.parts = Append(@, Widget(call))]
  BY <1>1, <1>2, Zenon DEF ApplyLiveEvent
<1> QED
  BY <1>3 DEF Open

LEMMA OpenCap ==
  ASSUME NEW parts, NEW clarified \in BOOLEAN, NEW content
  PROVE  ApplyLiveEvent(Open(parts, clarified), CapReached(content))
           = Open(<< Text(content) >>, TRUE)
<1>1. Open(parts, clarified).streaming
  BY Zenon DEF Open
<1>2. CapReached(content).type = "cap_reached" /\ CapReached(content).content = content
  BY DEF CapReached
<1>3. ApplyLiveEvent(Open(parts, clarified), CapReached(content))
        = [Open(parts, clarified) EXCEPT !.parts = << Text(content) >>, !.clarified = TRUE]
  BY <1>1, <1>2, Zenon DEF ApplyLiveEvent
<1> QED
  BY <1>3 DEF Open

LEMMA OpenDone ==
  ASSUME NEW parts, NEW clarified \in BOOLEAN, NEW final
  PROVE  ApplyLiveEvent(Open(parts, clarified), MessageDone(final))
           = [parts     |-> IF clarified THEN parts ELSE final,
              clarified |-> clarified,
              streaming |-> FALSE]
<1>1. Open(parts, clarified).streaming
  BY Zenon DEF Open
<1>2. MessageDone(final).type = "message_done" /\ MessageDone(final).parts = final
  BY DEF MessageDone
<1>3. ApplyLiveEvent(Open(parts, clarified), MessageDone(final))
        = [Open(parts, clarified) EXCEPT
             !.streaming = FALSE,
             !.parts = IF Open(parts, clarified).clarified THEN @ ELSE final]
  BY <1>1, <1>2, Zenon DEF ApplyLiveEvent
<1>4. CASE clarified
  <2>1. Open(parts, clarified).clarified
    BY <1>4, Zenon DEF Open
  <2> QED
    BY <1>3, <1>4, <2>1 DEF Open
<1>5. CASE ~clarified
  <2>1. ~Open(parts, clarified).clarified
    BY <1>5, Zenon DEF Open
  <2> QED
    BY <1>3, <1>5, <2>1 DEF Open
<1> QED
  BY <1>4, <1>5

LEMMA ClosedFields ==
  ASSUME NEW parts
  PROVE  /\ [parts |-> parts, clarified |-> FALSE, streaming |-> FALSE].parts = parts
         /\ ~[parts |-> parts, clarified |-> FALSE, streaming |-> FALSE].clarified
         /\ [parts |-> parts, clarified |-> TRUE, streaming |-> FALSE].parts = parts
         /\ [parts |-> parts, clarified |-> TRUE, streaming |-> FALSE].clarified
<1>1. /\ [parts |-> parts, clarified |-> FALSE, streaming |-> FALSE].parts = parts
      /\ [parts |-> parts, clarified |-> TRUE, streaming |-> FALSE].parts = parts
  OBVIOUS
<1>2. ~[parts |-> parts, clarified |-> FALSE, streaming |-> FALSE].clarified
  BY Zenon
<1>3. [parts |-> parts, clarified |-> TRUE, streaming |-> FALSE].clarified
  BY Zenon
<1> QED
  BY <1>1, <1>2, <1>3, Zenon

LEMMA OpenError ==
  ASSUME NEW parts, NEW clarified \in BOOLEAN
  PROVE  ~ApplyLiveEvent(Open(parts, clarified), Event("error")).streaming
<1>1. Open(parts, clarified).streaming
  BY Zenon DEF Open
<1>2. Event("error").type = "error"
  BY DEF Event
<1>3. ApplyLiveEvent(Open(parts, clarified), Event("error"))
        = [Open(parts, clarified) EXCEPT !.streaming = FALSE]
  BY <1>1, <1>2, Zenon DEF ApplyLiveEvent
<1> QED
  BY <1>3, Zenon DEF Open

LEMMA OpenOther ==
  ASSUME NEW parts, NEW clarified \in BOOLEAN
  PROVE  ApplyLiveEvent(Open(parts, clarified), Event("tool_call")) = Open(parts, clarified)
<1>1. Open(parts, clarified).streaming
  BY Zenon DEF Open
<1>2. Event("tool_call").type = "tool_call"
  BY DEF Event
<1> QED
  BY <1>1, <1>2, Zenon DEF ApplyLiveEvent

(* Nothing moved in a stream of events when its message_done came.         *)
Steady(events) ==
  \A i \in DOMAIN events :
    LET before == Bubble(SubSeq(events, 1, i - 1))
    IN  events[i].type = "message_done" /\ before.streaming /\ ~before.clarified =>
          Reading(Bubble(SubSeq(events, 1, i)).parts) = Reading(before.parts)

LEMMA SteadyAppend ==
  ASSUME NEW S, NEW events \in Seq(S), NEW event \in S, Steady(events),
         event.type = "message_done" /\ Bubble(events).streaming /\ ~Bubble(events).clarified =>
           Reading(Bubble(Append(events, event)).parts) = Reading(Bubble(events).parts)
  PROVE  Steady(Append(events, event))
<1> DEFINE more == Append(events, event)
<1>1. PICK N \in Nat : N = Len(events)
  BY LenProperties
<1>2. /\ more \in Seq(S) /\ Len(more) = N + 1 /\ more[N + 1] = event
      /\ \A i \in 1 .. N : more[i] = events[i]
  BY <1>1, AppendProperties
<1> HIDE DEF more
<1>3. ASSUME NEW n \in 0 .. N
      PROVE  SubSeq(more, 1, n) = SubSeq(events, 1, n)
  <2>1. /\ \A i \in 1 .. N + 1 : more[i] \in S
        /\ \A i \in 1 .. N : events[i] \in S
    BY <1>1, <1>2, ElementOfSeq
  <2>2. /\ SubSeq(more, 1, n) \in Seq(S) /\ Len(SubSeq(more, 1, n)) = n
        /\ \A i \in 1 .. n : SubSeq(more, 1, n)[i] = more[i]
    BY <1>1, <1>2, <2>1, SubSeqProperties
  <2>3. /\ SubSeq(events, 1, n) \in Seq(S) /\ Len(SubSeq(events, 1, n)) = n
        /\ \A i \in 1 .. n : SubSeq(events, 1, n)[i] = events[i]
    BY <1>1, <1>2, <2>1, SubSeqProperties
  <2>4. \A i \in 1 .. n : SubSeq(more, 1, n)[i] = SubSeq(events, 1, n)[i]
    BY <1>2, <2>2, <2>3
  <2> QED
    BY <2>2, <2>3, <2>4, SeqEqual
<1>4. SubSeq(events, 1, N) = events /\ SubSeq(more, 1, N + 1) = more
  BY <1>1, <1>2, SubSeqFull
<1> SUFFICES ASSUME NEW i \in 1 .. N + 1,
                    more[i].type = "message_done",
                    Bubble(SubSeq(more, 1, i - 1)).streaming,
                    ~Bubble(SubSeq(more, 1, i - 1)).clarified
             PROVE  Reading(Bubble(SubSeq(more, 1, i)).parts)
                      = Reading(Bubble(SubSeq(more, 1, i - 1)).parts)
  <2>1. DOMAIN more = 1 .. N + 1
    BY <1>2, LenProperties
  <2> QED
    BY <2>1, Zenon DEF Steady, more
<1>5. CASE i = N + 1
  <2>1. SubSeq(more, 1, i - 1) = events /\ SubSeq(more, 1, i) = more /\ more[i] = event
    <3>1. i - 1 = N /\ N \in 0 .. N
      BY <1>5
    <3> QED
      BY <1>2, <1>3, <1>4, <1>5, <3>1
  <2> QED
    BY <2>1, Zenon DEF more
<1>6. CASE i # N + 1
  <2>1. i \in 1 .. N /\ i \in 0 .. N /\ i - 1 \in 0 .. N
    BY <1>6
  <2>2. /\ SubSeq(more, 1, i - 1) = SubSeq(events, 1, i - 1)
        /\ SubSeq(more, 1, i) = SubSeq(events, 1, i)
        /\ more[i] = events[i]
    BY <1>2, <1>3, <2>1
  <2>3. i \in DOMAIN events
    BY <1>1, <2>1, LenProperties
  <2> QED
    BY <2>2, <2>3, Zenon DEF Steady
<1> QED
  BY <1>5, <1>6

LEMMA SteadyBefore == Steady(<< >>)
  BY DEF Steady

-----------------------------------------------------------------------------
(* The stream is a sequence of some events.                                *)
StreamInv == \E S : stream \in Seq(S)

(* A published event is applied to what the window shows.                  *)
LEMMA Shown ==
  ASSUME StreamInv, NothingJumps, NEW event, Publish(event),
         event.type = "message_done" /\ Bubble(stream).streaming /\ ~Bubble(stream).clarified =>
           Reading(ApplyLiveEvent(Bubble(stream), event).parts) = Reading(Bubble(stream).parts)
  PROVE  /\ StreamInv' /\ NothingJumps'
         /\ Bubble(stream') = ApplyLiveEvent(Bubble(stream), event)
<1>1. PICK R : stream \in Seq(R)
  BY DEF StreamInv
<1> DEFINE S == R \cup {event}
<1>2. stream \in Seq(S) /\ event \in S
  BY <1>1, SeqMonotonic
<1> HIDE DEF S
<1>3. stream' = Append(stream, event)
  BY DEF Publish
<1>4. stream' \in Seq(S)
  BY <1>2, <1>3, AppendProperties
<1>5. Bubble(stream') = ApplyLiveEvent(Bubble(stream), event)
  BY <1>2, <1>3, BubbleAppend, Zenon
<1>6. Steady(stream)
  BY Zenon DEF NothingJumps, Steady
<1>7. Steady(stream')
  BY <1>2, <1>3, <1>5, <1>6, SteadyAppend, Zenon
<1>8. NothingJumps'
  BY <1>7, Zenon DEF NothingJumps, Steady
<1> QED
  BY <1>4, <1>5, <1>8, Zenon DEF StreamInv

(* A step that publishes nothing.                                          *)
LEMMA Silent ==
  ASSUME StreamInv, NothingJumps, stream' = stream
  PROVE  StreamInv' /\ NothingJumps'
  BY Zenon DEF StreamInv, NothingJumps

(* A step that leaves the screen, the segments and the backlog alone.      *)
LEMMA SameScreen ==
  ASSUME ShowsSegments(Bubble(stream)), Bubble(stream') = Bubble(stream),
         segments' = segments, Unseen' = Unseen
  PROVE  ShowsSegments(Bubble(stream))'
  BY Zenon DEF ShowsSegments

(* What the segments say has a shape.                                      *)
LEMMA SegmentsTyped ==
  ASSUME LoopTypeOK
  PROVE  /\ TextOf(segments) \in Seq(Tokens)
         /\ WidgetsOf(segments) \in Seq(Parts)
         /\ Reading(segments) \in Seq(Tokens \cup CallIds)
         /\ answer.content \in Seq(Tokens)
         /\ answer.content \in Seq(Tokens \cup CallIds)
<1>1. segments \in Seq(Parts) /\ answer.content \in Seq(Tokens)
  BY DEF LoopTypeOK
<1>2. Said(segments) \in Sayings
  BY <1>1, SaidTyped
<1>3. answer.content \in Seq(Tokens \cup CallIds)
  BY <1>1, SeqMonotonic
<1> QED
  BY <1>1, <1>2, <1>3 DEF Sayings, TextOf, WidgetsOf, Reading

(* A delta is on the screen at once and in the segments later.             *)
LEMMA ContentShown ==
  ASSUME ShapeInv, StreamInv, NothingJumps, ShowsSegments(Bubble(stream)), StreamContent
  PROVE  StreamInv' /\ NothingJumps' /\ ShowsSegments(Bubble(stream))'
<1>1. PICK token \in Tokens : /\ answer'.content = Append(answer.content, token)
                              /\ Publish(ContentDelta(token))
  <2>1. << iteration, Len(answer.content) + 1 >> \in Tokens
    BY LoopBounds DEF StreamContent, ShapeInv, LoopTypeOK, Tokens
  <2>2. answer' = [answer EXCEPT !.content = Append(@, << iteration, Len(answer.content) + 1 >>)]
    BY DEF StreamContent
  <2>3. answer'.content = Append(answer.content, << iteration, Len(answer.content) + 1 >>)
    BY <2>2 DEF ShapeInv, LoopTypeOK
  <2>4. Publish(ContentDelta(<< iteration, Len(answer.content) + 1 >>))
    BY DEF StreamContent
  <2> QED
    BY <2>1, <2>3, <2>4, Zenon
<1>2. PICK parts \in Seq(Parts) : Bubble(stream).parts = parts /\ Bubble(stream) = Open(parts, FALSE)
  BY Zenon DEF ShowsSegments
<1>3. /\ TextOf(parts) = TextOf(segments) \o answer.content
      /\ WidgetsOf(parts) = WidgetsOf(segments)
      /\ Reading(parts) = Reading(segments) \o answer.content
  <2>1. Unseen = answer.content
    BY DEF Unseen, StreamContent
  <2> QED
    BY <1>2, <2>1, Zenon DEF ShowsSegments
<1> DEFINE more == AppendTextDelta(parts, token)
<1>4. StreamInv' /\ NothingJumps' /\ Bubble(stream') = Open(more, FALSE)
  <2>1. ContentDelta(token).type # "message_done"
    BY DEF ContentDelta
  <2>2. ApplyLiveEvent(Open(parts, FALSE), ContentDelta(token)) = Open(more, FALSE)
    BY OpenDelta, Zenon
  <2> QED
    BY <1>1, <1>2, <2>1, <2>2, Shown, Zenon
<1>5. /\ more \in Seq(Parts)
      /\ TextOf(more) = Append(TextOf(parts), token)
      /\ WidgetsOf(more) = WidgetsOf(parts)
      /\ Reading(more) = Append(Reading(parts), token)
  BY SaidDelta, Zenon
<1> HIDE DEF more
<1>6. Open(more, FALSE).parts = more
  BY DEF Open
<1>7. segments' = segments /\ Unseen' = Append(answer.content, token)
  BY <1>1 DEF StreamContent, Unseen
<1>8. /\ TextOf(more) = TextOf(segments) \o Append(answer.content, token)
      /\ Reading(more) = Reading(segments) \o Append(answer.content, token)
  <2>1. LoopTypeOK /\ token \in Tokens \cup CallIds
    BY DEF ShapeInv
  <2>2. TextOf(segments) \o Append(answer.content, token)
          = Append(TextOf(segments) \o answer.content, token)
    BY <2>1, SegmentsTyped, AppendMoves
  <2>3. Reading(segments) \o Append(answer.content, token)
          = Append(Reading(segments) \o answer.content, token)
    BY <2>1, SegmentsTyped, AppendMoves, SMTT(30)
  <2> QED
    BY <1>3, <1>5, <2>2, <2>3, Zenon
<1>9. ShowsSegments(Bubble(stream))'
  BY <1>3, <1>4, <1>5, <1>6, <1>7, <1>8, Zenon DEF ShowsSegments
<1> QED
  BY <1>4, <1>9

(* A widget takes its place in both at once.                               *)
LEMMA WidgetShown ==
  ASSUME ShapeInv, StreamInv, NothingJumps, ShowsSegments(Bubble(stream)), ExecuteWithWidget
  PROVE  StreamInv' /\ NothingJumps' /\ ShowsSegments(Bubble(stream))'
<1>1. PICK call \in CallIds : /\ segments' = Append(segments, Widget(call))
                              /\ Publish(WidgetReady(call))
  <2>1. LoopTypeOK /\ AnswerCall /\ todo # << >>
    BY DEF ExecuteWithWidget, ShapeInv
  <2>2. Head(todo).id \in CallIds
    BY <2>1, AnswerTyped
  <2> QED
    BY <2>2, Zenon DEF ExecuteWithWidget
<1>2. PICK parts \in Seq(Parts) : Bubble(stream).parts = parts /\ Bubble(stream) = Open(parts, FALSE)
  BY Zenon DEF ShowsSegments
<1>3. Unseen = << >> /\ Unseen' = << >>
  BY DEF Unseen, ExecuteWithWidget, AnswerCall
<1>4. LoopTypeOK /\ segments \in Seq(Parts)
  BY DEF ShapeInv, LoopTypeOK
<1>5. /\ TextOf(parts) = TextOf(segments)
      /\ WidgetsOf(parts) = WidgetsOf(segments)
      /\ Reading(parts) = Reading(segments)
  <2>1. TextOf(segments) \o << >> = TextOf(segments) /\ Reading(segments) \o << >> = Reading(segments)
    BY <1>4, SegmentsTyped, ConcatEmptySeq
  <2> QED
    BY <1>2, <1>3, <2>1, Zenon DEF ShowsSegments
<1> DEFINE more == Append(parts, Widget(call))
<1>6. StreamInv' /\ NothingJumps' /\ Bubble(stream') = Open(more, FALSE)
  <2>1. WidgetReady(call).type # "message_done"
    BY DEF WidgetReady
  <2>2. ApplyLiveEvent(Open(parts, FALSE), WidgetReady(call)) = Open(more, FALSE)
    BY OpenWidget, Zenon
  <2> QED
    BY <1>1, <1>2, <2>1, <2>2, Shown, Zenon
<1>7. /\ more \in Seq(Parts)
      /\ TextOf(more) = TextOf(segments')
      /\ WidgetsOf(more) = WidgetsOf(segments')
      /\ Reading(more) = Reading(segments')
  <2>1. /\ more \in Seq(Parts)
        /\ TextOf(more) = TextOf(parts)
        /\ WidgetsOf(more) = Append(WidgetsOf(parts), Widget(call))
        /\ Reading(more) = Append(Reading(parts), call)
    BY SaidWidget, Zenon
  <2>2. /\ TextOf(segments') = TextOf(segments)
        /\ WidgetsOf(segments') = Append(WidgetsOf(segments), Widget(call))
        /\ Reading(segments') = Append(Reading(segments), call)
    BY <1>1, <1>4, SaidWidget, Zenon
  <2> HIDE DEF more
  <2> QED
    BY <1>5, <2>1, <2>2, Zenon
<1> HIDE DEF more
<1>8. Open(more, FALSE).parts = more
  BY DEF Open
<1>9. TextOf(more) \o << >> = TextOf(more) /\ Reading(more) \o << >> = Reading(more)
  <2>1. Said(more) \in Sayings
    BY <1>7, SaidTyped
  <2> QED
    BY <2>1, ConcatEmptySeq DEF Sayings, TextOf, Reading
<1>10. ShowsSegments(Bubble(stream))'
  BY <1>3, <1>6, <1>7, <1>8, <1>9, Zenon DEF ShowsSegments
<1> QED
  BY <1>6, <1>10

(* The segments catch up with the screen when a completion is over.        *)
LEMMA SegmentsCatchUp ==
  ASSUME ShapeInv, ShowsSegments(Bubble(stream)), phase = "streaming", phase' # "streaming",
         segments' = WithText, stream' = stream
  PROVE  ShowsSegments(Bubble(stream))'
<1>1. Unseen = answer.content /\ Unseen' = << >>
  BY DEF Unseen
<1>2. LoopTypeOK /\ segments' \in Seq(Parts)
  BY WithTextTyped DEF ShapeInv
<1>3. TextOf(segments') \o << >> = TextOf(segments') /\ Reading(segments') \o << >> = Reading(segments')
  <2>1. Said(segments') \in Sayings
    BY <1>2, SaidTyped
  <2> QED
    BY <2>1, ConcatEmptySeq DEF Sayings, TextOf, Reading
<1>4. /\ TextOf(segments') = TextOf(segments) \o answer.content
      /\ WidgetsOf(segments') = WidgetsOf(segments)
      /\ Reading(segments') = Reading(segments) \o answer.content
  BY <1>2, SaidWithText, Zenon
<1> QED
  BY <1>1, <1>3, <1>4, Zenon DEF ShowsSegments

LEMMA MakingStep ==
  ASSUME ShapeInv, StreamInv, NothingJumps, MakingInv, [LoopNext]_loopVars
  PROVE  MakingInv'
<1>1. CASE UNCHANGED loopVars
  BY <1>1, Zenon DEF loopVars, MakingInv, ShowsSegments, Unseen, CappedBubble
<1>2. CASE RequestCompletion
  <2>1. phase = "requesting" /\ phase' = "streaming" /\ UNCHANGED << segments, stream, row >>
    BY <1>2 DEF RequestCompletion
  <2>2. Unseen = << >> /\ Unseen' = << >>
    BY <1>2, <2>1 DEF RequestCompletion, Unseen, EmptyAnswer
  <2>3. ShowsSegments(Bubble(stream)) /\ ~row.saved
    BY <2>1, Zenon DEF MakingInv, Segmented
  <2>4. ShowsSegments(Bubble(stream))'
    BY <2>1, <2>2, <2>3, SameScreen, Zenon
  <2> QED
    BY <2>1, <2>3, <2>4, Zenon DEF MakingInv
<1>3. CASE StreamContent
  <2>1. phase = "streaming" /\ phase' = "streaming" /\ UNCHANGED row
    BY <1>3 DEF StreamContent
  <2>2. ShowsSegments(Bubble(stream)) /\ ~row.saved
    BY <2>1, Zenon DEF MakingInv, Segmented
  <2>3. ShowsSegments(Bubble(stream))'
    BY <1>3, <2>2, ContentShown, Zenon
  <2> QED
    BY <2>1, <2>2, <2>3, Zenon DEF MakingInv
<1>4. CASE StreamFragment \/ StreamFinish
  <2>1. phase = "streaming" /\ phase' = "streaming" /\ UNCHANGED << segments, stream, row >>
    BY <1>4 DEF StreamFragment, StreamFinish
  <2>2. Unseen' = Unseen
    <3>1. CASE StreamFragment
      BY <3>1 DEF StreamFragment, Unseen
    <3>2. CASE StreamFinish
      <4>1. answer'.content = answer.content
        BY <3>2 DEF StreamFinish, ShapeInv, LoopTypeOK
      <4> QED
        BY <2>1, <4>1 DEF Unseen
    <3> QED
      BY <1>4, <3>1, <3>2
  <2>3. ShowsSegments(Bubble(stream)) /\ ~row.saved
    BY <2>1, Zenon DEF MakingInv, Segmented
  <2>4. ShowsSegments(Bubble(stream))'
    BY <2>1, <2>2, <2>3, SameScreen, Zenon
  <2> QED
    BY <2>1, <2>3, <2>4, Zenon DEF MakingInv
<1>5. CASE ResolveTurn \/ BeginDispatch
  <2>1. /\ phase = "streaming" /\ phase' \in {"saving", "dispatching"}
        /\ segments' = WithText /\ stream' = stream /\ row' = row
    BY <1>5 DEF ResolveTurn, BeginDispatch
  <2>2. ShowsSegments(Bubble(stream)) /\ ~row.saved
    BY <2>1, Zenon DEF MakingInv, Segmented
  <2>3. phase' # "streaming" /\ phase' # "savingCapped"
    BY <2>1
  <2>4. ShowsSegments(Bubble(stream))'
    BY <2>1, <2>2, <2>3, SegmentsCatchUp, Zenon
  <2> QED
    BY <2>1, <2>2, <2>3, <2>4, Zenon DEF MakingInv
<1>6. CASE AnnounceCall
  <2>1. /\ phase = "dispatching" /\ phase' = "executing" /\ UNCHANGED << segments, row >>
        /\ Publish(Event("tool_call"))
    BY <1>6 DEF AnnounceCall
  <2>2. Unseen = << >> /\ Unseen' = << >>
    BY <2>1 DEF Unseen
  <2>3. ShowsSegments(Bubble(stream)) /\ ~row.saved
    BY <2>1, Zenon DEF MakingInv, Segmented
  <2>4. PICK parts : Bubble(stream) = Open(parts, FALSE)
    BY <2>3, Zenon DEF ShowsSegments
  <2>5. Event("tool_call").type # "message_done"
    BY DEF Event
  <2>6. Bubble(stream') = Bubble(stream)
    BY <2>1, <2>4, <2>5, OpenOther, Shown, Zenon
  <2>7. ShowsSegments(Bubble(stream))'
    BY <2>1, <2>2, <2>3, <2>6, SameScreen, Zenon
  <2> QED
    BY <2>1, <2>3, <2>7, Zenon DEF MakingInv
<1>7. CASE RejectCall \/ ExecutePlainly \/ NextIteration
  <2>1. /\ phase \in {"executing", "dispatching"} /\ phase' \in {"dispatching", "requesting"}
        /\ UNCHANGED << segments, stream, row >>
    BY <1>7 DEF RejectCall, ExecutePlainly, NextIteration, AnswerCall
  <2>2. Unseen = << >> /\ Unseen' = << >>
    BY <2>1 DEF Unseen
  <2>3. ShowsSegments(Bubble(stream)) /\ ~row.saved
    BY <2>1, Zenon DEF MakingInv, Segmented
  <2>4. ShowsSegments(Bubble(stream))'
    BY <2>1, <2>2, <2>3, SameScreen, Zenon
  <2>5. phase' # "savingCapped"
    BY <2>1
  <2> QED
    BY <2>1, <2>3, <2>4, <2>5, Zenon DEF MakingInv
<1>8. CASE ExecuteWithWidget
  <2>1. phase = "executing" /\ phase' = "dispatching" /\ UNCHANGED row
    BY <1>8 DEF ExecuteWithWidget, AnswerCall
  <2>2. ShowsSegments(Bubble(stream)) /\ ~row.saved
    BY <2>1, Zenon DEF MakingInv, Segmented
  <2>3. ShowsSegments(Bubble(stream))'
    BY <1>8, <2>2, WidgetShown, Zenon
  <2> QED
    BY <2>1, <2>2, <2>3, Zenon DEF MakingInv
<1>9. CASE ReachCap
  <2>1. /\ phase = "requesting" /\ phase' = "savingCapped" /\ UNCHANGED << segments, row >>
        /\ Publish(CapReached(TextOf(segments)))
    BY <1>9 DEF ReachCap
  <2>2. ShowsSegments(Bubble(stream)) /\ ~row.saved
    BY <2>1, Zenon DEF MakingInv, Segmented
  <2>3. PICK parts : Bubble(stream) = Open(parts, FALSE)
    BY <2>2, Zenon DEF ShowsSegments
  <2>4. CapReached(TextOf(segments)).type # "message_done"
    BY DEF CapReached
  <2>5. ApplyLiveEvent(Open(parts, FALSE), CapReached(TextOf(segments))) = CappedBubble
    BY OpenCap, Zenon DEF CappedBubble
  <2>6. Bubble(stream') = CappedBubble
    BY <2>1, <2>3, <2>4, <2>5, Shown, Zenon
  <2>7. CappedBubble' = CappedBubble
    BY <2>1, Zenon DEF CappedBubble
  <2>8. phase' \notin Segmented
    BY <2>1 DEF Segmented
  <2> QED
    BY <2>1, <2>2, <2>6, <2>7, <2>8, Zenon DEF MakingInv
<1>10. CASE SaveReply \/ SaveFails \/ FinishTurn
  <2>1. phase' \in {"ending", "endingCapped", "done"}
    BY <1>10 DEF SaveReply, SaveFails, FinishTurn, Ending
  <2>2. phase' \notin Segmented /\ phase' # "savingCapped"
    BY <2>1 DEF Segmented
  <2> QED
    BY <2>1, <2>2, Zenon DEF MakingInv
<1>11. CASE RequestFails \/ StreamBreaks \/ RefuseAnswer \/ HandlerRaises \/ FailTurn
  <2>1. /\ phase' \in {"failing", "failed"} /\ row' = row
        /\ phase \notin {"ending", "endingCapped", "done"}
    BY <1>11 DEF RequestFails, StreamBreaks, RefuseAnswer, HandlerRaises, FailTurn
  <2>2. phase' \notin Segmented /\ phase' # "savingCapped"
    BY <2>1 DEF Segmented
  <2>3. ~row.saved
    BY <2>1, Zenon DEF MakingInv
  <2> QED
    BY <2>1, <2>2, <2>3, Zenon DEF MakingInv
<1>12. CASE TurnIsOver /\ UNCHANGED loopVars
  BY <1>1, <1>12
<1> QED
  BY <1>1, <1>2, <1>3, <1>4, <1>5, <1>6, <1>7, <1>8, <1>9, <1>10, <1>11, <1>12, Zenon
     DEF LoopNext, LoopStep, LoopProgress, Chunk

(* What message_done carries says what the segments say.                   *)
Final == IF segments = << >> THEN << Text(answer.content) >> ELSE segments
LEMMA FinalSays ==
  ASSUME LoopTypeOK, EndsWithAnswer
  PROVE  /\ TextOf(Final) = TextOf(segments)
         /\ WidgetsOf(Final) = WidgetsOf(segments)
         /\ Reading(Final) = Reading(segments)
<1>1. CASE segments = << >>
  <2>1. answer.content = << >> /\ << >> \in Seq(Tokens)
    BY <1>1, Zenon, EmptySeq DEF EndsWithAnswer
  <2>2. Final = << Text(<< >>) >>
    BY <1>1, <2>1, Zenon DEF Final
  <2>3. /\ TextOf(Final) = << >> /\ WidgetsOf(Final) = << >> /\ Reading(Final) = << >>
    BY <2>1, <2>2, SaidAlone, Zenon
  <2>4. TextOf(<< >>) = << >> /\ WidgetsOf(<< >>) = << >> /\ Reading(<< >>) = << >>
    BY NothingSaid DEF Nothing, TextOf, WidgetsOf, Reading
  <2> QED
    BY <1>1, <2>3, <2>4, Zenon
<1>2. CASE segments # << >>
  BY <1>2, Zenon DEF Final
<1> QED
  BY <1>1, <1>2

(* The last words of a turn.                                               *)
LEMMA LastWords ==
  ASSUME FinishTurn
  PROVE  /\ phase = "ending" => Publish(MessageDone(Final))
         /\ phase \in {"ending", "endingCapped"} /\ phase' = "done" /\ UNCHANGED << segments, answer, row >>
         /\ \E final : Publish(MessageDone(final))
<1>1. phase = "ending" => ReplySegments = segments /\ ReplyContent = answer.content
  BY DEF ReplySegments, ReplyContent, Capped
<1> QED
  BY <1>1, Zenon DEF FinishTurn, Final

LEMMA JumpsStep ==
  ASSUME ShapeInv, StreamInv, NothingJumps, MakingInv, EndingInv, [LoopNext]_loopVars
  PROVE  StreamInv' /\ NothingJumps'
<1>1. CASE stream' = stream
  BY <1>1, Silent, Zenon
<1>2. ASSUME NEW event, Publish(event), event.type # "message_done"
      PROVE  StreamInv' /\ NothingJumps'
  BY <1>2, Shown, Zenon
<1>3. CASE StreamContent
  <2>1. \A token : ContentDelta(token).type # "message_done"
    BY DEF ContentDelta
  <2> QED
    BY <1>2, <1>3, <2>1, Zenon DEF StreamContent
<1>4. CASE AnnounceCall \/ SaveFails \/ FailTurn
  <2>1. \A type : type # "message_done" => Event(type).type # "message_done"
    BY DEF Event
  <2>2. PICK type : type # "message_done" /\ Publish(Event(type))
    BY <1>4 DEF AnnounceCall, SaveFails, FailTurn
  <2> QED
    BY <1>2, <2>1, <2>2, Zenon
<1>5. CASE ExecuteWithWidget
  <2>1. \A call : WidgetReady(call).type # "message_done"
    BY DEF WidgetReady
  <2> QED
    BY <1>2, <1>5, <2>1, Zenon DEF ExecuteWithWidget
<1>6. CASE ReachCap
  <2>1. \A content : CapReached(content).type # "message_done"
    BY DEF CapReached
  <2> QED
    BY <1>2, <1>6, <2>1, Zenon DEF ReachCap
<1>7. CASE FinishTurn
  <2>1. CASE ~row.saved
    <3>1. ~Bubble(stream).streaming
      BY <1>7, <2>1, LastWords, Zenon DEF EndingInv
    <3> QED
      BY <1>7, <3>1, LastWords, Shown, Zenon
  <2>2. CASE row.saved /\ phase = "endingCapped"
    <3>1. Bubble(stream).clarified
      <4>1. Bubble(stream) = Open(<< Text(TextOf(segments)) >>, TRUE)
        BY <2>2, Zenon DEF EndingInv, CappedBubble
      <4>2. \A parts : Open(parts, TRUE).clarified
        BY Zenon DEF Open
      <4> QED
        BY <4>1, <4>2, Zenon
    <3> QED
      BY <1>7, <3>1, LastWords, Shown, Zenon
  <2>3. CASE row.saved /\ phase = "ending"
    <3>1. ShowsSegments(Bubble(stream)) /\ EndsWithAnswer
      BY <2>3, Zenon DEF EndingInv
    <3>2. PICK parts : Bubble(stream).parts = parts /\ Bubble(stream) = Open(parts, FALSE)
      BY <3>1, Zenon DEF ShowsSegments
    <3>3. ApplyLiveEvent(Open(parts, FALSE), MessageDone(Final)).parts = Final
      <4>1. ApplyLiveEvent(Open(parts, FALSE), MessageDone(Final))
              = [parts |-> Final, clarified |-> FALSE, streaming |-> FALSE]
        BY OpenDone, Zenon
      <4> QED
        BY <4>1, ClosedFields, Zenon
    <3>4. LoopTypeOK /\ Unseen = << >>
      BY <2>3 DEF ShapeInv, Unseen
    <3>5. Reading(parts) = Reading(segments)
      <4>1. Reading(segments) \o << >> = Reading(segments)
        BY <3>4, SegmentsTyped, ConcatEmptySeq
      <4> QED
        BY <3>1, <3>2, <3>4, <4>1, Zenon DEF ShowsSegments
    <3>6. Reading(Final) = Reading(segments)
      BY <3>1, <3>4, FinalSays, Zenon
    <3>7. Publish(MessageDone(Final))
      BY <1>7, <2>3, LastWords, Zenon
    <3>8. Reading(ApplyLiveEvent(Bubble(stream), MessageDone(Final)).parts) = Reading(Bubble(stream).parts)
      BY <3>2, <3>3, <3>5, <3>6, Zenon
    <3> QED
      BY <3>7, <3>8, Shown, Zenon
  <2> QED
    BY <1>7, <2>1, <2>2, <2>3, LastWords
<1>8. CASE RequestCompletion \/ RequestFails \/ StreamBreaks \/ RefuseAnswer \/ ResolveTurn
           \/ BeginDispatch \/ RejectCall \/ ExecutePlainly \/ HandlerRaises
           \/ NextIteration \/ SaveReply \/ StreamFragment \/ StreamFinish
  <2>1. stream' = stream
    BY <1>8 DEF RequestCompletion, RequestFails, StreamBreaks, RefuseAnswer, ResolveTurn,
                BeginDispatch, RejectCall, ExecutePlainly, HandlerRaises, NextIteration,
                SaveReply, StreamFragment, StreamFinish
  <2> QED
    BY <1>1, <2>1
<1>9. CASE UNCHANGED loopVars
  BY <1>1, <1>9 DEF loopVars
<1> QED
  BY <1>3, <1>4, <1>5, <1>6, <1>7, <1>8, <1>9, Zenon
     DEF LoopNext, LoopStep, LoopProgress, Chunk

LEMMA EndingStep ==
  ASSUME ShapeInv, StreamInv, NothingJumps, MakingInv, EndingInv, [LoopNext]_loopVars
  PROVE  EndingInv'
<1>1. CASE UNCHANGED loopVars
  <2>1. ShowsSegments(Bubble(stream))' = ShowsSegments(Bubble(stream))
    BY <1>1, Zenon DEF loopVars, ShowsSegments, Unseen
  <2>2. EndsWithAnswer' = EndsWithAnswer /\ CappedBubble' = CappedBubble
    BY <1>1, Zenon DEF loopVars, EndsWithAnswer, CappedBubble
  <2> QED
    BY <1>1, <2>1, <2>2, Zenon DEF loopVars, EndingInv
<1>2. CASE ResolveTurn
  <2>1. phase' = "saving" /\ segments' = WithText /\ answer' = answer
    BY <1>2 DEF ResolveTurn
  <2>2. LoopTypeOK
    BY DEF ShapeInv
  <2>3. IsSuffix(answer.content, TextOf(WithText))
    BY <2>2, SegmentsTyped, SaidWithText, EndIsSuffix, Zenon
  <2>4. WithText = << >> => answer.content = << >>
    <3>1. segments \in Seq(Parts) /\ Text(answer.content) \in Parts
      BY <2>2 DEF LoopTypeOK, Text, Parts
    <3>2. Append(segments, Text(answer.content)) # << >>
      BY <3>1, AppendProperties
    <3> QED
      BY <3>2, Zenon DEF WithText
  <2>5. EndsWithAnswer'
    BY <2>1, <2>3, <2>4, Zenon DEF EndsWithAnswer
  <2>6. phase' # "ending" /\ phase' # "endingCapped"
    BY <2>1
  <2> QED
    BY <2>5, <2>6, Zenon DEF EndingInv
<1>3. CASE SaveReply \/ SaveFails
  <2>1. /\ phase \in {"saving", "savingCapped"}
        /\ phase = "saving" => phase' = "ending"
        /\ phase = "savingCapped" => phase' = "endingCapped"
        /\ UNCHANGED << segments, answer >>
    BY <1>3 DEF SaveReply, SaveFails, Ending, Capped
  <2>2. phase' # "streaming" /\ phase # "streaming"
    BY <2>1
  <2>3. EndsWithAnswer' = EndsWithAnswer /\ CappedBubble' = CappedBubble
    BY <2>1, Zenon DEF EndsWithAnswer, CappedBubble
  <2>4. phase' = "ending" => phase = "saving"
    BY <2>1
  <2>5. phase' \in {"saving", "ending"} => EndsWithAnswer'
    <3>1. phase' # "saving"
      BY <2>1
    <3> QED
      BY <2>3, <2>4, <3>1, Zenon DEF EndingInv
  <2>6. CASE SaveReply
    <3>1. stream' = stream /\ Unseen' = Unseen
      BY <2>2, <2>6 DEF SaveReply, Unseen
    <3>2. row' = [saved |-> TRUE, content |-> ReplyContent, widgets |-> WidgetsOf(ReplySegments)]
      BY <2>6 DEF SaveReply
    <3>3. row'.saved
      BY <3>2, Zenon
    <3>4. row'.content = ReplyContent /\ row'.widgets = WidgetsOf(ReplySegments)
      BY <3>2
    <3>5. CASE phase = "saving"
      <4>1. ReplyContent = answer.content /\ ReplySegments = segments
        BY <3>5 DEF ReplyContent, ReplySegments, Capped
      <4>2. ShowsSegments(Bubble(stream))
        BY <3>5, Zenon DEF MakingInv, Segmented
      <4>3. ShowsSegments(Bubble(stream))'
        BY <2>1, <3>1, <4>2, SameScreen, Zenon
      <4>4. phase' = "ending" /\ phase' # "endingCapped"
        BY <2>1, <3>5
      <4> QED
        BY <2>1, <2>5, <3>3, <3>4, <4>1, <4>3, <4>4, Zenon DEF EndingInv
    <3>6. CASE phase = "savingCapped"
      <4>1. ReplyContent = TextOf(segments) \o Clarification /\ ReplySegments = << Text(ReplyContent) >>
        BY <3>6 DEF ReplyContent, ReplySegments, Capped
      <4>2. \A content : WidgetsOf(<< Text(content) >>) = << >>
        <5> TAKE content
        <5>1. Text(content).kind # "widget"
          BY DEF Text
        <5>2. << >> \in Seq({Text(content)}) /\ << Text(content) >> = Append(<< >>, Text(content))
          BY EmptySeq
        <5>3. Said(<< Text(content) >>) = Say(Nothing, Text(content))
          BY <5>2, NothingSaid, SaidAppend
        <5>4. Say(Nothing, Text(content)).widgets = Nothing.widgets
          BY SayText DEF Text
        <5> QED
          BY <5>3, <5>4 DEF WidgetsOf, Nothing
      <4>3. Bubble(stream) = CappedBubble
        BY <3>6, Zenon DEF MakingInv
      <4>4. phase' = "endingCapped" /\ phase' # "ending"
        BY <2>1, <3>6
      <4> QED
        BY <2>1, <2>3, <2>5, <3>1, <3>3, <3>4, <4>1, <4>2, <4>3, <4>4, Zenon DEF EndingInv
    <3> QED
      BY <2>1, <3>5, <3>6
  <2>7. CASE SaveFails
    <3>1. Publish(Event("error")) /\ row' = row
      BY <2>7 DEF SaveFails
    <3>2. PICK parts : Bubble(stream) = Open(parts, FALSE) \/ Bubble(stream) = Open(parts, TRUE)
      <4>1. CASE phase = "saving"
        <5>1. ShowsSegments(Bubble(stream))
          BY <4>1, Zenon DEF MakingInv, Segmented
        <5> QED
          BY <5>1, Zenon DEF ShowsSegments
      <4>2. CASE phase = "savingCapped"
        BY <4>2, Zenon DEF MakingInv, CappedBubble
      <4> QED
        BY <2>1, <4>1, <4>2
    <3>3. ~ApplyLiveEvent(Bubble(stream), Event("error")).streaming
      BY <3>2, OpenError, Zenon
    <3>4. Event("error").type # "message_done"
      BY DEF Event
    <3>5. ~Bubble(stream').streaming
      BY <3>1, <3>3, <3>4, Shown, Zenon
    <3>6. ~row.saved
      <4>1. phase \notin {"ending", "endingCapped", "done"}
        BY <2>1
      <4> QED
        BY <4>1, Zenon DEF MakingInv
    <3> QED
      BY <2>5, <3>1, <3>5, <3>6, Zenon DEF EndingInv
  <2> QED
    BY <1>3, <2>6, <2>7
<1>4. CASE ~(ResolveTurn \/ SaveReply \/ SaveFails) /\ LoopStep
  <2>1. phase' \notin {"saving", "ending", "endingCapped"}
    BY <1>4 DEF LoopStep, LoopProgress, Chunk, RequestCompletion, RequestFails, StreamContent,
                StreamFragment, StreamFinish, StreamBreaks, RefuseAnswer, BeginDispatch,
                AnnounceCall, RejectCall, ExecutePlainly, ExecuteWithWidget, HandlerRaises,
                AnswerCall, NextIteration, ReachCap, FinishTurn, FailTurn
  <2> QED
    BY <2>1, Zenon DEF EndingInv
<1> QED
  BY <1>1, <1>2, <1>3, <1>4, Zenon DEF LoopNext

(* The row of a turn that ends was on the screen.                          *)
LEMMA SavedStep ==
  ASSUME ShapeInv, StreamInv, NothingJumps, MakingInv, EndingInv, SavedReplyWasShown,
         [LoopNext]_loopVars
  PROVE  SavedReplyWasShown'
<1>1. CASE UNCHANGED loopVars
  BY <1>1, Zenon DEF loopVars, SavedReplyWasShown
<1>2. CASE LoopStep /\ ~FinishTurn
  <2>1. phase' # "done"
    BY <1>2 DEF LoopStep, LoopProgress, Chunk, RequestCompletion, RequestFails, StreamContent,
                StreamFragment, StreamFinish, StreamBreaks, RefuseAnswer, BeginDispatch,
                AnnounceCall, RejectCall, ExecutePlainly, ExecuteWithWidget, HandlerRaises,
                AnswerCall, NextIteration, ReachCap, FailTurn, ResolveTurn, SaveReply, SaveFails,
                Ending
  <2> QED
    BY <2>1, Zenon DEF SavedReplyWasShown
<1>3. CASE FinishTurn /\ ~row.saved
  <2>1. ~row'.saved
    BY <1>3, LastWords, Zenon
  <2> QED
    BY <2>1, Zenon DEF SavedReplyWasShown
<1>4. CASE FinishTurn /\ row.saved /\ phase = "ending"
  <2>1. ShowsSegments(Bubble(stream)) /\ EndsWithAnswer
    BY <1>4, Zenon DEF EndingInv
  <2>2. LoopTypeOK /\ row.content = answer.content /\ row.widgets = WidgetsOf(segments)
    BY <1>4, Zenon DEF EndingInv, ShapeInv
  <2>3. Publish(MessageDone(Final)) /\ row' = row
    BY <1>4, LastWords, Zenon
  <2>4. Bubble(stream') = [parts |-> Final, clarified |-> FALSE, streaming |-> FALSE]
    <3>1. PICK parts : Bubble(stream).parts = parts /\ Bubble(stream) = Open(parts, FALSE)
      BY <2>1, Zenon DEF ShowsSegments
    <3>2. ApplyLiveEvent(Bubble(stream), MessageDone(Final))
            = [parts |-> Final, clarified |-> FALSE, streaming |-> FALSE]
      <4>1. ApplyLiveEvent(Open(parts, FALSE), MessageDone(Final))
              = [parts |-> Final, clarified |-> FALSE, streaming |-> FALSE]
        BY OpenDone, Zenon
      <4> QED
        BY <3>1, <4>1, Zenon
    <3>3. Reading(Final) = Reading(parts)
      <4>1. Unseen = << >>
        BY <1>4 DEF Unseen
      <4>2. Reading(segments) \o << >> = Reading(segments)
        BY <2>2, SegmentsTyped, ConcatEmptySeq
      <4>3. Reading(Final) = Reading(segments)
        BY <2>1, <2>2, FinalSays, Zenon
      <4> QED
        BY <2>1, <3>1, <4>1, <4>2, <4>3, Zenon DEF ShowsSegments
    <3>4. ApplyLiveEvent(Bubble(stream), MessageDone(Final)).parts = Final
      BY <3>2, ClosedFields, Zenon
    <3> QED
      BY <2>3, <3>1, <3>2, <3>3, <3>4, Shown, Zenon
  <2>5. Bubble(stream').parts = Final
    BY <2>4
  <2>6. ~Bubble(stream').clarified
    BY <2>4, ClosedFields, Zenon
  <2>7. IsSuffix(answer.content, TextOf(Final) \o << >>) /\ WidgetsOf(Final) = WidgetsOf(segments)
    <3>1. TextOf(Final) = TextOf(segments) /\ WidgetsOf(Final) = WidgetsOf(segments)
      BY <2>1, <2>2, FinalSays, Zenon
    <3>2. TextOf(segments) \o << >> = TextOf(segments)
      BY <2>2, SegmentsTyped, ConcatEmptySeq
    <3>3. IsSuffix(answer.content, TextOf(segments))
      BY <2>1, Zenon DEF EndsWithAnswer
    <3> QED
      BY <3>1, <3>2, <3>3, Zenon
  <2> QED
    BY <2>2, <2>3, <2>5, <2>6, <2>7, Zenon DEF SavedReplyWasShown
<1>5. CASE FinishTurn /\ row.saved /\ phase = "endingCapped"
  <2> DEFINE text == TextOf(segments)
  <2>1. /\ row.content = text \o Clarification /\ row.widgets = << >>
        /\ Bubble(stream) = Open(<< Text(text) >>, TRUE)
    BY <1>5, Zenon DEF EndingInv, CappedBubble
  <2>2. text \in Seq(Tokens)
    BY SegmentsTyped DEF ShapeInv
  <2> HIDE DEF text
  <2>3. PICK final : Publish(MessageDone(final))
    BY <1>5, LastWords, Zenon
  <2>4. row' = row
    BY <1>5, LastWords, Zenon
  <2>5. Bubble(stream') = [parts |-> << Text(text) >>, clarified |-> TRUE, streaming |-> FALSE]
    <3>1. ApplyLiveEvent(Bubble(stream), MessageDone(final))
            = [parts |-> << Text(text) >>, clarified |-> TRUE, streaming |-> FALSE]
      BY <2>1, OpenDone, Zenon
    <3>2. Bubble(stream).clarified
      <4>1. \A parts : Open(parts, TRUE).clarified
        BY Zenon DEF Open
      <4> QED
        BY <2>1, <4>1, Zenon
    <3> QED
      BY <2>3, <3>1, <3>2, Shown, Zenon
  <2>6. Bubble(stream').parts = << Text(text) >>
    BY <2>5
  <2>7. Bubble(stream').clarified
    BY <2>5, ClosedFields, Zenon
  <2>8. TextOf(<< Text(text) >>) = text /\ WidgetsOf(<< Text(text) >>) = << >>
    BY <2>2, SaidAlone
  <2>9. IsSuffix(text \o Clarification, text \o Clarification)
    <3> DEFINE S == Tokens \cup {"clarification"}
               whole == text \o Clarification
    <3>1. text \in Seq(S) /\ Clarification \in Seq(S)
      BY <2>2, SeqMonotonic DEF Clarification
    <3> HIDE DEF S
    <3>2. whole \in Seq(S) /\ << >> \in Seq(S)
      BY <3>1, ConcatProperties
    <3> HIDE DEF whole
    <3>3. << >> \o whole = whole
      BY <3>2, ConcatEmptySeq
    <3>4. IsSuffix(whole, << >> \o whole)
      BY <3>2, EndIsSuffix
    <3> QED
      BY <3>3, <3>4 DEF whole
  <2> QED
    BY <2>1, <2>4, <2>6, <2>7, <2>8, <2>9, Zenon DEF SavedReplyWasShown
<1> QED
  BY <1>1, <1>2, <1>3, <1>4, <1>5, LastWords, Zenon DEF LoopNext

LEMMA ScreenInit == LoopInit => StreamInv /\ ScreenInv
<1> SUFFICES ASSUME LoopInit
             PROVE  StreamInv /\ ScreenInv
  OBVIOUS
<1>1. phase = "requesting" /\ segments = << >> /\ stream = << >> /\ row = None
  BY DEF LoopInit
<1>2. StreamInv
  BY <1>1, EmptySeq DEF StreamInv
<1>3. ~row.saved
  BY <1>1, Zenon DEF None
<1>4. /\ phase # "savingCapped" /\ phase # "done"
      /\ phase \notin {"saving", "ending"} /\ phase \notin {"ending", "endingCapped"}
      /\ phase # "ending" /\ phase # "endingCapped"
  BY <1>1
<1>5. NothingJumps
  BY <1>1, SteadyBefore, Zenon DEF NothingJumps, Steady
<1>6. ShowsSegments(Bubble(stream))
  <2>1. Bubble(stream) = Open(<< >>, FALSE)
    BY <1>1, NothingSeen, Zenon DEF EmptyBubble, Open
  <2>2. Open(<< >>, FALSE).parts = << >>
    BY DEF Open
  <2>3. Unseen = << >>
    BY <1>1 DEF Unseen
  <2>4. << >> \in Seq(Parts)
    BY EmptySeq
  <2>5. TextOf(<< >>) = << >> /\ Reading(<< >>) = << >>
    BY NothingSaid DEF Nothing, TextOf, Reading
  <2>6. << >> \o << >> = << >>
    BY <2>4, ConcatEmptySeq
  <2> QED
    BY <1>1, <2>1, <2>2, <2>3, <2>4, <2>5, <2>6, Zenon DEF ShowsSegments
<1>7. MakingInv
  BY <1>3, <1>4, <1>6, Zenon DEF MakingInv
<1> QED
  BY <1>2, <1>4, <1>5, <1>7, Zenon DEF ScreenInv, EndingInv, SavedReplyWasShown

TurnInv == ShapeInv /\ StreamInv /\ ScreenInv
LEMMA TurnInvInductive == LoopSpec => []TurnInv
<1>1. LoopInit => TurnInv
  BY ShapeInit, ScreenInit DEF TurnInv
<1>2. TurnInv /\ [LoopNext]_loopVars => TurnInv'
  BY ShapeStep, MakingStep, JumpsStep, EndingStep, SavedStep, Zenon DEF TurnInv, ScreenInv
<1> QED
  BY <1>1, <1>2, PTL DEF LoopSpec

-----------------------------------------------------------------------------
(* The shape of a turn, for any registry of tools and any bounds.          *)
THEOREM LoopTyped == LoopSpec => []LoopTypeOK
<1>1. LoopInit => ShapeInv
  BY ShapeInit
<1>2. ShapeInv /\ [LoopNext]_loopVars => ShapeInv'
  BY ShapeStep
<1>3. ShapeInv => LoopTypeOK
  BY DEF ShapeInv
<1> QED
  BY <1>1, <1>2, <1>3, PTL DEF LoopSpec

(* Whenever a completion is asked for, every tool call of the prompt has   *)
(* its answer behind it, in order, and no answer stands without its call   *)
(* (ToolCallExecutor.run): for any number of rounds and calls, made-up     *)
(* tools and refused arguments included.                                   *)
THEOREM CallsAreAnswered == LoopSpec => []EveryCallIsAnswered
<1>1. LoopInit => LoopInv
  BY ShapeInit, AnswersInit DEF LoopInv
<1>2. LoopInv /\ [LoopNext]_loopVars => LoopInv'
  BY ShapeStep, AnswersStep DEF LoopInv
<1>3. LoopInv => EveryCallIsAnswered
  BY DEF LoopInv, AnswersInv, EveryCallIsAnswered
<1> QED
  BY <1>1, <1>2, <1>3, PTL DEF LoopSpec

(* message_done brings the parts that the window shows already, unless the *)
(* cap tripped: no text and no widget moves, appears or goes when a reply  *)
(* ends (MessageDoneEvent, applyLiveEvent).  For any number of rounds,     *)
(* deltas and calls, any registry, and whatever fails on the way.          *)
THEOREM RepliesDoNotJump == LoopSpec => []NothingJumps
<1>1. TurnInv => NothingJumps
  BY DEF TurnInv, ScreenInv
<1> QED
  BY <1>1, TurnInvInductive, PTL

(* What a reload makes of the saved row was on the screen when the turn    *)
(* ended: the same widgets in the same order, and a text that ends the     *)
(* text shown (ChatService.send_message, append_message).                  *)
THEOREM SavedRepliesWereShown == LoopSpec => []SavedReplyWasShown
<1>1. TurnInv => SavedReplyWasShown
  BY DEF TurnInv, ScreenInv
<1> QED
  BY <1>1, TurnInvInductive, PTL
=============================================================================
