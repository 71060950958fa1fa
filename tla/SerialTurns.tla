----------------------------- MODULE SerialTurns -----------------------------
(***************************************************************************)
(* ChatTurn where the reservation outlives its turn: it does not run out   *)
(* while the turn waits in the queue, and no job is run a second time.     *)
(* Everything else may fail.  There a conversation is serial.              *)
(***************************************************************************)
EXTENDS ChatTurn

LeaseFaults == {"lease", "shutdown", "crash"}

ASSUME LeaseAssumption == Faults \cap LeaseFaults = {}

(* The turn under way; a reservation its request or job abandoned is none. *)
CurrentTurn == IF flag # None /\ InFlight(flag) THEN flag ELSE None

Serial == INSTANCE SerialConversation
            WITH Turns <- Sends, NoTurn <- None, transcript <- messages, current <- CurrentTurn

(* The requests, jobs, keys and rows together behave like a conversation   *)
(* in which one turn runs at a time and a reply follows its own message    *)
(* (the one-turn-per-conversation guard of chat_tasks.py).                 *)
ImplementsSerialConversation == Serial!SerialSpec

(* The turn that runs owns the reservation, so deleting the key in the     *)
(* job's finally never frees another turn's conversation.                  *)
RunningTurnOwnsReservation == \A s \in Sends : InFlight(s) => flag = s

(* The unlocked MAX(sequence) + 1 of append_message is never stale: the    *)
(* race its docstring accepts is unreachable behind the reservation.       *)
SequenceIsFresh ==
  \A s \in Sends : sendPc[s] = "persist" \/ job[s] = "saving" => nextSeq[s] = NextSequence

(* A reply row directly follows its own user row, and there is no second   *)
(* one: what the pairing of _pair_complete_turns relies on.                *)
RepliesFollowTheirMessage ==
  \A i \in DOMAIN messages :
    messages[i].role = "assistant" =>
      /\ i > 1 /\ messages[i - 1] = [role |-> "user", turn |-> messages[i].turn]
      /\ \A j \in DOMAIN messages : messages[j] = messages[i] => j = i

-----------------------------------------------------------------------------
(* Inductive form of the above.                                            *)

RowsOf(s) == {i \in DOMAIN messages : messages[i].turn = s}

(* The request has not got as far as its user row, and the reply is due.   *)
Unsaid(s)        == sendPc[s] \in {"new", "reserve", "sequence", "persist", "rejected"}
AwaitingReply(s) == \/ sendPc[s] \in {"announce", "enqueue"}
                    \/ job[s] \in {"queued", "loading", "generating", "saving"}

(* Nothing runs twice, and only accepted requests have jobs.               *)
RunsOnce ==
  \A s \in Sends : /\ job[s] # "crashed" /\ cancelled[s] # "shutdown"
                   /\ job[s] # "none" => sendPc[s] = "accepted"

(* What each turn has saved so far, and that nothing is behind its message *)
(* as long as its reply is due.                                            *)
RowsInv ==
  \A s \in Sends :
    /\ Unsaid(s) => RowsOf(s) = {}
    /\ AwaitingReply(s) => /\ RowsOf(s) = {Len(messages)}
                           /\ messages[Len(messages)] = [role |-> "user", turn |-> s]

SerialInv == RunsOnce /\ RunningTurnOwnsReservation /\ RowsInv /\ SequenceIsFresh

(* The faults that leave the cache behind the rows, or a prompt empty.     *)
MemoryFaults == {"db", "redis", "timeout"}

(* The job has loaded its prompt and may still write it back.              *)
Remembering == Generating \ {"loading"}

(* Inductive form of PromptKnowsSavedTurns without MemoryFaults: a cache   *)
(* that holds anything is behind by at most the turn being written back.   *)
MemoryInv ==
  /\ PromptKnowsSavedTurns
  /\ cache # {} => \A turn \in CompleteTurns(messages) \ cache :
                     \E s \in Sends : job[s] = "caching" /\ turn = <<s, s>>
=============================================================================
