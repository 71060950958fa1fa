------------------------- MODULE SerialConversation -------------------------
(***************************************************************************)
(* What a conversation promises its user: one turn at a time, each turn    *)
(* the user's message and then at most one reply, with nothing in between. *)
(***************************************************************************)
EXTENDS Sequences, Naturals

CONSTANTS Turns, NoTurn

VARIABLES
  transcript,  (* The saved rows.                                          *)
  current      (* The turn under way.                                      *)

Of(t)   == {i \in DOMAIN transcript : transcript[i].turn = t}
Said(role, t) == transcript' = Append(transcript, [role |-> role, turn |-> t])

Open(t) ==
  /\ current = NoTurn
  /\ current' = t
  /\ UNCHANGED transcript

Ask(t) ==
  /\ current = t /\ Of(t) = {}
  /\ Said("user", t)
  /\ UNCHANGED current

Answer(t) ==
  /\ current = t /\ Of(t) = {Len(transcript)}
  /\ Said("assistant", t)
  /\ UNCHANGED current

Close(t) ==
  /\ current = t
  /\ current' = NoTurn
  /\ UNCHANGED transcript

SerialInit == transcript = << >> /\ current = NoTurn
SerialNext == \E t \in Turns : Open(t) \/ Ask(t) \/ Answer(t) \/ Close(t)
SerialSpec == SerialInit /\ [][SerialNext]_<< transcript, current >>
=============================================================================
