----------------------------- MODULE MCChatTurn -----------------------------
(* Instances of ChatTurn for TLC. *)
EXTENDS ChatTurn, TLC

CONSTANTS s1, s2

TwoSends == {s1, s2}
Symmetry == Permutations(Sends)

OverlapFaults == {"lease", "crash"}
EndingFaults  == {"endpoint", "llm", "timeout", "lease"}
=============================================================================
