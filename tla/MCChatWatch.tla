----------------------------- MODULE MCChatWatch -----------------------------
(* Instances of ChatWatch for TLC. *)
EXTENDS ChatWatch

CONSTANTS s1, s2, w1, w2

TwoSends   == {s1, s2}
OneWindow  == {w1}
TwoWindows == {w1, w2}

AllFromOne  == [s \in Sends |-> w1]
EachFromOne == [s \in Sends |-> IF s = s1 THEN w1 ELSE w2]
OtherText   == [s \in Sends |-> IF s = s1 THEN "first" ELSE "second"]

LlmOnly      == {"llm"}
PromptFaults == {"llm", "tool", "cacheTtl"}

Hasty   == {"drop", "hasty", "regenerate"}
Leaving == {"leave", "regenerate"}
=============================================================================
