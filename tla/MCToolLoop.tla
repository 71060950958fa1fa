------------------------------ MODULE MCToolLoop ------------------------------
(* An instance of ToolLoop for TLC: one tool with a widget, one made-up name. *)
EXTENDS ToolLoop

CONSTANTS team, guess

OneWidgetTool == {team}
OneGuess      == {guess}
NoTools       == {}
AllLoopFaults == {"request", "stream", "handler", "save"}
=============================================================================
