SPECIFICATION FairLoopSpec
CONSTANTS
  team = team
  guess = guess
  WidgetTools <- OneWidgetTool
  PlainTools <- NoTools
  UnknownTools <- OneGuess
  MaxIterations = 2
  MaxDeltas = 2
  MaxCalls = 2
  Faults <- AllLoopFaults
INVARIANTS
  EveryCallIsAnswered
  NothingJumps
  SavedReplyWasShown
PROPERTY TurnEnds
