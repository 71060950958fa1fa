SPECIFICATION WatchSpec
CONSTANTS
  s1 = s1
  s2 = s2
  w1 = w1
  w2 = w2
  None = None
  Sends <- TwoSends
  Faults <- PromptFaults
  MaxDeltas = 0
  MaxTries = 1
  MaxBubbles = 4
  Windows <- TwoWindows
  Text <- OtherText
  Sender <- EachFromOne
  Minter = None
  Habits <- Hasty
INVARIANTS
  PromptKnowsSavedTurns
  ReplyUnderItsMessage
  ConnectedThreadsMatchTheRows
