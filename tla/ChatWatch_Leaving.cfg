SPECIFICATION FairWatchSpec
CONSTANTS
  s1 = s1
  s2 = s2
  w1 = w1
  w2 = w2
  None = None
  Sends <- TwoSends
  Faults <- LlmOnly
  MaxDeltas = 1
  MaxTries = 1
  MaxBubbles = 4
  Windows <- OneWindow
  Text <- OtherText
  Sender <- AllFromOne
  Minter = w1
  Habits <- Leaving
INVARIANT ConnectedThreadsMatchTheRows
PROPERTY ComposerComesBack
