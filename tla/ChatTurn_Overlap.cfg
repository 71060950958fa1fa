SPECIFICATION Spec
CONSTANTS
  s1 = s1
  s2 = s2
  None = None
  Sends <- TwoSends
  Faults <- OverlapFaults
  MaxDeltas = 0
  MaxTries = 2
SYMMETRY Symmetry
INVARIANTS
  EverythingIsAboutASavedMessage
  DoneIsSavedOrWarned
  ReplaysItsUserMessage
