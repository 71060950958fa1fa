SPECIFICATION Spec
CONSTANTS
  s1 = s1
  s2 = s2
  None = None
  Sends <- TwoSends
  Faults <- DegradedFaults
  MaxDeltas = 1
  MaxTries = 1
SYMMETRY Symmetry
INVARIANTS
  OneTurnAtATime
  RunningTurnOwnsReservation
  SequenceIsFresh
  RepliesFollowTheirMessage
PROPERTIES
  ImplementsSerialConversation
