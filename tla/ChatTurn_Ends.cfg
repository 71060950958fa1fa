SPECIFICATION FairSpec
CONSTANTS
  s1 = s1
  s2 = s2
  None = None
  Sends <- TwoSends
  Faults <- EndingFaults
  MaxDeltas = 0
  MaxTries = 1
PROPERTIES
  AcceptedTurnsEnd
  ReservationsEnd
