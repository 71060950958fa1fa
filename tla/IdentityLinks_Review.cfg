SPECIFICATION LinksSpec
CONSTANTS
  a1 = a1
  a2 = a2
  r1 = r1
  r2 = r2
  m1 = m1
  m2 = m2
  j1 = j1
  j2 = j2
  Nobody = Nobody
  Unknown = Unknown
  Similarity <- Alike
  Players <- Roster
  RealPlayers <- Reals
  Admins <- TwoAdmins
  Reviews <- TwoReviews
  Verb <- ApproveAndReassign
  Admin <- Reviewers
  Jobs <- TwoJobs
  Kinds <- SyncThenAny
  Matchings <- SomeMatchings
  JobFaults <- AllJobFaults
  MaxReruns = 1
INVARIANTS
  NullConfidenceIsManual
  NoOrphans
PROPERTIES
  EndedJobsStayEnded
  JobsEnd
