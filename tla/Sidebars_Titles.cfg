SPECIFICATION TitlesSpec
CONSTANTS
  c1 = c1
  c2 = c2
  w1 = w1
  p1 = p1
  p2 = p2
  p3 = p3
  r1 = r1
  r2 = r2
  ada = ada
  None = None
  FirstMessage = FirstMessage
  Conversations <- TwoConversations
  Posts <- ThreePosts
  Renames <- TwoRenames
  Target <- ThirdIsElsewhere
  Suggestions <- OneName
  TitleFaults <- AllTitleFaults
  MaxRuns = 2
  Windows <- OneWindow
  Author <- SameAuthor
  ListLimit = 1
  MaxFetches = 1
INVARIANTS
  CurrentSidebarsMatch
PROPERTIES
  RenamesOutliveLaterCategories
  ConversationsAreListed
