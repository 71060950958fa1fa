SPECIFICATION ToolsSpec
CONSTANTS
  a = a
  b = b
  c = c
  keeper = keeper
  reserve = reserve
  striker = striker
  Teams <- ThreeTeams
  Players <- ThreePlayers
  Fixtures <- ThreeMatches
  Home <- HomeTeams
  Away <- AwayTeams
  StageOf <- Stages
  Knockout <- KnockoutOnly
  MaxGoals = 1
  StatLine <- Lines
  EventsIn <- Events
  StagesNamed <- NamedStages
  StatRows <- FiveRows
  SeasonStats <- Careers
  TeamOf <- Countries
  PositionOf <- PlayerPositions
  IdOf <- Ids
  NameRank <- Alphabet
INVARIANTS
  ToolsAgreeOnATeam
  TournamentAddsUp
  ComparisonMirrors
  MatchAnswersAgree
  RankingsAgreeWithComparisons
  SquadsAgreeWithRankings
  ClubRankingIsOfApprovedCareers
CHECK_DEADLOCK FALSE
