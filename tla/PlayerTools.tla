----------------------------- MODULE PlayerTools -----------------------------
(***************************************************************************)
(* query_player_stats, get_player_comparison, get_player_analysis and the  *)
(* squads of the team tools.  A ranking is computed in SQL from unrounded  *)
(* quotients, everything else in Python from rounded ones; the club        *)
(* seasons of a ranking and of a career both reach the real player over    *)
(* the player's identity link.                                             *)
(***************************************************************************)
EXTENDS TournamentTables

CONSTANTS
  TeamOf,       (* National team of each player.                           *)
  PositionOf,   (* GK, DEF, MID or FWD of each player.                     *)
  IdOf,         (* player_id, the last criterion of a ranking.             *)
  NameRank      (* Alphabetical order of the names, the last of a squad.   *)

Null == -1      (* A null saves column.                                    *)

-----------------------------------------------------------------------------
(* Per-90 values, as the comparison shows them: in hundredths.             *)
PerNinety(total, minutes) ==
  IF minutes <= 0 THEN 0 ELSE Rounded(9000 * total, minutes)

Peers(position) ==
  {p \in DOMAIN playerStat : playerStat[p].minutes > 0 /\ PositionOf[p] = position}

(* Midpoint rank within the population, an integer percentage.             *)
Percentile(value, population, of(_)) ==
  LET below == Cardinality({q \in population : of(q) < value})
      equal == Cardinality({q \in population : of(q) = value})
  IN  IF population = {} THEN 0
      ELSE Rounded(100 * (2 * below + equal), 2 * Cardinality(population))

OrZero(value) == IF value = Null THEN 0 ELSE value

(* _COMPARISON_METRIC_SPECS: the total behind each per-90 metric.          *)
TotalOf(metric, p) ==
  CASE metric = "goals_per90" -> playerStat[p].goals
    [] metric = "goal_contributions_per90" -> playerStat[p].goals + playerStat[p].assists
    [] metric = "saves_per90" -> OrZero(playerStat[p].saves)
IsAvailable(metric, p) == metric = "saves_per90" => playerStat[p].saves # Null
PerNinetyOf(metric, p) == PerNinety(TotalOf(metric, p), playerStat[p].minutes)

ComparisonMetrics == {"goals_per90", "goal_contributions_per90", "saves_per90"}

ComparisonRow(metric, a, b) ==
  LET Own(p) == PerNinetyOf(metric, p)
  IN  [aPerNinety |-> Own(a), bPerNinety |-> Own(b),
       aIsBetter |-> Own(a) > Own(b), bIsBetter |-> Own(b) > Own(a),
       aPercentile |-> Percentile(Own(a), Peers(PositionOf[a]), Own),
       bPercentile |-> Percentile(Own(b), Peers(PositionOf[b]), Own)]

(* Two players with player_stat rows; a metric both sides have.            *)
Comparable(a, b) == a # b /\ {a, b} \subseteq DOMAIN playerStat
RowsCompared(a, b) == {m \in ComparisonMetrics : IsAvailable(m, a) /\ IsAvailable(m, b)}

-----------------------------------------------------------------------------
(* query_world_cup.  A sort value is a quotient << numerator, denominator >> *)

(* Faulty variant: the quotient of two integers.                           *)
Per90Truncated(total, minutes) ==
  IF minutes > 0 THEN << (90 * total) \div minutes, 1 >> ELSE << 0, 1 >>

(* per90 is NULL without minutes, which the filters on minutes leave out:  *)
(* no ranking meets the zero that stands for it here.                      *)
Per90(total, minutes) == IF minutes > 0 THEN << 90 * total, minutes >> ELSE << 0, 1 >>

WorldCupStatExpr(field, p) ==
  CASE field = "goals"       -> << playerStat[p].goals, 1 >>
    [] field = "saves"       -> << OrZero(playerStat[p].saves), 1 >>
    [] field = "minutes"     -> << playerStat[p].minutes, 1 >>
    [] field = "goals_per90" -> Per90(playerStat[p].goals, playerStat[p].minutes)
    [] field = "goal_contributions_per90" ->
         Per90(playerStat[p].goals + playerStat[p].assists, playerStat[p].minutes)
    [] field = "saves_per90" -> Per90(OrZero(playerStat[p].saves), playerStat[p].minutes)

Above(one, other) == one[1] * other[2] > other[1] * one[2]

Per90Fields    == {"goals_per90", "goal_contributions_per90", "saves_per90"}
GkOnlyFields   == {"saves", "saves_per90"}

(* Roster filters name a national team (nationality) or a position.        *)
WorldCupBaseFilters(field, nationalities, positions) ==
  {p \in DOMAIN playerStat :
     /\ TeamOf[p] \in nationalities /\ PositionOf[p] \in positions
     /\ field \in Per90Fields => playerStat[p].minutes > 0
     /\ field \in GkOnlyFields => PositionOf[p] = "GK" /\ playerStat[p].saves # Null}

(* The primary order, then minutes (descending), then player_id.           *)
SortOrder(rows, of(_), minutesOf(_), dir) ==
  LET Before(p, q) ==
        LET first == IF dir = "desc" THEN Above(of(p), of(q)) ELSE Above(of(q), of(p))
            tied  == ~Above(of(p), of(q)) /\ ~Above(of(q), of(p))
        IN  \/ first
            \/ tied /\ minutesOf(p) > minutesOf(q)
            \/ tied /\ minutesOf(p) = minutesOf(q) /\ IdOf[p] < IdOf[q]
  IN  SetToSortSeq(rows, Before)

Limited(sorted, limit) == SubSeq(sorted, 1, IF limit < Len(sorted) THEN limit ELSE Len(sorted))

QueryWorldCup(field, dir, limit, nationalities, positions) ==
  Limited(SortOrder(WorldCupBaseFilters(field, nationalities, positions),
                    LAMBDA p : WorldCupStatExpr(field, p),
                    LAMBDA p : playerStat[p].minutes, dir), limit)

(* round(sort_value, 2), in hundredths.                                    *)
SortValue(field, p) ==
  LET value == WorldCupStatExpr(field, p) IN Rounded(100 * value[1], value[2])

-----------------------------------------------------------------------------
(* Club seasons: SeasonStats[p] is a set of records [season, competition,  *)
(* minutes, goals] of the real player p's link names.                      *)

ClubRows(p, years, competition) ==
  {row \in SeasonStats[p] :
     /\ row.season \in years
     /\ competition = "all" \/ row.competition = competition}

(* Faulty variant: any link will do.                                       *)
ClubWhereLinked(years, competition) ==
  {p \in Players : link[p] # "none" /\ ClubRows(p, years, competition) # {}}

(* The joins and the WHERE of query_club_seasons.                          *)
ClubWhere(years, competition) ==
  {p \in Players : link[p] = "approved" /\ ClubRows(p, years, competition) # {}}

ClubSum(p, years, competition, column) ==
  Total(ClubRows(p, years, competition), LAMBDA row : row[column])

ClubExpr(field, p, years, competition) ==
  LET goals == ClubSum(p, years, competition, "goals")
  IN  IF field \in Per90Fields THEN Per90(goals, ClubSum(p, years, competition, "minutes"))
                               ELSE << goals, 1 >>

ClubHaving(field, p, years, competition) ==
  field \in Per90Fields => ClubSum(p, years, competition, "minutes") > 0

QueryClubSeasons(field, dir, limit, years, competition) ==
  Limited(SortOrder({p \in ClubWhere(years, competition) : ClubHaving(field, p, years, competition)},
                    LAMBDA p : ClubExpr(field, p, years, competition),
                    LAMBDA p : ClubSum(p, years, competition, "minutes"), dir), limit)

(* get_approved_career: every season of the linked real player, newest     *)
(* first and within a season by appearances, here by minutes.              *)
ApprovedCareer(p) ==
  IF link[p] # "approved" THEN << >>
  ELSE SetToSortSeq(SeasonStats[p], LAMBDA one, other :
         \/ one.season > other.season
         \/ one.season = other.season /\ one.minutes > other.minutes)

-----------------------------------------------------------------------------
(* get_player_analysis: of the World Cup rows when there are some, of the  *)
(* club career otherwise.                                                  *)
PrimaryMetric(p) == IF PositionOf[p] = "GK" THEN "saves_per90" ELSE "goal_contributions_per90"

PercentileAmongPeers(metric, p) ==
  Percentile(PerNinetyOf(metric, p), Peers(PositionOf[p]), LAMBDA q : PerNinetyOf(metric, q))

PrimaryContributionPercentile(p) == PercentileAmongPeers(PrimaryMetric(p), p)

(* Elite, core, rotational, limited sample: the segments of the badge.     *)
TierForPercentile(percentile) ==
  CASE percentile >= 80 -> 3 [] percentile >= 50 -> 2 [] percentile >= 20 -> 1 [] OTHER -> 0

FullBreakdown(p) ==
  [metric \in {IF PositionOf[p] = "GK" THEN "saves_per90" ELSE "goals_per90"} |->
     [total |-> TotalOf(metric, p), perNinety |-> PerNinetyOf(metric, p),
      percentile |-> PercentileAmongPeers(metric, p)]]

PositionAverage(metric, position) ==
  IF Peers(position) = {} THEN 0
  ELSE Rounded(Total(Peers(position), LAMBDA q : PerNinetyOf(metric, q)), Cardinality(Peers(position)))

Benchmarks(p) ==
  [metric \in IF PositionOf[p] = "GK" THEN {"saves_per90"}
              ELSE {"goals_per90", "goal_contributions_per90"} |->
     [value |-> PerNinetyOf(metric, p), average |-> PositionAverage(metric, PositionOf[p])]]

(* The career totals behind the fallback; the search by name finds the     *)
(* real player the link would name.                                        *)
CareerTotals(p) ==
  [goals   |-> Total(SeasonStats[p], LAMBDA row : row.goals),
   minutes |-> Total(SeasonStats[p], LAMBDA row : row.minutes)]

GetPlayerAnalysis(p) ==
  CASE p \in DOMAIN playerStat ->
         [scope |-> "world cup", tier |-> TierForPercentile(PrimaryContributionPercentile(p)),
          breakdown |-> FullBreakdown(p), benchmarks |-> Benchmarks(p), career |-> ApprovedCareer(p)]
    [] p \notin DOMAIN playerStat /\ SeasonStats[p] # {} ->
         [scope |-> "club", totals |-> CareerTotals(p)]
    [] OTHER -> [scope |-> "not found"]

-----------------------------------------------------------------------------
(* The squad of a team tool: every player of the team, 0 without a row.    *)
Squad(t)  == {p \in Players : TeamOf[p] = t}
FactOf(p) == IF p \in DOMAIN playerStat THEN playerStat[p]
             ELSE [minutes |-> 0, goals |-> 0, assists |-> 0, saves |-> Null]

SquadOrder(players) ==
  SetToSortSeq(players, LAMBDA p, q :
    \/ FactOf(p).minutes > FactOf(q).minutes
    \/ FactOf(p).minutes = FactOf(q).minutes /\ NameRank[p] < NameRank[q])

PositionGroup(t, position) ==
  LET players == {p \in Squad(t) : PositionOf[p] = position}
  IN  [players |-> SquadOrder(players),
       perNinety |-> [p \in players |-> PerNinety(FactOf(p).goals, FactOf(p).minutes)],
       minutes |-> Total(players, LAMBDA p : FactOf(p).minutes),
       goals   |-> Total(players, LAMBDA p : FactOf(p).goals)]

(* Faulty variant: a leader need not have scored.                          *)
LeaderOfAll(t, column) ==
  LET best == {p \in Squad(t) : \A q \in Squad(t) : FactOf(p)[column] >= FactOf(q)[column]}
  IN  IF best = {} THEN {} ELSE {Head(SquadOrder(best))}

(* The top scorer, at most one: most goals, then minutes, then the name.   *)
Leader(t, column) ==
  LET eligible == {p \in Squad(t) : FactOf(p)[column] > 0}
      best     == {p \in eligible : \A q \in eligible : FactOf(p)[column] >= FactOf(q)[column]}
  IN  IF best = {} THEN {} ELSE {Head(SquadOrder(best))}

-----------------------------------------------------------------------------
(* Rankings, comparisons and analyses tell the same story: nobody ranked   *)
(* lower is ahead in the comparison, the ranked value is the compared one, *)
(* and nobody the limit left out is ahead of the last place.  Within a     *)
(* position a better value never has a lower percentile or tier, and an    *)
(* analysis gives the percentile a comparison gives.                       *)
Positions == Range(PositionOf)
RankingsAgreeWithComparisons ==
  /\ \A metric \in ComparisonMetrics, limit \in 1 .. Cardinality(Players) :
       LET ranked == QueryWorldCup(metric, "desc", limit, Teams, Positions)
           rest   == WorldCupBaseFilters(metric, Teams, Positions) \ Range(ranked)
           Ahead(p, q) == /\ Comparable(p, q) /\ metric \in RowsCompared(p, q)
                          /\ ComparisonRow(metric, p, q).aIsBetter
       IN  /\ \A i, j \in DOMAIN ranked : i < j => ~Ahead(ranked[j], ranked[i])
           /\ \A p \in rest, i \in DOMAIN ranked : ~Ahead(p, ranked[i])
           /\ \A p \in Range(ranked) : SortValue(metric, p) = PerNinetyOf(metric, p)
  /\ \A p, q \in Players :
       Comparable(p, q) =>
         /\ \A metric \in RowsCompared(p, q) :
              LET row == ComparisonRow(metric, p, q)
              IN  /\ PositionOf[p] = PositionOf[q] /\ row.aIsBetter => row.aPercentile >= row.bPercentile
                  /\ metric \in DOMAIN FullBreakdown(p) =>
                       FullBreakdown(p)[metric].percentile = row.aPercentile
         /\ /\ PositionOf[p] = PositionOf[q]
            /\ PerNinetyOf(PrimaryMetric(p), p) > PerNinetyOf(PrimaryMetric(q), q)
            => GetPlayerAnalysis(p).tier >= GetPlayerAnalysis(q).tier

(* A squad (Python, players with and without rows) and the ranking         *)
(* filtered to its team (SQL, players with rows) agree: the top scorer is  *)
(* as good as the first of the ranking, however each breaks the tie; a     *)
(* position lists the minutes the ranking lists; and the sums of the       *)
(* positions are the goals of the ranking.                                 *)
SquadsAgreeWithRankings ==
  \A t \in Teams :
    LET scorers == QueryWorldCup("goals", "desc", Cardinality(Players), {t}, Positions)
        leader  == Leader(t, "goals")
        Minutes(players) == [i \in DOMAIN players |-> FactOf(players[i]).minutes]
    IN  /\ leader = {} <=> \A p \in Range(scorers) : playerStat[p].goals = 0
        /\ \A p \in leader : /\ playerStat[p].goals   = playerStat[scorers[1]].goals
                             /\ playerStat[p].minutes = playerStat[scorers[1]].minutes
        /\ \A position \in Positions :
             LET byMinutes == QueryWorldCup("minutes", "desc", Cardinality(Players), {t}, {position})
                 listed    == PositionGroup(t, position).players
             IN  /\ Minutes(byMinutes) = Minutes(SelectSeq(listed, LAMBDA p : p \in DOMAIN playerStat))
                 /\ PositionGroup(t, position).goals = Total(Range(byMinutes), LAMBDA p : playerStat[p].goals)
                 /\ \A p \in Range(byMinutes) :
                      PositionGroup(t, position).perNinety[p] = PerNinetyOf("goals_per90", p)

(* Over all competitions and seasons a club ranking is the ranking of the  *)
(* careers the analyses show: the same players, each with the career's     *)
(* total, and nobody whose link no reviewer or rule approved.              *)
AllYears == UNION {{row.season : row \in SeasonStats[p]} : p \in Players}
ClubRankingIsOfApprovedCareers ==
  LET ranked     == QueryClubSeasons("goals", "desc", Cardinality(Players), AllYears, "all")
      CareerGoals(p) == FoldLeft(LAMBDA sum, row : sum + row.goals, 0, ApprovedCareer(p))
  IN  /\ Range(ranked) = {p \in Players : ApprovedCareer(p) # << >>}
      /\ \A p \in Range(ranked) :
           /\ ClubExpr("goals", p, AllYears, "all") = << CareerGoals(p), 1 >>
           /\ GetPlayerAnalysis(p).scope = "club" => GetPlayerAnalysis(p).totals.goals = CareerGoals(p)
      /\ \A i, j \in DOMAIN ranked : i < j => CareerGoals(ranked[i]) >= CareerGoals(ranked[j])
=============================================================================
