------------------------------ MODULE TeamTools ------------------------------
(***************************************************************************)
(* get_team_analysis and get_team_comparison.  The two tools compute the   *)
(* record of a team, its standing, its results and its discipline in code  *)
(* of their own (team_analytics_repository and _team_comparison_side), the *)
(* group table in SQL of its own, and the comparison's notes beside its    *)
(* table of values.  A tool's queries are taken at one state of the tables.*)
(***************************************************************************)
EXTENDS TournamentTables

Plays(f, t)        == t \in {Home[f], Away[f]}
IsHome(f, t)       == Home[f] = t
Opponent(f, t)     == IF IsHome(f, t) THEN Away[f] ELSE Home[f]
KickOffOrder       == SetToSortSeq(Fixtures, <)
MatchesOf(t)       == SelectSeq(KickOffOrder, LAMBDA f : f \in DOMAIN match /\ Plays(f, t))
ScoreFor(f, t)     == IF IsHome(f, t) THEN match[f].home ELSE match[f].away
ScoreAgainst(f, t) == IF IsHome(f, t) THEN match[f].away ELSE match[f].home

(* Penalties are << home, away >>.                                         *)
PensWon(f, t) == IF IsHome(f, t) THEN match[f].pens[1] > match[f].pens[2]
                                 ELSE match[f].pens[2] > match[f].pens[1]
Letter(f, t)  == CASE ScoreFor(f, t) > ScoreAgainst(f, t) -> "W"
                   [] ScoreFor(f, t) < ScoreAgainst(f, t) -> "L"
                   [] OTHER -> "D"

-----------------------------------------------------------------------------
(* get_team_analysis.                                                      *)

(* Faulty variant: a shootout leaves a draw.                               *)
MatchOutcomeOfScores(f, t) == Letter(f, t)

MatchOutcome(f, t) ==
  IF match[f].pens # NoShootout THEN (IF PensWon(f, t) THEN "W" ELSE "L") ELSE Letter(f, t)

Outcomes(t, letter) == {f \in DOMAIN match : Plays(f, t) /\ MatchOutcome(f, t) = letter}
BuildRecord(t) ==
  [won |-> Cardinality(Outcomes(t, "W")), drawn |-> Cardinality(Outcomes(t, "D")),
   lost |-> Cardinality(Outcomes(t, "L")),
   goalsFor     |-> Total(Range(MatchesOf(t)), LAMBDA f : ScoreFor(f, t)),
   goalsAgainst |-> Total(Range(MatchesOf(t)), LAMBDA f : ScoreAgainst(f, t))]

BuildMatchResults(t) ==
  LET ResultOf(f) == [stage |-> StageOf[f], opponent |-> Opponent(f, t),
                      score |-> << ScoreFor(f, t), ScoreAgainst(f, t) >>,
                      result |-> MatchOutcome(f, t)]
  IN  [i \in DOMAIN MatchesOf(t) |-> ResultOf(MatchesOf(t)[i])]

BuildStandingLabel(t) ==
  LET LabelAfter(last) ==
        IF MatchOutcome(last, t) # "L" THEN << StageOf[last], "unbeaten so far" >>
        ELSE << StageOf[last], "out", ScoreFor(last, t), ScoreAgainst(last, t), Opponent(last, t) >>
  IN  IF MatchesOf(t) = << >> THEN << "Did not qualify" >> ELSE LabelAfter(Last(MatchesOf(t)))

CountCleanSheets(t) == Cardinality({f \in Range(MatchesOf(t)) : ScoreAgainst(f, t) = 0})

(* Every match_team_stat row of the team, whatever its match.              *)
StatsOf(t) == {f \in teamStat : Plays(f, t)}
AverageOf(t, column) == Per(Total(StatsOf(t), LAMBDA f : StatLine[f][t][column]),
                            Cardinality(StatsOf(t)))
Yellows(t) ==
  Total(event, LAMBDA f :
    Len(SelectSeq(EventsIn[f], LAMBDA e : e.type = "Yellow Card" /\ e.team = t)))

(* Two teams per match: the field's rate is one per team and match.        *)
FieldYellowPerMatch == Per(Total(Teams, Yellows), 2 * Cardinality(DOMAIN match))

TeamAnalysis(t) ==
  LET record == BuildRecord(t) IN
  [record    |-> record,
   standing  |-> BuildStandingLabel(t),
   results   |-> BuildMatchResults(t),
   goalDifference  |-> record.goalsFor - record.goalsAgainst,
   concededPerGame |-> Per(record.goalsAgainst, Len(MatchesOf(t))),
   cleanSheets     |-> CountCleanSheets(t),
   shots           |-> AverageOf(t, "shots"),
   fouls           |-> Total(StatsOf(t), LAMBDA f : StatLine[f][t].fouls),
   yellows         |-> Yellows(t),
   yellowPerMatch  |-> Per(Yellows(t), Len(MatchesOf(t))),
   fieldYellow     |-> FieldYellowPerMatch]

-----------------------------------------------------------------------------
(* One side of get_team_comparison.                                        *)

Outcome(f, t) ==
  IF match[f].pens # NoShootout THEN (IF PensWon(f, t) THEN "W" ELSE "L") ELSE Letter(f, t)

RecordAndRates(t) ==
  LET Add(sum, f, letter) ==
        [won   |-> sum.won   + IF letter = "W" THEN 1 ELSE 0,
         drawn |-> sum.drawn + IF letter = "D" THEN 1 ELSE 0,
         lost  |-> sum.lost  + IF letter = "L" THEN 1 ELSE 0,
         goalsFor     |-> sum.goalsFor + ScoreFor(f, t),
         goalsAgainst |-> sum.goalsAgainst + ScoreAgainst(f, t),
         cleanSheets  |-> sum.cleanSheets + IF ScoreAgainst(f, t) = 0 THEN 1 ELSE 0]
  IN  FoldLeft(LAMBDA sum, f : Add(sum, f, Outcome(f, t)),
               [won |-> 0, drawn |-> 0, lost |-> 0,
                goalsFor |-> 0, goalsAgainst |-> 0, cleanSheets |-> 0], MatchesOf(t))

Standing(played, t) ==
  IF played = << >> THEN << "Did not qualify" >>
  ELSE IF Outcome(Last(played), t) # "L" THEN << StageOf[Last(played)], "unbeaten so far" >>
  ELSE << StageOf[Last(played)], "out", ScoreFor(Last(played), t),
          ScoreAgainst(Last(played), t), Opponent(Last(played), t) >>

MatchResult(f, t) ==
  [stage |-> StageOf[f], opponent |-> Opponent(f, t),
   score |-> << ScoreFor(f, t), ScoreAgainst(f, t) >>, result |-> Outcome(f, t)]
MatchResults(played, t) == [i \in DOMAIN played |-> MatchResult(played[i], t)]

NullPens == -1

(* _points_expr, for one side of one match: 3, 1 or 0.                     *)
PointsExpr(score, other, pens, otherPens) ==
  CASE pens # NullPens /\ otherPens # NullPens -> IF pens > otherPens THEN 3 ELSE 0
    [] score > other -> 3
    [] score = other -> 1
    [] OTHER -> 0

Pens(f, i) == IF match[f].pens = NoShootout THEN NullPens ELSE match[f].pens[i]

(* The UNION ALL of the home and the away sides of the group stage.        *)
GroupRows(t) ==
  {f \in DOMAIN match : StageOf[f] \notin Knockout /\ Plays(f, t)}
(* Faulty variant: the away rows keep the home columns' order.             *)
GroupTableOfHomeColumns(t) ==
  [played |-> Cardinality(GroupRows(t)),
   points |-> Total(GroupRows(t), LAMBDA f :
                PointsExpr(match[f].home, match[f].away, Pens(f, 1), Pens(f, 2))),
   goalDifference |-> Total(GroupRows(t), LAMBDA f : match[f].home - match[f].away)]

GroupTable(t) ==
  [played |-> Cardinality(GroupRows(t)),
   points |-> Total(GroupRows(t), LAMBDA f :
                IF IsHome(f, t)
                THEN PointsExpr(match[f].home, match[f].away, Pens(f, 1), Pens(f, 2))
                ELSE PointsExpr(match[f].away, match[f].home, Pens(f, 2), Pens(f, 1))),
   goalDifference |-> Total(GroupRows(t), LAMBDA f :
                IF IsHome(f, t) THEN match[f].home - match[f].away
                                ELSE match[f].away - match[f].home)]

(* Shots, fouls and cards are counted over the matches that have them, the *)
(* goals over all of them.                                                 *)
ComparedValues(t, sum, matches, shots, onTarget, fouls, withStats) ==
  [goal_difference_per_game |-> Per(sum.goalsFor - sum.goalsAgainst, matches),
   goals_per_game     |-> Per(sum.goalsFor, matches),
   conceded_per_game  |-> Per(sum.goalsAgainst, matches),
   shots_per_game     |-> Per(shots, withStats),
   shot_accuracy_pct  |-> SharePct(onTarget, shots),
   conversion_pct     |-> SharePct(sum.goalsFor, onTarget),
   clean_sheets_per_game |-> Per(sum.cleanSheets, matches),
   fouls_per_game     |-> Per(fouls, withStats),
   yellow_per_match   |-> Per(Yellows(t), matches),
   group_points       |-> 100 * GroupTable(t).points]

ComparedSide(t, sum, played, shots, onTarget, fouls) ==
  [record   |-> [won |-> sum.won, drawn |-> sum.drawn, lost |-> sum.lost,
                 goalsFor |-> sum.goalsFor, goalsAgainst |-> sum.goalsAgainst],
   standing |-> Standing(played, t),
   results  |-> MatchResults(played, t),
   group    |-> GroupTable(t),
   goalDifference |-> sum.goalsFor - sum.goalsAgainst,
   cleanSheets    |-> sum.cleanSheets,
   fouls          |-> fouls,
   yellows        |-> Yellows(t),
   values         |-> ComparedValues(t, sum, Len(played), shots, onTarget, fouls,
                                     Cardinality(StatsOf(t)))]

ComparedTeam(t) ==
  LET Column(c) == Total(StatsOf(t), LAMBDA f : StatLine[f][t][c])
  IN  ComparedSide(t, RecordAndRates(t), MatchesOf(t),
                   Column("shots"), Column("onTarget"), Column("fouls"))

(* _field and the mean of _group_table.                                    *)
Field ==
  LET teamMatches == 2 * Cardinality(DOMAIN match)
      Column(c)   == Total(teamStat, LAMBDA f : StatLine[f][Home[f]][c] + StatLine[f][Away[f]][c])
      goals       == Total(DOMAIN match, LAMBDA f : match[f].home + match[f].away)
      ranked      == {t \in Teams : GroupRows(t) # {}}
  IN  [goal_difference_per_game |-> 0,
       goals_per_game     |-> Per(goals, teamMatches),
       conceded_per_game  |-> Per(goals, teamMatches),
       shots_per_game     |-> Per(Column("shots"), 2 * Cardinality(teamStat)),
       shot_accuracy_pct  |-> SharePct(Column("onTarget"), Column("shots")),
       conversion_pct     |-> SharePct(goals, Column("onTarget")),
       clean_sheets_per_game |->
         Per(Cardinality({f \in DOMAIN match : match[f].away = 0}) +
             Cardinality({f \in DOMAIN match : match[f].home = 0}), teamMatches),
       fouls_per_game     |-> Per(Column("fouls"), 2 * Cardinality(teamStat)),
       yellow_per_match   |-> Per(Total(Teams, Yellows), teamMatches),
       group_points       |-> Per(Total(ranked, LAMBDA t : GroupTable(t).points),
                                  Cardinality(ranked))]

-----------------------------------------------------------------------------
(* The comparison of two sides.  A metric is noted from a difference of a  *)
(* fifth of its scale on, here in the units of Per and SharePct; its weight *)
(* makes the differences of two metrics comparable.                        *)
Metric(key, higher, edge) == [key |-> key, higher |-> higher, edge |-> edge, weight |-> 240 \div edge]
Metrics ==
  << Metric("goal_difference_per_game", TRUE, 20), Metric("goals_per_game", TRUE, 20),
     Metric("conceded_per_game", FALSE, 20),       Metric("shots_per_game", TRUE, 80),
     Metric("shot_accuracy_pct", TRUE, 20),        Metric("conversion_pct", TRUE, 20),
     Metric("clean_sheets_per_game", TRUE, 10),    Metric("fouls_per_game", FALSE, 60),
     Metric("yellow_per_match", FALSE, 20),        Metric("group_points", TRUE, 60) >>

Better(metric, one, other) == IF metric.higher THEN one > other ELSE one < other

ComparedStat(metric, va, vb) ==
  [label |-> metric.key, a |-> va, b |-> vb,
   aIsBetter |-> Better(metric, va, vb), bIsBetter |-> Better(metric, vb, va)]
ComparedStats(a, b) ==
  LET valuesA == ComparedTeam(a).values
      valuesB == ComparedTeam(b).values
  IN  [i \in DOMAIN Metrics |->
         ComparedStat(Metrics[i], valuesA[Metrics[i].key], valuesB[Metrics[i].key])]

GroupEdge(a, b) ==
  GroupTable(a).played = GroupTable(b).played /\ GroupTable(a).played > 0

(* Faulty variant: only one of the two differences is turned round.        *)
AdvantageUnsigned(metric, own, other) == own - other

(* How far the own value is ahead, negative when it is behind.             *)
Advantage(metric, own, other) == IF metric.higher THEN own - other ELSE other - own

(* The largest differences, here as a set.                                  *)
NoteLimit == 3
Notes(own, other) ==
  LET mine   == ComparedTeam(own).values
      theirs == ComparedTeam(other).values
      field  == Field
      noted  == {[metric |-> i,
                  gap    |-> Advantage(Metrics[i], mine[Metrics[i].key], theirs[Metrics[i].key]),
                  versus |-> Advantage(Metrics[i], mine[Metrics[i].key], field[Metrics[i].key])]
                 : i \in {j \in DOMAIN Metrics :
                            Metrics[j].key = "group_points" => GroupEdge(own, other)}}
      Size(n) == (IF n.gap < 0 THEN -n.gap ELSE n.gap) * Metrics[n.metric].weight
      Before(m, n) == Size(m) > Size(n) \/ (Size(m) = Size(n) /\ m.metric < n.metric)
      Largest(notes) ==
        {n.metric : n \in {k \in notes : Cardinality({m \in notes : Before(m, k)}) < NoteLimit}}
  IN  [strengths |-> Largest({n \in noted : n.gap >= Metrics[n.metric].edge /\ n.versus > 0}),
       flaws     |-> Largest({n \in noted : n.gap <= -Metrics[n.metric].edge /\ n.versus < 0})]

Meetings(a, b) ==
  LET met == SelectSeq(MatchesOf(a), LAMBDA f : {Home[f], Away[f]} = {a, b})
      Row(f) == [match |-> f,
                 a |-> IF IsHome(f, a) THEN match[f].home ELSE match[f].away,
                 b |-> IF IsHome(f, a) THEN match[f].away ELSE match[f].home,
                 aResult |-> Outcome(f, a)]
  IN  [i \in DOMAIN met |-> Row(met[i])]

-----------------------------------------------------------------------------
(* The analysis of a team and its side of a comparison tell the same of    *)
(* its results, shootouts and corrected results included (outcome:         *)
(* "matching get_team_analysis").                                          *)
ToolsAgreeOnATeam ==
  \A t \in Teams :
    LET analysis == TeamAnalysis(t)
        side     == ComparedTeam(t)
    IN  /\ \A field \in {"record", "standing", "results", "goalDifference", "cleanSheets"} :
             analysis[field] = side[field]
        /\ analysis.concededPerGame = side.values.conceded_per_game

(* The tournament adds up: every win is another team's loss, the group     *)
(* table (SQL) is what the teams' group results (Python) are worth, and    *)
(* the field's benchmarks are those of the teams taken together.           *)
TournamentAddsUp ==
  LET Sum(of(_)) == Total(Teams, of)
      side       == [t \in Teams |-> ComparedTeam(t)]
      played     == Sum(LAMBDA t : Len(side[t].results))
      Worth(t)   == FoldLeft(LAMBDA points, result :
                      points + (IF result.stage \in Knockout THEN 0
                                ELSE CASE result.result = "W" -> 3 [] result.result = "D" -> 1
                                       [] OTHER -> 0), 0, side[t].results)
  IN  /\ Sum(LAMBDA t : side[t].record.won) = Sum(LAMBDA t : side[t].record.lost)
      /\ Sum(LAMBDA t : side[t].record.goalsFor) = Sum(LAMBDA t : side[t].record.goalsAgainst)
      /\ \A t \in Teams : side[t].group.points = Worth(t)
      /\ Sum(LAMBDA t : side[t].group.goalDifference) = 0
      /\ Field.goals_per_game = Per(Sum(LAMBDA t : side[t].record.goalsFor), played)
      /\ Field.clean_sheets_per_game = Per(Sum(LAMBDA t : side[t].cleanSheets), played)
      /\ Field.yellow_per_match = Per(Sum(LAMBDA t : side[t].yellows), played)

(* A comparison has no favourite: asked the other way round it gives the   *)
(* mirror image, and what it notes as a side's strength (or flaw) is a     *)
(* value its table shows that side ahead (or behind) on.                   *)
Mirrored(letter) == CASE letter = "W" -> "L" [] letter = "L" -> "W" [] OTHER -> "D"
ComparisonMirrors ==
  \A a \in Teams, b \in Teams :
    a # b =>
      LET table  == ComparedStats(a, b)
          ours   == Notes(a, b)
          theirs == Notes(b, a)
          met    == Meetings(a, b)
          metBy  == Meetings(b, a)
      IN  /\ \A i \in DOMAIN met :
               /\ << met[i].match, met[i].a, met[i].b >> = << metBy[i].match, metBy[i].b, metBy[i].a >>
               /\ met[i].aResult = Mirrored(metBy[i].aResult)
          /\ \A i \in ours.strengths :
               table[i].aIsBetter /\ i \notin theirs.strengths
          /\ \A i \in ours.flaws :
               table[i].bIsBetter /\ i \notin theirs.flaws
=============================================================================
