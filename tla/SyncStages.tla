------------------------------ MODULE SyncStages ------------------------------
(***************************************************************************)
(* What each stage of a Transfermarkt sync writes: the rows of an export   *)
(* that are in scope, with the references the tables cannot hold nulled.   *)
(* An export is a sequence of rows per source, in the source's columns.    *)
(***************************************************************************)
EXTENDS IngestionTables

CONSTANT Export

IsSequence(s) == s \in Seq(Range(s))

Stages == << "national_teams", "clubs", "players", "player_valuations", "transfers",
             "game_lineups", "game_events", "club_games", "real_player_season_stat" >>

TableOf ==
  [national_teams |-> "national_team", clubs |-> "real_club", players |-> "real_player",
   player_valuations |-> "real_player_valuation", transfers |-> "real_transfer",
   game_lineups |-> "real_game_lineup", game_events |-> "real_match_event",
   club_games |-> "real_club_game", real_player_season_stat |-> "real_player_season_stat"]

(* The source column each column of a table is read from (row_transform).  *)
SourceColumns ==
  [clubs |-> [club_id |-> "club_id"],
   players |-> [player_id |-> "player_id", current_club_id |-> "current_club_id"],
   player_valuations |-> [real_player_id |-> "player_id", valuation_date |-> "date"],
   transfers |-> [real_player_id |-> "player_id", transfer_date |-> "transfer_date",
                  from_club_id |-> "from_club_id", to_club_id |-> "to_club_id"],
   game_lineups |-> [game_lineups_id |-> "game_lineups_id", real_player_id |-> "player_id",
                     real_club_id |-> "club_id"],
   game_events |-> [game_event_id |-> "game_event_id", real_club_id |-> "club_id",
                    real_player_id |-> "player_id", player_in_id |-> "player_in_id",
                    assist_player_id |-> "player_assist_id"],
   club_games |-> [real_game_id |-> "game_id", real_club_id |-> "club_id",
                   opponent_club_id |-> "opponent_id"]]

(* An export has the columns that are read, and parse_int reads the ids of *)
(* clubs.csv and players.csv: none is missing.                             *)
ASSUME ExportAssumption ==
  /\ \A source \in DOMAIN SourceColumns \cup {"national_teams", "appearances"} :
       IsSequence(Export[source])
  /\ \A source \in DOMAIN SourceColumns : \A r \in Range(Export[source]) :
       Range(SourceColumns[source]) \subseteq DOMAIN r
  /\ \A club \in Range(Export.clubs) : club.club_id # Null
  /\ \A player \in Range(Export.players) : player.player_id # Null

(* _sanitize_club_reference and _sanitize_player_reference.                *)
Sanitized(row, columns, known) ==
  [c \in DOMAIN row |-> IF c \in columns /\ row[c] \notin known THEN Null ELSE row[c]]

Parsed(source, rows) ==
  [i \in DOMAIN rows |-> [c \in DOMAIN SourceColumns[source] |-> rows[i][SourceColumns[source][c]]]]

Mapped(rows, Op(_)) == [i \in DOMAIN rows |-> Op(rows[i])]

(* The rows that are in a set, in their order.                             *)
Kept(rows, wanted) ==
  LET kept[n \in 0 .. Len(rows)] ==
        IF n = 0 THEN << >>
        ELSE IF rows[n] \in wanted THEN Append(kept[n - 1], rows[n]) ELSE kept[n - 1]
  IN  kept[Len(rows)]

(* The rows of a source that refer, in a column, to one of the ids.        *)
Referring(source, column, ids) == {row \in Range(Export[source]) : row[column] \in ids}

-----------------------------------------------------------------------------
(* A WC2026 team is matched by its name, or else by its code; a team       *)
(* without a code that no longer matches by name makes _normalize raise.   *)
CountriesOf(team, name) == {i \in DOMAIN Export.national_teams : Export.national_teams[i].country_name = name}

Resolvable(teams) ==
  \A team \in teams : team.fifa_code = Null => CountriesOf(team, team.team_name) # {}

(* resolve_national_teams, in the order of team_id.                        *)
ResolvedTeams(teams) ==
  LET Found(team) == IF CountriesOf(team, team.team_name) # {}
                     THEN CountriesOf(team, team.team_name) ELSE CountriesOf(team, team.fifa_code)
      matched == {team \in teams : Found(team) # {}}
  IN [i \in 1..Cardinality(matched) |->
        LET team == SetToSortSeq(matched, LAMBDA a, b : a.team_id < b.team_id)[i]
        IN [team_id |-> team.team_id,
            transfermarkt_id |-> Export.national_teams[CHOOSE n \in Found(team) :
                                   \A o \in Found(team) : o <= n].national_team_id]]

(* The countries without a WC2026 team.                                    *)
NewTeams(teams) ==
  LET matched == {row.transfermarkt_id : row \in Range(ResolvedTeams(teams))}
      unknown == Kept(Export.national_teams, {row \in Range(Export.national_teams) :
                                                row.national_team_id \notin matched})
  IN Mapped(unknown, LAMBDA row : [team_name |-> row.country_name,
                                   transfermarkt_id |-> row.national_team_id])

-----------------------------------------------------------------------------
(* Faulty variant of the next definition: no club is blanked.              *)
PlayerRowsAsTheyCome(clubs) == Parsed("players", Export.players)

PlayerRows(clubs) ==
  Parsed("players", Mapped(Export.players, LAMBDA row : Sanitized(row, {"current_club_id"}, clubs)))

(* The clubs of the sanitized players: the scope of the match data.        *)
ClubsOfPlayers(clubs) == {row.current_club_id : row \in Range(PlayerRows(clubs))} \ {Null}

ValuationRows(players) ==
  Parsed("player_valuations",
         Kept(Export.player_valuations, Referring("player_valuations", "player_id", players)))

TransferRows(players, clubs) ==
  Parsed("transfers",
         Mapped(Kept(Export.transfers, Referring("transfers", "player_id", players)),
                LAMBDA row : Sanitized(row, {"from_club_id", "to_club_id"}, clubs)))

(* real_club_id is NOT NULL: a row of an unknown club is left out.         *)
LineupRows(players, clubs) ==
  Parsed("game_lineups",
         Kept(Export.game_lineups, Referring("game_lineups", "player_id", players)
                                   \cap Referring("game_lineups", "club_id", clubs)))

EventRows(players, clubs, playerClubs) ==
  LET scoped == Kept(Export.game_events, Referring("game_events", "player_id", players)
                                         \cup Referring("game_events", "club_id", playerClubs))
  IN Parsed("game_events",
            Mapped(scoped, LAMBDA row :
              Sanitized(Sanitized(row, {"club_id"}, clubs),
                        {"player_id", "player_in_id", "player_assist_id"}, players)))

ClubGameRows(clubs, playerClubs) ==
  Parsed("club_games",
         Mapped(Kept(Export.club_games, Referring("club_games", "club_id", playerClubs)),
                LAMBDA row : Sanitized(row, {"opponent_id"}, clubs)))

(* The key an appearance is grouped under.                                 *)
GroupOf(row) ==
  LET game == CHOOSE g \in Range(Export.games) : g.game_id = row.game_id
  IN [real_player_id |-> row.player_id, season |-> game.season, competition_id |-> game.competition_id]

(* One more appearance, in the group it belongs to or in a new one.        *)
Counted(sums, row) ==
  LET same == {i \in DOMAIN sums : KeyOf("real_player_season_stat", sums[i]) = GroupOf(row)}
  IN IF same = {} THEN Append(sums, Over(GroupOf(row), [appearances |-> 1, goals |-> row.goals]))
     ELSE [i \in DOMAIN sums |->
             IF i \in same THEN [sums[i] EXCEPT !.appearances = @ + 1, !.goals = @ + row.goals]
             ELSE sums[i]]

(* SeasonStatAggregationService.aggregate; the order of groups is that of  *)
(* their first appearance.                                                 *)
SeasonStatRows(players) ==
  LET scoped == Kept(Export.appearances, Referring("appearances", "player_id", players))
      stats[n \in 0 .. Len(scoped)] == IF n = 0 THEN << >> ELSE Counted(stats[n - 1], scoped[n])
  IN stats[Len(scoped)]

(* An appearance of a game that is not in games.csv raises.                *)
Aggregable(players) ==
  \A row \in Range(Export.appearances) :
    row.player_id \in players => \E game \in Range(Export.games) : game.game_id = row.game_id

(* The rows of a stage, given what the job holds known.                    *)
StageRows(stage, seen) ==
  CASE stage = "clubs"             -> Parsed("clubs", Export.clubs)
    [] stage = "players"           -> PlayerRows(seen.clubs)
    [] stage = "player_valuations" -> ValuationRows(seen.players)
    [] stage = "transfers"         -> TransferRows(seen.players, seen.clubs)
    [] stage = "game_lineups"      -> LineupRows(seen.players, seen.clubs)
    [] stage = "game_events"       -> EventRows(seen.players, seen.clubs, seen.playerClubs)
    [] stage = "club_games"        -> ClubGameRows(seen.clubs, seen.playerClubs)
    [] stage = "real_player_season_stat" -> SeasonStatRows(seen.players)

(* What a sync that skips nothing holds known after its PLAYERS stage.     *)
AllKnown ==
  LET clubs == {row.club_id : row \in Range(Export.clubs)}
  IN [clubs |-> clubs, players |-> {row.player_id : row \in Range(Export.players)},
      playerClubs |-> ClubsOfPlayers(clubs)]
=============================================================================
