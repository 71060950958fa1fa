--------------------------- MODULE MCDataIngestion ---------------------------
(* Instances of DataIngestion for TLC. *)
EXTENDS DataIngestion

CONSTANTS j1, j2, j3

ThreeJobs == {j1, j2, j3}

Country(id, name) == [national_team_id |-> id, country_name |-> name]
Player(id, club)  == [player_id |-> id, current_club_id |-> club]

(* c9 and p9 are in no clubs.csv and players.csv.                          *)
SmallExport ==
  [national_teams |-> << Country("m1", "Mexico"), Country("m2", "Albania") >>,
   clubs |-> << [club_id |-> "c1"], [club_id |-> "c2"], [club_id |-> "c3"] >>,
   players |-> << Player("p1", "c1"), Player("p2", "c9"), Player("p3", "c3") >>,
   player_valuations |-> << [player_id |-> "p1", date |-> "d1"], [player_id |-> "p9", date |-> "d1"] >>,
   transfers |-> << [player_id |-> "p1", transfer_date |-> "d1", from_club_id |-> "c9", to_club_id |-> "c1"],
                    [player_id |-> "p3", transfer_date |-> "d1", from_club_id |-> "c1", to_club_id |-> "c3"],
                    [player_id |-> "p1", transfer_date |-> "d1", from_club_id |-> "c3", to_club_id |-> "c1"] >>,
   game_lineups |-> << [game_lineups_id |-> "l1", player_id |-> "p3", club_id |-> "c3"],
                       [game_lineups_id |-> "l2", player_id |-> "p1", club_id |-> "c9"] >>,
   game_events |-> << [game_event_id |-> "e1", club_id |-> "c9", player_id |-> "p3",
                       player_in_id |-> "p9", player_assist_id |-> Null],
                      [game_event_id |-> "e2", club_id |-> "c1", player_id |-> "p9",
                       player_in_id |-> Null, player_assist_id |-> "p2"] >>,
   club_games |-> << [game_id |-> "g1", club_id |-> "c3", opponent_id |-> "c9"],
                     [game_id |-> "g1", club_id |-> "c9", opponent_id |-> "c3"] >>,
   games |-> << [game_id |-> "g1", season |-> "s1", competition_id |-> "cup"],
                [game_id |-> "g2", season |-> "s1", competition_id |-> "league"] >>,
   appearances |-> << [player_id |-> "p1", game_id |-> "g1", goals |-> 2],
                      [player_id |-> "p1", game_id |-> "g1", goals |-> 1],
                      [player_id |-> "p1", game_id |-> "g2", goals |-> 1],
                      [player_id |-> "p9", game_id |-> "g1", goals |-> 1] >>]

Team(id, name, elo) == [team_id |-> id, team_name |-> name, fifa_code |-> name, elo_rating |-> elo]
File(name, rows)    == [name |-> name, rows |-> rows]

(* A complete data set, a repeated team among it, in an unhelpful order.   *)
AllFiles ==
  << File("player_stats", << [player_id |-> 7, team_id |-> 1] >>),
     File("match_lineups", << [lineup_id |-> 1, match_id |-> 1, player_id |-> 7, team_id |-> 1] >>),
     File("notes", << >>),
     File("match_team_stats", << [match_id |-> 1, team_id |-> 1] >>),
     File("match_events", << [event_id |-> 1, match_id |-> 1, team_id |-> 1, player_id |-> 7] >>),
     File("matches", << [match_id |-> 1, stage_id |-> 1, venue_id |-> 1, referee_id |-> 1,
                         home_team_id |-> 1, away_team_id |-> 2, player_of_the_match_id |-> 7] >>),
     File("squads_and_players", << [player_id |-> 7, team_id |-> 1] >>),
     File("referees", << [referee_id |-> 1] >>),
     File("tournament_stages", << [stage_id |-> 1] >>),
     File("venues", << [venue_id |-> 1] >>),
     File("teams", << Team(1, "Mexico", 1), Team(1, "Mexico", 2), Team(2, "Brazil", 1) >>) >>

Twice == << File("teams", << Team(1, "Mexico", 1) >>), File("squads_and_players", << >>),
            File("teams", << Team(1, "Mexico", 2) >>) >>

Orphans == << File("squads_and_players", << [player_id |-> 7, team_id |-> 5] >>) >>

Empty  == [db |-> [t \in Tables |-> {}], nextTeamId |-> 1]
Seeded == [db |-> [Empty.db EXCEPT !["national_team"] =
                     {Team(1, "Mexico", 1) @@ OptionalColumns("national_team")}], nextTeamId |-> 2]
BothStarts == {Empty, Seeded}

Asks(kind, files) == [kind |-> kind, files |-> files]
SyncResumeUpload ==
  [j \in Jobs |-> IF j = j1 THEN {Asks("sync", << >>)}
                  ELSE IF j = j2 THEN {Asks("resume", << >>), Asks("bulk", AllFiles)}
                  ELSE {Asks("bulk", Twice), Asks("bulk", Orphans), Asks("single", << AllFiles[11] >>)}]

(* The instance is one that the theorem on resumed syncs speaks of.        *)
ASSUME ResumeAssumption == StartsWhole /\ PlayersAreUnique

AllWorkFaults == {"queue", "work", "crash"}
=============================================================================
