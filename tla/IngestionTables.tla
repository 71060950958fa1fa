--------------------------- MODULE IngestionTables ---------------------------
(***************************************************************************)
(* The tables the ingestion jobs write, reduced to their keys and foreign  *)
(* keys, and the statements of _SqlAlchemyIngestionRepository.  A row is a *)
(* function from column names; each statement is one transaction.          *)
(***************************************************************************)
EXTENDS Integers, FiniteSets, SequencesExt

CONSTANT Null

VARIABLES
  db,          (* The rows of each table.                                  *)
  nextTeamId   (* The sequence behind national_team.team_id (IDENTITY).    *)

tableVars == << db, nextTeamId >>

(* The columns of one row, and those of another that it lacks.             *)
Over(row, other) ==
  [c \in DOMAIN row \cup DOMAIN other |-> IF c \in DOMAIN row THEN row[c] ELSE other[c]]

(* conflict_columns of the synthetic tables.                               *)
SyntheticKeys ==
  [national_team |-> {"team_id"}, venue |-> {"venue_id"}, tournament_stage |-> {"stage_id"},
   referee |-> {"referee_id"}, player |-> {"player_id"}, match |-> {"match_id"},
   match_event |-> {"event_id"}, match_team_stat |-> {"match_id", "team_id"},
   match_lineup |-> {"lineup_id"}, player_stat |-> {"player_id"}]

(* conflict_columns of the Transfermarkt tables.                           *)
TransfermarktKeys ==
  [real_club |-> {"club_id"}, real_player |-> {"player_id"},
   real_player_valuation |-> {"real_player_id", "valuation_date"},
   real_transfer |-> {"real_player_id", "transfer_date"},
   real_game_lineup |-> {"game_lineups_id"}, real_match_event |-> {"game_event_id"},
   real_club_game |-> {"real_game_id", "real_club_id"},
   real_player_season_stat |-> {"real_player_id", "season", "competition_id"}]

ConflictColumns == Over(SyntheticKeys, TransfermarktKeys)
Tables          == DOMAIN ConflictColumns

(* The foreign keys of match, its children, and of the squads.             *)
SyntheticParents ==
  LET OfMatch  == [match_id |-> "match", team_id |-> "national_team"]
      OfPlayer == Over(OfMatch, [player_id |-> "player"])
  IN [player |-> [team_id |-> "national_team"],
      match |-> [stage_id |-> "tournament_stage", venue_id |-> "venue", referee_id |-> "referee",
                 home_team_id |-> "national_team", away_team_id |-> "national_team",
                 player_of_the_match_id |-> "player"],
      match_event |-> OfPlayer, match_lineup |-> OfPlayer, match_team_stat |-> OfMatch,
      player_stat |-> [player_id |-> "player", team_id |-> "national_team"]]

(* The foreign keys of real_match_data_schema.py.                          *)
MatchDataParents ==
  [real_game_lineup |-> [real_player_id |-> "real_player", real_club_id |-> "real_club"],
   real_match_event |-> [real_club_id |-> "real_club", real_player_id |-> "real_player",
                         player_in_id |-> "real_player", assist_player_id |-> "real_player"],
   real_club_game |-> [real_club_id |-> "real_club", opponent_club_id |-> "real_club"]]

(* The foreign keys of real_player_schema.py that a sync writes.           *)
PlayerDataParents ==
  [real_player |-> [current_club_id |-> "real_club"],
   real_player_valuation |-> [real_player_id |-> "real_player"],
   real_transfer |-> [real_player_id |-> "real_player",
                      from_club_id |-> "real_club", to_club_id |-> "real_club"],
   real_player_season_stat |-> [real_player_id |-> "real_player"]]

Parents ==
  LET known == Over(SyntheticParents, Over(MatchDataParents, PlayerDataParents))
  IN [t \in Tables |-> IF t \in DOMAIN known THEN known[t] ELSE << >>]

(* The foreign key columns declared nullable=True.                         *)
NullableColumns(t) ==
  CASE t = "real_player" -> {"current_club_id"}
    [] t = "real_transfer" -> {"from_club_id", "to_club_id"}
    [] t = "real_match_event" -> DOMAIN Parents[t]
    [] t = "real_club_game" -> {"opponent_club_id"}
    [] OTHER -> {}

(* The columns of national_team a writer may leave out.                    *)
OptionalColumns(t) ==
  IF t = "national_team" THEN [fifa_code |-> Null, transfermarkt_id |-> Null] ELSE << >>

KeyOf(t, row) == [c \in ConflictColumns[t] |-> row[c]]

(* A parent is referred to by the one column of its key.                   *)
IdColumn(t)       == CHOOSE c \in ConflictColumns[t] : TRUE
IdsIn(tables, t)  == {row[IdColumn(t)] : row \in tables[t]}
Ids(t)            == IdsIn(db, t)

(* ForeignKeyViolationError.                                               *)
Supported(t, row) ==
  \A c \in DOMAIN Parents[t] :
    IF row[c] = Null THEN c \in NullableColumns(t) ELSE row[c] \in Ids(Parents[t][c])
Refuses(t, rows) == \E row \in rows : ~Supported(t, row)

-----------------------------------------------------------------------------
(* Faulty variant of the next definition: the earlier row wins.            *)
DedupedFirst(t, chunk) ==
  {chunk[i] : i \in {k \in DOMAIN chunk :
                       \A l \in 1..(k - 1) : KeyOf(t, chunk[l]) # KeyOf(t, chunk[k])}}

(* One INSERT may not touch a row twice: the later row of a chunk wins.    *)
Deduped(t, chunk) ==
  {chunk[i] : i \in {k \in DOMAIN chunk :
                       \A l \in (k + 1)..Len(chunk) : KeyOf(t, chunk[l]) # KeyOf(t, chunk[k])}}

(* INSERT ... ON CONFLICT DO UPDATE: the payload's columns are set, the    *)
(* others keep what they had.                                              *)
Upserted(t, rows) ==
  LET Old(row) == {old \in db[t] : KeyOf(t, old) = KeyOf(t, row)}
      New(row) == Over(row, IF Old(row) = {} THEN OptionalColumns(t)
                            ELSE CHOOSE old \in Old(row) : TRUE)
  IN {old \in db[t] : \A row \in rows : KeyOf(t, row) # KeyOf(t, old)} \cup {New(row) : row \in rows}

(* update_matched on team_id: one UPDATE per row, in the given order.      *)
(* UNIQUE (transfermarkt_id) refuses an id another row still has.          *)
MatchTeam(acc, row) ==
  [ok    |-> acc.ok /\ \A team \in acc.teams :
                         team.transfermarkt_id = row.transfermarkt_id => team.team_id = row.team_id,
   next  |-> acc.next,
   teams |-> {IF team.team_id = row.team_id THEN Over(row, team) ELSE team : team \in acc.teams}]

(* upsert_many on transfermarkt_id: team_id is left out of the payload, so *)
(* every proposed row draws an id from the sequence, also one that turns   *)
(* out to exist; an id somebody inserted by hand is a primary key violation. *)
CreateTeam(acc, row) ==
  LET old == {team \in acc.teams : team.transfermarkt_id = row.transfermarkt_id}
      new == Over(Over(row, [team_id |-> acc.next]), OptionalColumns("national_team"))
  IN IF ~acc.ok THEN acc
     ELSE [ok    |-> old # {} \/ \A team \in acc.teams : team.team_id # acc.next,
           next  |-> acc.next + 1,
           teams |-> IF old # {} THEN (acc.teams \ old) \cup {Over(row, team) : team \in old}
                     ELSE acc.teams \cup {new}]

TeamsWritten(how, rows) ==
  LET written[n \in 0 .. Len(rows)] ==
        IF n = 0 THEN [ok |-> TRUE, next |-> nextTeamId, teams |-> db["national_team"]]
        ELSE IF how = "match" THEN MatchTeam(written[n - 1], rows[n])
        ELSE CreateTeam(written[n - 1], rows[n])
  IN  written[Len(rows)]
=============================================================================
