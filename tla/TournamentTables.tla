--------------------------- MODULE TournamentTables ---------------------------
(***************************************************************************)
(* The tables the chat tools read, and the commits that fill them: results *)
(* and their details arrive file by file (bulk or single uploads, in any   *)
(* order the foreign keys allow, again when a result is corrected), links  *)
(* are reviewed meanwhile.  The model's numbers are the columns the tools  *)
(* treat differently: shots, shots on target and fouls stand for the six   *)
(* averaged columns of match_team_stat, goals and saves for the totals and *)
(* the nullable totals of player_stat.                                     *)
(***************************************************************************)
EXTENDS Integers, Sequences, SequencesExt, FiniteSetsExt, Functions

CONSTANTS
  Teams, Players,
  Fixtures,             (* Match ids, in kick-off order.                   *)
  Home, Away, StageOf,  (* Functions on Fixtures.                          *)
  Knockout,             (* Stages with is_knockout.                        *)
  MaxGoals,             (* Bound: goals of a side in a match.              *)
  StatLine,             (* match_team_stat, by fixture and team.           *)
  EventsIn,             (* match_event rows of a fixture: [type, team,     *)
                        (* minute], by minute.                             *)
  StatRows,             (* The player_stat rows an upload can bring.       *)
  SeasonStats           (* real_player_season_stat of each player's link.  *)

ASSUME TablesAssumption ==
  /\ Fixtures \subseteq Nat /\ MaxGoals \in Nat
  /\ \A f \in Fixtures : Home[f] \in Teams /\ Away[f] \in Teams \ {Home[f]}

VARIABLES
  match,       (* Fixture -> result, for the rows that are there.          *)
  teamStat,    (* Fixtures with their match_team_stat rows.                *)
  event,       (* Fixtures with their match_event rows.                    *)
  playerStat,  (* Player -> player_stat row, for those that have one.      *)
  link         (* Player -> status of its identity link, "none" without.   *)

tables == << match, teamStat, event, playerStat, link >>

NoShootout == << >>
Scores     == 0 .. MaxGoals

(* A shootout has a winner and follows a draw in a knockout stage.         *)
Results(f) ==
  [home : Scores, away : Scores, pens : {NoShootout}] \cup
  {r \in [home : Scores, away : Scores, pens : {<< 4, 3 >>, << 3, 4 >>}] :
     r.home = r.away /\ StageOf[f] \in Knockout}

TablesTypeOK ==
  /\ DOMAIN match \subseteq Fixtures /\ \A f \in DOMAIN match : match[f] \in Results(f)
  /\ teamStat \subseteq DOMAIN match /\ event \subseteq DOMAIN match
  /\ DOMAIN playerStat \subseteq Players /\ Range(playerStat) \subseteq StatRows
  /\ link \in [Players -> {"none", "pending", "approved", "rejected"}]

-----------------------------------------------------------------------------
(* INSERT ... ON CONFLICT DO UPDATE: a first result or a corrected one.    *)
CommitMatch(f) ==
  /\ \E result \in Results(f) :
       match' = [g \in DOMAIN match \cup {f} |-> IF g = f THEN result ELSE match[g]]
  /\ UNCHANGED << teamStat, event, playerStat, link >>

CommitTeamStats(f) ==
  /\ f \in DOMAIN match
  /\ teamStat' = teamStat \cup {f}
  /\ UNCHANGED << match, event, playerStat, link >>

CommitEvents(f) ==
  /\ f \in DOMAIN match
  /\ event' = event \cup {f}
  /\ UNCHANGED << match, teamStat, playerStat, link >>

CommitPlayerStat(p) ==
  /\ \E row \in StatRows :
       playerStat' = [q \in DOMAIN playerStat \cup {p} |-> IF q = p THEN row ELSE playerStat[q]]
  /\ UNCHANGED << match, teamStat, event, link >>

(* upload_synthetic_csv and upload_bulk_synthetic_csvs, chunk by chunk.    *)
Upload ==
  \/ \E f \in Fixtures : CommitMatch(f) \/ CommitTeamStats(f) \/ CommitEvents(f)
  \/ \E p \in Players : CommitPlayerStat(p)

(* The rematch job proposes, a reviewer decides.                           *)
Review ==
  /\ \E p \in Players :
       \/ link[p] = "none" /\ \E s \in {"pending", "approved"} : link' = [link EXCEPT ![p] = s]
       \/ link[p] = "pending" /\ \E s \in {"approved", "rejected"} : link' = [link EXCEPT ![p] = s]
  /\ UNCHANGED << match, teamStat, event, playerStat >>

TablesInit ==
  /\ match = << >> /\ teamStat = {} /\ event = {}
  /\ playerStat = << >> /\ link = [p \in Players |-> "none"]

TablesNext == Upload \/ Review
TablesSpec == TablesInit /\ [][TablesNext]_tables

-----------------------------------------------------------------------------
(* Arithmetic of the tools.  Python's round() goes to the even neighbour   *)
(* on a tie; a rate is counted in hundredths, a percentage in tenths.      *)
Rounded(total, count) ==
  LET quotient  == total \div count
      remainder == total % count
  IN  IF 2 * remainder > count \/ (2 * remainder = count /\ quotient % 2 = 1)
      THEN quotient + 1 ELSE quotient

Per(total, count)     == IF count = 0 THEN 0 ELSE Rounded(100 * total, count)
SharePct(part, whole) == IF whole = 0 THEN 0 ELSE Rounded(1000 * part, whole)
Total(set, of(_))     == MapThenSumSet(of, set)
=============================================================================
