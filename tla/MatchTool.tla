------------------------------ MODULE MatchTool ------------------------------
(***************************************************************************)
(* get_match_analysis: a match is looked up by the pair of teams, either   *)
(* way round, and narrowed by a stage (part of its name) or a date; two    *)
(* matches are answered with the candidates, one with its analysis, none   *)
(* with an error.  Line-ups, names and venues are left out.                *)
(***************************************************************************)
EXTENDS TeamTools

CONSTANT StagesNamed    (* The stages whose name contains a text.          *)

Unsaid   == "unsaid"    (* A stage the model left out,                     *)
Undated  == 0           (* or a date.                                      *)

(* Kick-off order is the order of dates: a match is its own date here.     *)
FindMatches(one, other, stage, date) ==
  SelectSeq(KickOffOrder, LAMBDA f :
    /\ f \in DOMAIN match
    /\ << Home[f], Away[f] >> \in {<< one, other >>, << other, one >>}
    /\ stage # Unsaid => StageOf[f] \in StagesNamed[stage]
    /\ date # Undated => f = date)

Score(f)     == << match[f].home, match[f].away >>
Candidate(f) == [match |-> f, stage |-> StageOf[f], home |-> Home[f], away |-> Away[f],
                 score |-> Score(f)]

(* Without rows a side counts as 0; two zeros share evenly.                *)
HomePct(home, away) == IF home + away = 0 THEN 50 ELSE Rounded(100 * home, home + away)
BuildStats(f, home, away) ==
  [column \in {"shots", "onTarget", "fouls"} |->
     LET Value(t) == IF f \in teamStat THEN StatLine[f][t][column] ELSE 0
     IN  [home |-> Value(home), away |-> Value(away), homePct |-> HomePct(Value(home), Value(away))]]

EventKind(type) ==
  CASE type \in {"Goal", "Own Goal", "Penalty Shootout Goal"} -> "goal"
    [] type \in {"Yellow Card", "Red Card"} -> "card"
    [] type = "VAR Review" -> "var"
    [] OTHER -> "none"

EventsOf(f) == IF f \in event THEN EventsIn[f] ELSE << >>

(* An assist has a row of its own, joined by minute and team.              *)
BuildTimeline(f) ==
  LET shown == SelectSeq(EventsOf(f), LAMBDA e : EventKind(e.type) # "none")
      Assists(e) == SelectSeq(EventsOf(f), LAMBDA other :
                      other.type = "Assist" /\ other.minute = e.minute /\ other.team = e.team)
  IN  [i \in DOMAIN shown |->
         [kind |-> EventKind(shown[i].type), team |-> shown[i].team, type |-> shown[i].type,
          assists |-> IF EventKind(shown[i].type) = "goal" THEN Len(Assists(shown[i])) ELSE 0]]

BuildScorers(f, t) ==
  Len(SelectSeq(EventsOf(f), LAMBDA e : e.type \in {"Goal", "Own Goal"} /\ e.team = t))

BuildFooter(f) ==
  [kind \in {"goal", "card", "var"} |->
     Len(SelectSeq(EventsOf(f), LAMBDA e : EventKind(e.type) = kind))]

(* Faulty variant: the sides as they were asked for.                       *)
BuildMatchAnalysisAsAsked(f, one, other) ==
  [match |-> f, home |-> one, away |-> other, score |-> Score(f),
   onPens |-> match[f].pens # NoShootout,
   scorers |-> << BuildScorers(f, one), BuildScorers(f, other) >>,
   stats |-> BuildStats(f, one, other), timeline |-> BuildTimeline(f), footer |-> BuildFooter(f)]

(* The recorded fixture decides which of the two is the home side.         *)
BuildMatchAnalysis(f, one, other) ==
  LET home == IF Home[f] = one THEN one ELSE other
      away == IF Home[f] = one THEN other ELSE one
  IN  [match |-> f, home |-> home, away |-> away, score |-> Score(f),
       onPens |-> match[f].pens # NoShootout,
       scorers |-> << BuildScorers(f, home), BuildScorers(f, away) >>,
       stats |-> BuildStats(f, home, away), timeline |-> BuildTimeline(f),
       footer |-> BuildFooter(f)]

GetMatchAnalysis(one, other, stage, date) ==
  LET found == FindMatches(one, other, stage, date)
  IN  CASE Len(found) = 0 -> [outcome |-> "none"]
        [] Len(found) = 1 -> [outcome |-> "match",
                              analysis |-> BuildMatchAnalysis(found[1], one, other)]
        [] OTHER -> [outcome |-> "ambiguous",
                     candidates |-> [i \in DOMAIN found |-> Candidate(found[i])]]

-----------------------------------------------------------------------------
(* The answers about two teams hang together: asked the other way round    *)
(* the answer is the same; it speaks of the matches the comparison lists   *)
(* as their meetings; what a candidate says of itself picks that match;    *)
(* its scores are the ones in the teams' results, each on its own side;    *)
(* and the cards of a team's timelines are the cards of its discipline.    *)
MatchAnswersAgree ==
  /\ \A one \in Teams, other \in Teams, stage \in DOMAIN StagesNamed \cup {Unsaid}, date \in Fixtures \cup {Undated} :
       one # other =>
         GetMatchAnalysis(one, other, stage, date) = GetMatchAnalysis(other, one, stage, date)
  /\ \A one \in Teams, other \in Teams :
       one # other =>
         LET met    == Meetings(one, other)
             answer == GetMatchAnalysis(one, other, Unsaid, Undated)
         IN  /\ Len(met) = 0 <=> answer.outcome = "none"
             /\ Len(met) > 1 <=> answer.outcome = "ambiguous"
             /\ answer.outcome = "ambiguous" =>
                  \A i \in DOMAIN met :
                    LET picked == GetMatchAnalysis(one, other, Unsaid, answer.candidates[i].match)
                    IN  /\ answer.candidates[i].match = met[i].match
                        /\ picked.outcome = "match"
                        /\ picked.analysis.score = answer.candidates[i].score
             /\ \A i \in DOMAIN met :
                  LET analysis == GetMatchAnalysis(one, other, Unsaid, met[i].match).analysis
                      ours     == IF analysis.home = one THEN 1 ELSE 2
                  IN  analysis.score[ours] = met[i].a /\ analysis.score[3 - ours] = met[i].b
  /\ \A t \in Teams :
       Yellows(t) = Total(Range(MatchesOf(t)), LAMBDA f :
         Len(SelectSeq(GetMatchAnalysis(Opponent(f, t), t, Unsaid, f).analysis.timeline,
                       LAMBDA e : e.type = "Yellow Card" /\ e.team = t)))
=============================================================================
