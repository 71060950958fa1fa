----------------------------- MODULE MCChatTools -----------------------------
(* An instance of the data tools for TLC: a and b meet in the group and again *)
(* in the final, a also meets c in the group.                                 *)
EXTENDS MatchTool, PlayerTools, TLC

CONSTANTS a, b, c, keeper, reserve, striker

ThreeTeams    == {a, b, c}
ThreeMatches  == 1 .. 3
HomeTeams     == << a, c, b >>
AwayTeams     == << b, a, a >>
Stages        == << "Group", "Group", "Final" >>
KnockoutOnly  == {"Final"}

Line(shots, onTarget, fouls) == [shots |-> shots, onTarget |-> onTarget, fouls |-> fouls]
Lines ==
  << a :> Line(4, 2, 1) @@ b :> Line(2, 1, 3) @@ c :> Line(0, 0, 0),
     a :> Line(5, 2, 2) @@ c :> Line(1, 0, 4) @@ b :> Line(0, 0, 0),
     a :> Line(3, 3, 2) @@ b :> Line(6, 2, 0) @@ c :> Line(0, 0, 0) >>
Ev(type, team, minute) == [type |-> type, team |-> team, minute |-> minute]
Events ==
  << << Ev("Assist", a, 10), Ev("Goal", a, 10), Ev("Yellow Card", a, 30), Ev("VAR Review", b, 30) >>,
     << Ev("Yellow Card", c, 5), Ev("Own Goal", c, 40), Ev("Yellow Card", c, 41) >>,
     << Ev("Yellow Card", a, 12), Ev("Yellow Card", b, 12), Ev("Yellow Card", a, 80),
        Ev("Penalty Shootout Goal", b, 120), Ev("Penalty Shootout Miss", a, 120) >> >>
NamedStages == "Group" :> {"Group"} @@ "Final" :> {"Final"} @@ "p" :> {"Group"}

ThreePlayers == {keeper, reserve, striker}
PlayerPositions == keeper :> "GK" @@ reserve :> "GK" @@ striker :> "FWD"
Countries    == keeper :> a @@ reserve :> a @@ striker :> b
Alphabet     == keeper :> 1 @@ reserve :> 2 @@ striker :> 3
Ids          == keeper :> 2 @@ reserve :> 1 @@ striker :> 3
Row(minutes, goals, assists, saves) ==
  [minutes |-> minutes, goals |-> goals, assists |-> assists, saves |-> saves]
FiveRows     ==
  {Row(0, 0, 0, 0), Row(270, 1, 1, 2), Row(271, 1, 0, 3), Row(45, 0, 0, 2), Row(120, 2, 1, Null)}
Season(year, competition, minutes, goals) ==
  [season |-> year, competition |-> competition, minutes |-> minutes, goals |-> goals]
Careers ==
  keeper  :> {Season(2023, "ES1", 90, 1), Season(2024, "ES1", 180, 0), Season(2024, "CL", 45, 2)} @@
  reserve :> {} @@
  striker :> {Season(2024, "ES1", 900, 3)}

(* Bounds: the team tools, the rankings and the careers share no table, so  *)
(* nothing is gained by filling the tables of two of them; and a match's    *)
(* events arrive after its team statistics.                                 *)
Untouched(part) ==
  CASE part = "teams"    -> match = << >>
    [] part = "rankings" -> playerStat = << >>
    [] part = "careers"  -> \A p \in Players : link[p] = "none"
OneTool ==
  /\ \E part \in {"teams", "rankings", "careers"} :
       \A other \in {"teams", "rankings", "careers"} \ {part} : Untouched(other)
  /\ event \subseteq teamStat
ToolsSpec == TablesInit /\ [][TablesNext /\ OneTool']_tables
=============================================================================
