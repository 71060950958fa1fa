--------------------------- MODULE IdentityMatching ---------------------------
(***************************************************************************)
(* PlayerIdentityMatchingService: which real player, if any, a WC2026      *)
(* roster player is taken for, and how confidently.  Roster players are    *)
(* records [player, name, dob, height, team], real players, in the order   *)
(* of the export, [real, name, dob, height, nation]; names are normalized. *)
(* `nations` maps the teams that were resolved to real nations.            *)
(***************************************************************************)
EXTENDS Integers, Sequences, FiniteSets

CONSTANTS
  Similarity,  (* WRatio of two different names, whole, by the set of them. *)
  Unknown      (* A height the export does not tell.                       *)

ASSUME SimilarityAssumption == \A names \in DOMAIN Similarity : Similarity[names] \in 0 .. 100

(* Confidences are counted in thousandths.                                 *)
FuzzyFloorScore     == 85
FuzzyMinConfidence  == 850
FuzzyMaxConfidence  == 949
SureConfidence      == 950
CertainConfidence   == 1000

Score(p, r) == IF p.name = r.name THEN 100 ELSE Similarity[{p.name, r.name}]

SameNation(p, r, nations) == p.team \in DOMAIN nations /\ nations[p.team] = r.nation

(* Tiers EXACT_NAME_DOB and EXACT_NAME_TEAM.                               *)
Exact(p, r, nations) == p.name = r.name /\ (r.dob = p.dob \/ SameNation(p, r, nations))
ExactConfidence(p, r) == IF r.dob = p.dob THEN CertainConfidence ELSE SureConfidence

Corroborated(p, r) == r.dob = p.dob /\ r.height # Unknown /\ r.height = p.height

(* Linear from the floor to the top, rounded to thousandths.               *)
ScaleFuzzyConfidence(score) ==
  LET span == 2 * (FuzzyMaxConfidence - FuzzyMinConfidence)
  IN  FuzzyMinConfidence +
        (span * (score - FuzzyFloorScore) + 15) \div (2 * (100 - FuzzyFloorScore))

FuzzyConfidence(p, r) ==
  IF Corroborated(p, r) THEN SureConfidence ELSE ScaleFuzzyConfidence(Score(p, r))

(* candidate_rank: a corroborated player, whatever its name's score.       *)
Outranks(p, r, q) ==
  \/ Corroborated(p, r) /\ ~Corroborated(p, q)
  \/ (Corroborated(p, r) <=> Corroborated(p, q)) /\ Score(p, r) > Score(p, q)

(* The first exact match, of whichever tier, or else the first of the      *)
(* highest rank.                                                           *)
Chosen(p, reals, nations) ==
  LET exact == {i \in DOMAIN reals : Exact(p, reals[i], nations)}
      fuzzy == {i \in DOMAIN reals : Score(p, reals[i]) >= FuzzyFloorScore}
  IN  IF exact # {} THEN {i \in exact : \A j \in exact : i <= j}
      ELSE {i \in fuzzy : \A j \in fuzzy :
              ~Outranks(p, reals[j], reals[i]) /\ (j < i => Outranks(p, reals[i], reals[j]))}

Confidence(p, r, nations) ==
  IF Exact(p, r, nations) THEN ExactConfidence(p, r) ELSE FuzzyConfidence(p, r)

MatchOne(p, reals, nations) ==
  {[player |-> p.player, real |-> reals[i].real, score |-> Confidence(p, reals[i], nations)] :
     i \in Chosen(p, reals, nations)}

MatchRoster(roster, reals, nations) == UNION {MatchOne(p, reals, nations) : p \in roster}

-----------------------------------------------------------------------------
(* Contradicted: the module's docstring calls the tiers a cascade, name and *)
(* birthday before name and nation.  The first exact match in the export    *)
(* is taken, so an earlier namesake of the same nation hides the player     *)
(* with the birthday.                                                       *)
BirthdaysComeFirst(p, reals, nations) ==
  (\E i \in DOMAIN reals : p.name = reals[i].name /\ p.dob = reals[i].dob) =>
    \A c \in MatchOne(p, reals, nations) : c.score = CertainConfidence
=============================================================================
