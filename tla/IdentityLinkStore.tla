-------------------------- MODULE IdentityLinkStore --------------------------
(***************************************************************************)
(* The player_identity_link table, shared by the admins' review requests   *)
(* (LinkReview) and the jobs that match players (LinkJobs).  Roster        *)
(* players are numbers, in the order player_repository.list returns them.  *)
(***************************************************************************)
EXTENDS Naturals, FiniteSets

CONSTANTS
  Players,      (* player: the WC2026 roster, matched against ...          *)
  RealPlayers,  (* ... real_player, the players of Transfermarkt.          *)
  Admins,       (* Users that review.                                      *)
  Nobody        (* NULL in reviewed_by_user_id.                            *)

ASSUME LinkAssumption ==
  Players \subseteq Nat /\ IsFiniteSet(Players) /\ Nobody \notin Admins

VARIABLES
  links,        (* The rows by player_id, which is UNIQUE.                 *)
  lastId,       (* Ids 1..lastId have been given to rows.                  *)
  realPlayers   (* The real_player rows.                                   *)

linkVars == << links, lastId, realPlayers >>

(* Confidences in thousandths; a MANUAL link has none (NULL).              *)
AutoAcceptConfidence == 950
NoConfidence         == 0

Candidate == [player : Players, real : RealPlayers, score : 850 .. 1000]
Link == [id : Nat, real : RealPlayers, method : {"matched", "manual"},
         score : 0 .. 1000, status : {"pending", "approved", "rejected"},
         reviewer : Admins \cup {Nobody}, byAdmin : BOOLEAN]

HasLink(id)  == \E p \in DOMAIN links : links[p].id = id
PlayerOf(id) == CHOOSE p \in DOMAIN links : links[p].id = id

(* Another row holds the UNIQUE real_player_id.                            *)
TakenByOther(real, id) == \E p \in DOMAIN links : links[p].real = real /\ links[p].id # id

-----------------------------------------------------------------------------
(* _dedupe_by_real_player_id: one candidate per real player, the surest,   *)
(* the first of equals.                                                    *)
Beats(c, d) ==
  /\ c.real = d.real
  /\ c.score > d.score \/ (c.score = d.score /\ c.player < d.player)

Deduped(candidates) == {c \in candidates : ~\E d \in candidates : Beats(d, c)}

(* The dict keeps the place of a real player's first candidate.            *)
UpsertedBefore(c, d, candidates) ==
  \E e \in candidates : e.real = c.real /\ \A f \in candidates : f.real = d.real => e.player < f.player

(* INSERT ... ON CONFLICT (player_id): the UNIQUE real_player_id is checked *)
(* row by row, so a real player another row still holds fails the batch.   *)
Collides(candidates) ==
  LET kept == Deduped(candidates)
  IN  \E c \in kept : \E p \in DOMAIN links \ {c.player} :
        /\ links[p].real = c.real
        /\ ~\E d \in kept : d.player = p /\ UpsertedBefore(d, c, candidates)

(* The foreign key of real_player_id.                                      *)
Orphans(candidates) == {c \in candidates : c.real \notin realPlayers}

(* The row of a candidate: id and reviewed_by_admin are not in the payload. *)
CandidateRow(c, id, byAdmin) ==
  [id |-> id, real |-> c.real, method |-> "matched", score |-> c.score,
   status |-> IF c.score >= AutoAcceptConfidence THEN "approved" ELSE "pending",
   reviewer |-> Nobody, byAdmin |-> byAdmin]

UpsertCandidates(candidates) ==
  LET kept     == Deduped(candidates)
      Of(p)    == CHOOSE c \in kept : c.player = p
      matched  == {c.player : c \in kept}
      new      == matched \ DOMAIN links
      NewId(p) == lastId + Cardinality({q \in new : q <= p})
  IN  /\ links' = [p \in DOMAIN links \cup matched |->
                     IF p \notin matched THEN links[p]
                     ELSE IF p \in new THEN CandidateRow(Of(p), NewId(p), FALSE)
                     ELSE CandidateRow(Of(p), links[p].id, links[p].byAdmin)]
      /\ lastId' = lastId + Cardinality(new)

DeleteAll == links' = [p \in {} |-> Nobody] /\ UNCHANGED lastId

-----------------------------------------------------------------------------
LinkInit ==
  /\ links = [p \in {} |-> Nobody] /\ lastId = 0
  /\ realPlayers = {}

LinkTypeOK ==
  /\ links \in [DOMAIN links -> Link] /\ DOMAIN links \subseteq Players
  /\ \A p \in DOMAIN links : links[p].id \in 1 .. lastId
  /\ lastId \in Nat
  /\ realPlayers \subseteq RealPlayers
=============================================================================
