------------------------------ MODULE LinkReview ------------------------------
(***************************************************************************)
(* The admins' requests on one link: approve, reject and reassign.  Every  *)
(* request has a session of its own (READ COMMITTED); between its reads    *)
(* and its write, other requests and jobs may change the row.              *)
(***************************************************************************)
EXTENDS IdentityLinkStore

CONSTANTS
  Reviews,   (* The requests.                                              *)
  Verb,      (* What each asks for.                                        *)
  Admin      (* Who asks.                                                  *)

ASSUME ReviewAssumption ==
  /\ Verb \in [Reviews -> {"approve", "reject", "reassign"}]
  /\ Admin \in [Reviews -> Admins]

VARIABLES
  review,    (* What each request does next, or its answer.                *)
  seen,      (* The row as its session last read it.                       *)
  wanted     (* ... and as it changed it in memory.                        *)

reviewVars == << review, seen, wanted >>

ReviewAnswers == {"ok", "not_found", "conflict", "error"}

ReviewGoes(r, to) == review' = [review EXCEPT ![r] = to]

(* update_status.                                                          *)
Reviewed(r, row) ==
  [row EXCEPT !.status = IF Verb[r] = "approve" THEN "approved" ELSE "rejected",
              !.reviewer = Admin[r], !.byAdmin = TRUE]

(* Faulty variant of the next definition: the confidence is kept.          *)
ReassignedKeepingScore(r, row, real) ==
  [row EXCEPT !.real = real, !.method = "manual",
              !.status = "approved", !.reviewer = Admin[r], !.byAdmin = TRUE]

(* What reassign assigns.                                                  *)
Reassigned(r, row, real) ==
  [row EXCEPT !.real = real, !.method = "manual", !.score = NoConfidence,
              !.status = "approved", !.reviewer = Admin[r], !.byAdmin = TRUE]

-----------------------------------------------------------------------------
(* _require_pending, of a link some page listed.                           *)
RequirePending(r) ==
  /\ review[r] = "new" /\ Verb[r] # "reassign"
  /\ \E id \in 1 .. lastId :
       IF ~HasLink(id) THEN ReviewGoes(r, "not_found") /\ UNCHANGED seen
       ELSE IF links[PlayerOf(id)].status # "pending"
            THEN ReviewGoes(r, "conflict") /\ UNCHANGED seen
       ELSE /\ ReviewGoes(r, "load")
            /\ seen' = [seen EXCEPT ![r] = links[PlayerOf(id)]]
  /\ UNCHANGED << linkVars, wanted >>

(* update_status reads the row again, because the identity map holds rows  *)
(* weakly, and does not look at its status.                                *)
LoadToReview(r) ==
  /\ review[r] = "load"
  /\ LET id  == seen[r].id
         row == links[PlayerOf(id)] IN
     IF HasLink(id)
     THEN /\ ReviewGoes(r, "write")
          /\ seen' = [seen EXCEPT ![r] = row]
          /\ wanted' = [wanted EXCEPT ![r] = Reviewed(r, row)]
     ELSE ReviewGoes(r, "not_found") /\ UNCHANGED << seen, wanted >>
  /\ UNCHANGED linkVars

(* reassign works on a link of any status.                                 *)
LoadToReassign(r) ==
  /\ review[r] = "new" /\ Verb[r] = "reassign"
  /\ \E id \in 1 .. lastId, real \in RealPlayers :
       LET row == links[PlayerOf(id)] IN
       IF HasLink(id)
       THEN /\ ReviewGoes(r, "check")
            /\ seen' = [seen EXCEPT ![r] = row]
            /\ wanted' = [wanted EXCEPT ![r] = Reassigned(r, row, real)]
       ELSE ReviewGoes(r, "not_found") /\ UNCHANGED << seen, wanted >>
  /\ UNCHANGED linkVars

(* ... if the real player exists and no other link holds it.               *)
CheckReal(r) ==
  /\ review[r] = "check"
  /\ ReviewGoes(r, IF wanted[r].real \notin realPlayers THEN "not_found"
                   ELSE IF TakenByOther(wanted[r].real, seen[r].id) THEN "conflict"
                   ELSE "write")
  /\ UNCHANGED << linkVars, seen, wanted >>

(* SQLAlchemy's UPDATE sets the columns whose value differs from the value *)
(* loaded, over whatever the row holds by now.                             *)
Flushed(r, row) ==
  [column \in DOMAIN row |->
     IF wanted[r][column] # seen[r][column] THEN wanted[r][column] ELSE row[column]]

(* commit.  A row deleted meanwhile is a StaleDataError, a real player     *)
(* linked meanwhile an IntegrityError: 500, and nothing is written.        *)
Write(r) ==
  /\ review[r] = "write"
  /\ LET id == seen[r].id IN
     IF HasLink(id) /\ ~TakenByOther(Flushed(r, links[PlayerOf(id)]).real, id)
     THEN /\ links' = [links EXCEPT ![PlayerOf(id)] = Flushed(r, @)]
          /\ ReviewGoes(r, "ok")
     ELSE UNCHANGED links /\ ReviewGoes(r, "error")
  /\ UNCHANGED << lastId, realPlayers, seen, wanted >>

ReviewStep(r) ==
  RequirePending(r) \/ LoadToReview(r) \/ LoadToReassign(r) \/ CheckReal(r) \/ Write(r)

ReviewInit ==
  /\ review = [r \in Reviews |-> "new"]
  /\ seen = [r \in Reviews |-> Nobody] /\ wanted = [r \in Reviews |-> Nobody]

ReviewTypeOK ==
  /\ review \in [Reviews -> {"new", "load", "check", "write"} \cup ReviewAnswers]
  /\ seen \in [Reviews -> Link \cup {Nobody}] /\ wanted \in [Reviews -> Link \cup {Nobody}]
=============================================================================
