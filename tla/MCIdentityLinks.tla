--------------------------- MODULE MCIdentityLinks ---------------------------
(* Instances of IdentityLinks for TLC. *)
EXTENDS IdentityLinks, IdentityMatching, TLC

CONSTANTS a1, a2, r1, r2, m1, m2, j1, j2

Roster    == {1, 2}
Reals     == {m1, m2}
TwoAdmins == {a1, a2}
TwoReviews == {r1, r2}
Reviewers  == [r \in Reviews |-> IF r = r1 THEN a1 ELSE a2]
ApproveAndReassign == [r \in Reviews |-> IF r = r1 THEN "approve" ELSE "reassign"]

Somebody(name, n) == [player |-> n, name |-> name, dob |-> n, height |-> 180, team |-> n]
Real(real, name, dob) ==
  [real |-> real, name |-> name, dob |-> dob, height |-> Unknown, nation |-> "Mexico"]
TheRoster == {Somebody("Ana", 1), Somebody("Anna", 2)}
NoNations == << >>
(* Two exports: both roster players are taken for m1, of which one is      *)
(* certain; or each is probably somebody else.                             *)
Exports == {<< Real(m1, "Ana", 1), Real(m2, "Eva", 9) >>,
            << Real(m1, "Anne", 8), Real(m2, "Annah", 9) >>}
Alike ==
  [names \in {{"Ana", "Eva"}, {"Anna", "Eva"}} |-> 60] @@
  ({"Anna", "Ana"} :> 90 @@ {"Ana", "Anne"} :> 88 @@ {"Ana", "Annah"} :> 86 @@
   {"Anna", "Anne"} :> 89 @@ {"Anna", "Annah"} :> 95)
SomeMatchings == {MatchRoster(TheRoster, reals, NoNations) : reals \in Exports}
TwoJobs        == {j1, j2}
SyncThenAny  == [j \in Jobs |-> IF j = j1 THEN {"sync"} ELSE {"resume", "rematch"}]
AllJobFaults   == {"queue", "work", "shutdown", "crash"}

(* Bound: with a review, the worker is stopped or dies in the second job only. *)
OneStory ==
  \/ \A r \in Reviews : review[r] = "new"
  \/ ~stopping[j1] /\ task[j1] # "crashed" /\ reruns[j1] = 0

LinksSpec == Init /\ [][Next /\ OneStory']_linkSystemVars /\ Fairness
=============================================================================
