----------------------------- MODULE MCReviewPage -----------------------------
(* Instances of ReviewPage for TLC: two links, one to a page.                 *)
EXTENDS ReviewPage

TwoNames   == 1 .. 2
AllPending == << "pending", "pending" >>
OneLost    == {AllPending, << "gone", "pending" >>}

(* Bound: the stories told.  Syncs and the other admin work in behaviours     *)
(* without a rematch.  Two rematches succeed and find the same players, with  *)
(* the page on its first view and without an error from then on.              *)
WithoutRematch == jobs = << >>
OneRematch     == elsewhere = 0 /\ Len(jobs) <= 1
TwoRematches   ==
  /\ elsewhere = 0 /\ view = First /\ ~loadError
  /\ \A j \in DOMAIN jobs : jobs[j].status # "failed"
  /\ Found("gone") \in {{}, Names}
OneStory == WithoutRematch \/ OneRematch \/ TwoRematches

PageSpec == Init /\ [][Next /\ OneStory']_vars /\ WF_vars(ListAnswers)
=============================================================================
