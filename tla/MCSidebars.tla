------------------------------ MODULE MCSidebars ------------------------------
(* Instances of Sidebars for TLC: one window and, with a page of one        *)
(* conversation, an account that has one or two.                            *)
EXTENDS Sidebars

CONSTANTS c1, c2, w1, p1, p2, p3, r1, r2, ada

OneConversation  == {c1}
TwoConversations == {c1, c2}
OneWindow        == {w1}
OnePost          == {p1}
ThreePosts       == {p1, p2, p3}
OneRename        == {r1}
TwoRenames       == {r1, r2}
OneName          == {ada}
ThirdIsElsewhere == [x \in Posts \cup Renames |-> IF x = p3 THEN c2 ELSE c1]
SameTarget       == [x \in Posts \cup Renames |-> c1]
SameAuthor       == [x \in Posts \cup Renames |-> w1]
AllTitleFaults   == {"endpoint", "llm", "job", "rerun", "fetch"}

(* Bound: a behaviour has the posts and renames of one of the stories, and  *)
(* the last two have no failed request and no failed or re-run job before   *)
(* its event.                                                               *)
Only(posts, renames) ==
  /\ \A p \in Posts \ posts : post[p] = "new"
  /\ \A r \in Renames \ renames : rename[r] = "new"
Smoothly ==
  /\ \A p \in Posts : post[p] # "error"
  /\ \A c \in Conversations : runs[c] < 2 /\ (job[c] = "over" => row[c].icon)

TwoTurns   == Only({p1, p2}, {})
ARename    == Only({p1}, {r1})
(* The second conversation begins once the first one has its title.         *)
FullPage   == /\ Only({p1, p3}, {}) /\ Smoothly
              /\ post[p3] # "new" => job[c1] \in {"announce", "over"}
(* The second rename begins after the job read the row, and the stream      *)
(* does not drop any more.                                                  *)
LateRename == /\ Only({p1}, {r1, r2}) /\ Smoothly
              /\ rename[r2] # "new" =>
                   /\ rename[r1] # "new" /\ open[w1]
                   /\ job[c1] \in {"write", "announce", "over"}
OneStory   == TwoTurns \/ ARename \/ FullPage \/ LateRename

TitlesSpec == Init /\ [][Next /\ OneStory']_allVars /\ Fairness
=============================================================================
