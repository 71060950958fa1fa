------------------------------ MODULE ReviewPage ------------------------------
(***************************************************************************)
(* The admin's identity-link page: the paginated review list               *)
(* (usePendingIdentityLinks) and the rematch trigger above it              *)
(* (useIdentityLinkRematch), whose success refreshes the list.  A state    *)
(* setter, the render and the effects it causes are one step; a request is *)
(* read by the server at one moment and answered at another, in any order. *)
(* The table is reduced to what the page shows of it and to what writes    *)
(* it: decisions, upserts of rematches and syncs, wipes.  IdentityLinks    *)
(* models these in detail.                                                 *)
(***************************************************************************)
EXTENDS Integers, Sequences, FiniteSets

CONSTANTS
  Names,        (* Numbers of the players, in the order of the roster.     *)
  Matchings,    (* What a matching may give the players: a status, or      *)
                (* "gone" without a candidate.                             *)
  PageSize,     (* PENDING_LINKS_PAGE_SIZE.                                *)
  MaxClicks,    (* Bound: what the admin does on the page.                 *)
  MaxElsewhere, (* Bound: decisions of another admin and syncs.            *)
  MaxRematches, (* Bound: jobs.                                            *)
  None

ASSUME PageAssumption ==
  /\ Names \subseteq Nat /\ IsFiniteSet(Names) /\ PageSize \in Nat \ {0}
  /\ Matchings \subseteq [Names -> {"pending", "approved", "gone"}]
  /\ {MaxClicks, MaxElsewhere, MaxRematches} \subseteq Nat

VARIABLES
  (* The server.                                                           *)
  upserts,      (* History: upserts committed so far.                      *)
  idOf,         (* The upsert that inserted a player's row: a link's id is *)
                (* << idOf, name >>.                                       *)
  statusOf,     (* The row's status, "gone" without a row.                 *)
  jobs,         (* The rematch jobs, [status, upserts].                    *)
  elsewhere,    (* What the other admin and the syncs did.                 *)
  (* usePendingIdentityLinks.                                              *)
  view,         (* << status, page >>.                                     *)
  shown,        (* reviews and total, and the view they were read for.      *)
  isLoading, loadError,
  latest,       (* latestRequestRef.                                       *)
  asked,        (* History: the view the latest request asked for.         *)
  requests,     (* List requests under way, [id, view, answer].            *)
  decisions,    (* POSTs: link -> [phase, verb, view, at].                 *)
  (* useIdentityLinkRematch.                                               *)
  jobId, job, notified,
  triggering,   (* The POST's phase.                                       *)
  isRefreshing,
  polls,        (* Status requests under way, [id, job, answer].           *)
  stored,       (* localStorage.                                           *)
  clicks

rows     == << upserts, idOf, statusOf >>
server   == << rows, jobs, elsewhere >>
listVars == << view, shown, isLoading, loadError, latest, asked, requests >>
jobVars  == << jobId, job, notified, triggering, isRefreshing, polls, stored >>
vars     == << server, listVars, decisions, jobVars, clicks >>

Statuses == {"pending", "approved", "rejected"}
Pages(total) == IF total = 0 THEN 1 ELSE (total + PageSize - 1) \div PageSize

-----------------------------------------------------------------------------
(* The server.                                                             *)

(* list_by_status and count_by_status, ordered by id: the n-th link is on  *)
(* page (n - 1) \div PageSize + 1.                                          *)
Found(status)   == {n \in Names : statusOf[n] = status}
UpTo(n, found)  == {m \in found : idOf[m] < idOf[n] \/ (idOf[m] = idOf[n] /\ m <= n)}
PageOf(n, found) == (Cardinality(UpTo(n, found)) - 1) \div PageSize + 1

Listing(of) ==
  LET found == Found(of[1]) IN
  [view  |-> of,
   links |-> {<< idOf[n], n >> : n \in {m \in found : PageOf(m, found) = of[2]}},
   total |-> Cardinality(found),
   upserts |-> upserts]

(* upsert_candidates: ON CONFLICT (player_id) rewrites the row under its id. *)
Upsert(matched) ==
  /\ upserts' = upserts + 1
  /\ idOf' = [n \in Names |-> IF statusOf[n] = "gone" THEN upserts + 1 ELSE idOf[n]]
  /\ statusOf' = [n \in Names |-> IF matched[n] = "gone" THEN statusOf[n] ELSE matched[n]]

Elsewhere == elsewhere < MaxElsewhere /\ elsewhere' = elsewhere + 1

DecideElsewhere ==
  /\ Elsewhere
  /\ \E n \in Names, to \in {"approved", "rejected"} :
       /\ statusOf[n] = "pending" \/ (statusOf[n] # "gone" /\ to = "approved")
       /\ statusOf' = [statusOf EXCEPT ![n] = to]
  /\ UNCHANGED << upserts, idOf, jobs, listVars, decisions, jobVars, clicks >>

(* The PLAYERS stage of a Transfermarkt sync, which wipes nothing.         *)
SyncUpserts ==
  /\ Elsewhere
  /\ \E matched \in Matchings : Upsert(matched)
  /\ UNCHANGED << jobs, listVars, decisions, jobVars, clicks >>

(* The rematch job commits the wipe, the new links and its success one     *)
(* after the other (to the page it is running meanwhile), or fails.        *)
RunRematch(j) ==
  /\ \/ /\ jobs[j].status = "queued"
        /\ statusOf' = [n \in Names |-> "gone"]
        /\ jobs' = [jobs EXCEPT ![j].status = "wiped"]
        /\ UNCHANGED << upserts, idOf >>
     \/ /\ jobs[j].status = "wiped"
        /\ \E matched \in Matchings : Upsert(matched)
        /\ jobs' = [jobs EXCEPT ![j] = [status |-> "matched", upserts |-> upserts + 1]]
     \/ /\ jobs[j].status = "matched"
        /\ jobs' = [jobs EXCEPT ![j].status = "succeeded"]
        /\ UNCHANGED rows
     \/ /\ jobs[j].status \in {"queued", "wiped", "matched"}
        /\ jobs' = [jobs EXCEPT ![j].status = "failed"]
        /\ UNCHANGED rows
  /\ UNCHANGED << elsewhere, listVars, decisions, jobVars, clicks >>

-----------------------------------------------------------------------------
(* The list.                                                               *)

FetchPage(of) ==
  /\ latest' = latest + 1
  /\ asked' = of
  /\ isLoading' = TRUE
  /\ requests' = requests \cup {[id |-> latest + 1, view |-> of, answer |-> None]}

(* setStatus and setPage; the effect fetches a view that is another one.   *)
GoTo(of) ==
  /\ view' = of
  /\ IF of = view THEN UNCHANGED << isLoading, latest, asked, requests >> ELSE FetchPage(of)

Click == clicks < MaxClicks /\ clicks' = clicks + 1

ChangeStatus(status) ==
  /\ Click /\ GoTo(<< status, 1 >>)
  /\ UNCHANGED << shown, loadError, server, decisions, jobVars >>

(* The paginator knows the pages of the rows shown.                        *)
GoToPage(page) ==
  /\ Click /\ ~isLoading /\ shown.total > 0
  /\ page \in {view[2] - 1, view[2] + 1} /\ page >= 1
  /\ page > view[2] => view[2] < Pages(shown.total)
  /\ GoTo(<< view[1], page >>)
  /\ UNCHANGED << shown, loadError, server, decisions, jobVars >>

Refresh ==
  /\ Click /\ ~isLoading /\ FetchPage(view)
  /\ UNCHANGED << view, shown, loadError, server, decisions, jobVars >>

ReadList(q) ==
  /\ q.answer = None
  /\ requests' = (requests \ {q}) \cup {[q EXCEPT !.answer = Listing(q.view)]}
  /\ UNCHANGED << view, shown, isLoading, loadError, latest, asked, server, decisions, jobVars, clicks >>

(* Faulty variant: the last answer wins, whatever it was asked for.        *)
ReceiveAnyList(q) ==
  /\ q.answer # None
  /\ shown' = q.answer
  /\ isLoading' = FALSE /\ loadError' = FALSE
  /\ requests' = requests \ {q}
  /\ UNCHANGED << view, latest, asked, server, decisions, jobVars, clicks >>

(* An answer overtaken by a later request is ignored.  An empty page with  *)
(* rows before it falls back to the last page: the setter and, if that is  *)
(* another page, the effect; isLoading is reset before that effect runs.   *)
ReceiveList(q) ==
  /\ q.answer # None
  /\ IF q.id # latest
     THEN requests' = requests \ {q} /\ UNCHANGED << view, shown, isLoading, loadError, latest, asked >>
     ELSE IF q.answer.links = {} /\ q.view[2] > 1 /\ q.answer.total > 0
     THEN LET of == << view[1], Pages(q.answer.total) >>
          IN  /\ view' = of
              /\ IF of = view
                 THEN isLoading' = FALSE /\ requests' = requests \ {q} /\ UNCHANGED << latest, asked >>
                 ELSE /\ isLoading' = TRUE /\ latest' = latest + 1 /\ asked' = of
                      /\ requests' = (requests \ {q}) \cup
                           {[id |-> latest + 1, view |-> of, answer |-> None]}
              /\ UNCHANGED << shown, loadError >>
     ELSE /\ shown' = q.answer
          /\ loadError' = FALSE /\ isLoading' = FALSE
          /\ requests' = requests \ {q}
          /\ UNCHANGED << view, latest, asked >>
  /\ UNCHANGED << server, decisions, jobVars, clicks >>

(* Faulty variant: isLoading is reset on success only.                     *)
ListFailsLoading(q) ==
  /\ requests' = requests \ {q}
  /\ loadError' = (loadError \/ q.id = latest)
  /\ UNCHANGED << isLoading, view, shown, latest, asked, server, decisions, jobVars, clicks >>

ListFails(q) ==
  /\ requests' = requests \ {q}
  /\ IF q.id = latest THEN loadError' = TRUE /\ isLoading' = FALSE
                      ELSE UNCHANGED << loadError, isLoading >>
  /\ UNCHANGED << view, shown, latest, asked, server, decisions, jobVars, clicks >>

-----------------------------------------------------------------------------
(* The cards.                                                              *)

Phase(link) == IF link \in DOMAIN decisions THEN decisions[link].phase ELSE "none"
Decision(link, value) ==
  decisions' = [l \in DOMAIN decisions \cup {link} |-> IF l = link THEN value ELSE decisions[l]]
Forget(links) == decisions' = [l \in DOMAIN decisions \ links |-> decisions[l]]

(* A card offers approve and reject while its list is the pending one; a   *)
(* correction of a match always.  Bound: one POST per link.                *)
Decide(link, verb) ==
  /\ Click /\ link \in shown.links /\ Phase(link) = "none"
  /\ verb # "reassign" => shown.view[1] = "pending"
  /\ Decision(link, [phase |-> "sent", verb |-> verb, view |-> view, at |-> 0])
  /\ UNCHANGED << server, listVars, jobVars >>

(* 404 for a wiped link, 409 for a link decided elsewhere.  Nobody waits   *)
(* for the answer to a page that was left.                                 *)
ServeDecision(link) ==
  /\ Phase(link) \in {"sent", "left"}
  /\ LET verb    == decisions[link].verb
         current == IF link[1] = idOf[link[2]] THEN statusOf[link[2]] ELSE "gone"
         granted == IF verb = "reassign" THEN current # "gone" ELSE current = "pending"
     IN  /\ IF Phase(link) = "left" THEN Forget({link})
            ELSE Decision(link, [decisions[link] EXCEPT !.at = upserts,
                                   !.phase = IF granted THEN "granted" ELSE "refused"])
         /\ statusOf' = IF ~granted THEN statusOf
                        ELSE [statusOf EXCEPT ![link[2]] = IF verb = "reject" THEN "rejected" ELSE "approved"]
  /\ UNCHANGED << upserts, idOf, jobs, elsewhere, listVars, jobVars, clicks >>

(* The POST is answered: the refresh is the one of the render that was     *)
(* clicked, with its status and page.                                      *)
DecisionAnswered(link) ==
  /\ Phase(link) = "granted"
  /\ Decision(link, [decisions[link] EXCEPT !.phase = "done"])
  /\ FetchPage(decisions[link].view)
  /\ UNCHANGED << view, shown, loadError, server, jobVars, clicks >>

(* The answer is an error, or is lost: the card shows it.                  *)
DecisionFails(link) ==
  /\ Phase(link) \in {"sent", "granted", "refused"}
  /\ Decision(link, [decisions[link] EXCEPT !.phase = "failed"])
  /\ UNCHANGED << server, listVars, jobVars, clicks >>

-----------------------------------------------------------------------------
(* The rematch.                                                            *)

(* refresh of the hook: a request beside those under way.                  *)
Poll(j) ==
  /\ isRefreshing' = TRUE
  /\ \E id \in 1 .. Cardinality(polls) + 1 :
       /\ \A p \in polls : p.id # id
       /\ polls' = polls \cup {[id |-> id, job |-> j, answer |-> None]}

(* POST /rematch creates the job row before it answers.                    *)
Trigger ==
  /\ Click /\ triggering = "no" /\ Len(jobs) < MaxRematches
  /\ triggering' = "sent"
  /\ jobs' = Append(jobs, [status |-> "queued", upserts |-> 0])
  /\ UNCHANGED << rows, elsewhere, listVars, decisions, jobId, job, notified, isRefreshing, polls, stored >>

TriggerAnswered ==
  /\ triggering = "sent" /\ triggering' = "no"
  /\ stored' = Len(jobs) /\ jobId' = Len(jobs) /\ Poll(Len(jobs))
  /\ UNCHANGED << server, listVars, decisions, job, notified, clicks >>

TriggerFails ==
  /\ triggering = "sent" /\ triggering' = "no"
  /\ UNCHANGED << server, listVars, decisions, jobId, job, notified, isRefreshing, polls, stored, clicks >>

(* The button; the first of two answers under way enables it.              *)
RefreshJob ==
  /\ Click /\ jobId # 0 /\ ~isRefreshing /\ Poll(jobId)
  /\ UNCHANGED << server, listVars, decisions, jobId, job, notified, triggering, stored >>

ReadJob(p) ==
  /\ p.answer = None
  /\ polls' = (polls \ {p}) \cup {[p EXCEPT !.answer = jobs[p.job]]}
  /\ UNCHANGED << server, listVars, decisions, jobId, job, notified, triggering, isRefreshing, stored, clicks >>

(* Faulty variant of the next definition: one success is enough.           *)
IsFirstNews(p) == p.answer.status = "succeeded" /\ notified = 0

IsNews(p) == p.answer.status = "succeeded" /\ notified # p.job

(* setJob and the effect: a success not notified yet refreshes the list.   *)
ReceiveJob(p) ==
  /\ p.answer # None
  /\ polls' = polls \ {p} /\ isRefreshing' = FALSE
  /\ job' = [id |-> p.job, status |-> p.answer.status, upserts |-> p.answer.upserts]
  /\ IF IsNews(p)
     THEN notified' = p.job /\ FetchPage(view)
     ELSE UNCHANGED << notified, latest, asked, isLoading, requests >>
  /\ UNCHANGED << view, shown, loadError, server, decisions, jobId, triggering, stored, clicks >>

PollFails(p) ==
  /\ polls' = polls \ {p} /\ isRefreshing' = FALSE
  /\ UNCHANGED << server, listVars, decisions, jobId, job, notified, triggering, stored, clicks >>

-----------------------------------------------------------------------------
NoRows == [view |-> None, links |-> {}, total |-> 0, upserts |-> 0]
NoJob  == [id |-> 0, status |-> "none", upserts |-> 0]
First  == << "pending", 1 >>

(* Mounting: the page's first fetch, and the status of the stored job.     *)
Mounted(lastJob) ==
  [view |-> First, shown |-> NoRows, isLoading |-> TRUE, loadError |-> FALSE,
   requests |-> {[id |-> 1, view |-> First, answer |-> None]},
   polls |-> IF lastJob = 0 THEN {} ELSE {[id |-> 1, job |-> lastJob, answer |-> None]}]

(* The page is loaded again: the decisions sent are still served, no       *)
(* answer arrives any more.                                                *)
Reload ==
  LET fresh == Mounted(stored) IN
  /\ Click
  /\ view' = fresh.view /\ shown' = fresh.shown /\ isLoading' = fresh.isLoading
  /\ loadError' = fresh.loadError /\ latest' = 1 /\ asked' = First
  /\ requests' = fresh.requests /\ polls' = fresh.polls
  /\ decisions' = [l \in {k \in DOMAIN decisions : Phase(k) \in {"sent", "left"}} |->
                     [decisions[l] EXCEPT !.phase = "left"]]
  /\ triggering' = "no" /\ isRefreshing' = (stored # 0)
  /\ jobId' = stored /\ job' = NoJob /\ notified' = 0
  /\ UNCHANGED << server, stored >>

Init ==
  LET fresh == Mounted(0) IN
  /\ upserts = 0 /\ jobs = << >> /\ elsewhere = 0
  /\ idOf = [n \in Names |-> 0] /\ statusOf \in Matchings
  /\ view = fresh.view /\ shown = fresh.shown /\ isLoading = fresh.isLoading
  /\ loadError = fresh.loadError /\ latest = 1 /\ asked = First
  /\ requests = fresh.requests /\ polls = fresh.polls
  /\ decisions = << >> /\ triggering = "no" /\ isRefreshing = FALSE
  /\ jobId = 0 /\ job = NoJob /\ notified = 0 /\ stored = 0 /\ clicks = 0

ListAnswers == \E q \in requests : ReadList(q) \/ ReceiveList(q) \/ ListFails(q)

Next ==
  \/ DecideElsewhere \/ SyncUpserts
  \/ \E j \in DOMAIN jobs : RunRematch(j)
  \/ \E status \in Statuses : ChangeStatus(status)
  \/ \E page \in 1 .. Cardinality(Names) : GoToPage(page)
  \/ Refresh
  \/ ListAnswers
  \/ \E link \in shown.links, verb \in {"approve", "reject", "reassign"} : Decide(link, verb)
  \/ \E link \in DOMAIN decisions :
       ServeDecision(link) \/ DecisionAnswered(link) \/ DecisionFails(link)
  \/ Trigger \/ TriggerAnswered \/ TriggerFails
  \/ RefreshJob
  \/ \E p \in polls : ReadJob(p) \/ ReceiveJob(p) \/ PollFails(p)
  \/ Reload

(* Every request is answered or fails; nothing else need happen.           *)
Spec == Init /\ [][Next]_vars /\ WF_vars(ListAnswers)

-----------------------------------------------------------------------------
(* The type invariant of the page and the server.                          *)
JobStatuses == {"queued", "wiped", "matched", "succeeded", "failed"}
Views       == Statuses \X (Nat \ {0})
Links       == Nat \X Names
Lists       == [view : Views, links : SUBSET Links, total : Nat, upserts : Nat]
Jobs        == [status : JobStatuses, upserts : Nat]
Requests    == [id : Nat, view : Views, answer : Lists \cup {None}]
Decisions   == [phase : {"sent", "left", "granted", "refused", "done", "failed"},
                verb : {"approve", "reject", "reassign"}, view : Views, at : Nat]
PageTypeOK ==
  /\ upserts \in Nat /\ idOf \in [Names -> Nat] /\ statusOf \in [Names -> Statuses \cup {"gone"}]
  /\ jobs \in Seq(Jobs)
  /\ view \in Views /\ asked \in Views /\ shown \in Lists \cup {NoRows}
  /\ isLoading \in BOOLEAN /\ loadError \in BOOLEAN /\ latest \in Nat
  /\ requests \subseteq Requests
  /\ DOMAIN decisions \subseteq Links
  /\ \A link \in DOMAIN decisions : decisions[link] \in Decisions
  /\ {jobId, stored, notified} \subseteq 0 .. Len(jobs)
  /\ job \in [id : Nat, status : JobStatuses \cup {"none"}, upserts : Nat]
  /\ triggering \in {"no", "sent"} /\ (triggering = "sent" => jobs # << >>)
  /\ isRefreshing \in BOOLEAN
  /\ polls \subseteq [id : Nat, job : DOMAIN jobs, answer : Jobs \cup {None}]

(* The list last asked for another view than the one it is on only because *)
(* of a decision made there before, whose refresh is that of its render.   *)
(* Otherwise, when it is not loading and shows no error, it shows its      *)
(* view: no answer of another tab or page, no empty page with rows before  *)
(* it, a link the admin took out of the pending ones only if an upsert     *)
(* came between the decision and the list, and nothing older than the      *)
(* rematch whose success the page shows (latestRequestRef, the fall-back   *)
(* and onRematchSucceeded).                                                *)
ShownRowsAreCurrent ==
  /\ asked # view => \E link \in DOMAIN decisions :
                      Phase(link) = "done" /\ decisions[link].view = asked
  /\ ~isLoading /\ ~loadError /\ asked = view =>
       /\ shown.view = view
       /\ shown.links = {} /\ view[2] > 1 => shown.total = 0
       /\ view[1] = "pending" => \A link \in shown.links :
            Phase(link) = "done" => decisions[link].at < shown.upserts
       /\ job.status = "succeeded" => job.upserts <= shown.upserts

(* What the hook says of its actions: approve, reject and reassign         *)
(* re-fetch the current page afterwards, so that a page that has loaded    *)
(* shows the tab and page it is on.                                        *)
TheCurrentPageIsShown == ~isLoading /\ ~loadError => shown.view = view

(* "Loading" ends: every fetch of the list is answered, overtaken by one   *)
(* that is, or shown as an error.                                          *)
LoadingEnds == isLoading ~> ~isLoading
=============================================================================
