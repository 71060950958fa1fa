--------------------------- MODULE ReviewPage_proofs ---------------------------
(***************************************************************************)
(* Theorems about ReviewPage, for any links, page size and bounds: what    *)
(* the review page shows when it is not loading is what it should show.    *)
(***************************************************************************)
EXTENDS ReviewPage, FiniteSetTheorems, WellFoundedInduction, TLAPS

(* A rematch that has succeeded is final, and what the page knows of it    *)
(* is what the job row says.                                               *)
JobsInv ==
  /\ \A j \in DOMAIN jobs : jobs[j].upserts <= upserts
  /\ \A p \in polls : p.answer # None =>
       /\ p.answer.upserts <= upserts
       /\ p.answer.status = "succeeded" => jobs[p.job] = p.answer
  /\ notified # 0 => jobs[notified].status = "succeeded"
  /\ job.upserts <= upserts

(* A link that was decided from the page is not pending, unless an upsert  *)
(* was committed since.                                                    *)
Decided(link) ==
  decisions[link].phase \in {"granted", "done"} =>
    /\ decisions[link].at <= upserts
    /\ \/ decisions[link].at < upserts
       \/ idOf[link[2]] # link[1]
       \/ statusOf[link[2]] # "pending"
DecisionsInv == \A link \in DOMAIN decisions : Decided(link)

(* Only the refresh of a decision asks for another view than the page's.   *)
DecidedAt(of) == \E link \in DOMAIN decisions : Phase(link) = "done" /\ decisions[link].view = of
AskedInv == asked # view => DecidedAt(asked)

(* What makes a list fit to be shown: it holds what its page should, and   *)
(* it was read after everything the page has been told of was done.        *)
Sensible(l) == l.links = {} /\ l.view[2] > 1 => Pages(l.total) # l.view[2]
UpToDate(l) ==
  /\ l.view[1] = "pending" => \A link \in l.links :
       Phase(link) = "done" => decisions[link].at < l.upserts
  /\ job.status = "succeeded" => job.upserts <= l.upserts
  /\ notified # 0 => jobs[notified].upserts <= l.upserts

RequestOK(q) ==
  /\ q.id <= latest
  /\ q.id = latest => q.view = asked
  /\ q.answer # None =>
       /\ q.answer.view = q.view
       /\ Sensible(q.answer)
       /\ q.id = latest => UpToDate(q.answer)
RequestsInv == \A q \in requests : RequestOK(q)

ShownInv ==
  ~isLoading /\ ~loadError /\ asked = view =>
    /\ shown.view = view
    /\ shown.links = {} /\ view[2] > 1 => shown.total = 0
    /\ UpToDate(shown)

PageInv == PageTypeOK /\ JobsInv /\ DecisionsInv /\ AskedInv /\ RequestsInv /\ ShownInv

-----------------------------------------------------------------------------
(* Lists.                                                                  *)

LEMMA PagesByDivision ==
  ASSUME NEW t \in Nat \ {0}, NEW s \in Nat \ {0}
  PROVE  /\ (t + s - 1) \div s = (t - 1) \div s + 1
         /\ (t - 1) \div s \in Nat
  OBVIOUS

(* The links of a list have a last one.                                    *)
LEMMA LastLink ==
  ASSUME PageTypeOK, NEW S \in SUBSET Names, S # {}
  PROVE  \E m \in S : UpTo(m, S) = S
<1>1. IsFiniteSet(S) /\ S \subseteq Nat
  BY PageAssumption, FS_Subset
<1> DEFINE After(n, x) == idOf[n] < idOf[x] \/ (idOf[n] = idOf[x] /\ n < x)
           Above(n) == {x \in S : After(n, x)}
           T == {Above(n) : n \in S}
<1>2. T \subseteq SUBSET S /\ T # {}
  <2>1. \A n \in S : Above(n) \in SUBSET S
    OBVIOUS
  <2>2. PICK n \in S : TRUE
    OBVIOUS
  <2> HIDE DEF Above
  <2> QED BY <2>1, <2>2
<1>3. PICK U \in T : \A V \in T : ~(<< V, U >> \in StrictSubsetOrdering(S))
  <2>1. IsWellFoundedOn(StrictSubsetOrdering(S), SUBSET S)
    BY <1>1, FS_StrictSubsetOrderingWellFounded, FS_FiniteSubsetsOfFinite, Zenon
  <2> HIDE DEF T
  <2> QED BY <1>2, <2>1, WFMin, Zenon
<1>4. PICK m \in S : U = Above(m)
  OBVIOUS
<1>5. \A x \in S : x \in Nat /\ idOf[x] \in Nat
  BY <1>1 DEF PageTypeOK
<1>6. ASSUME NEW n \in S, After(m, n)
      PROVE  FALSE
  <2>1. \A x \in S : After(n, x) => After(m, x)
    BY <1>4, <1>5, <1>6
  <2>2. ~After(n, n)
    BY <1>5
  <2>3. Above(n) \subseteq Above(m) /\ n \in Above(m) /\ n \notin Above(n)
    <3> HIDE DEF T, After
    <3> QED BY <1>6, <2>1, <2>2
  <2>4. << Above(n), U >> \in StrictSubsetOrdering(S)
    BY <1>4, <2>3 DEF StrictSubsetOrdering
  <2> QED BY <1>3, <2>4
<1>7. UpTo(m, S) = S
  BY <1>4, <1>5, <1>6 DEF UpTo
<1> QED BY <1>7

(* A page without links is not the last one of its list.                   *)
LEMMA ListingIsSensible ==
  ASSUME PageTypeOK, NEW of \in Views
  PROVE  Listing(of) \in Lists /\ Sensible(Listing(of))
<1> DEFINE found == Found(of[1])
           total == Cardinality(found)
<1>1. found \subseteq Names /\ IsFiniteSet(found) /\ total \in Nat
  BY PageAssumption, FS_Subset, FS_CardinalityType DEF Found
<1>2. Listing(of) \in Lists
  <2>1. \A n \in found : << idOf[n], n >> \in Links
    BY <1>1 DEF Links, PageTypeOK
  <2> QED BY <1>1, <2>1 DEF Listing, Lists, PageTypeOK
<1>3. ASSUME Listing(of).links = {}, of[2] > 1, Pages(total) = of[2]
      PROVE  FALSE
  <2>1. found # {} /\ total \in Nat \ {0}
    BY <1>1, <1>3, FS_EmptySet DEF Pages
  <2>2. PICK m \in found : UpTo(m, found) = found
    BY <1>1, <2>1, LastLink
  <2>3. PageOf(m, found) = (total - 1) \div PageSize + 1
    BY <2>2 DEF PageOf
  <2>4. PageOf(m, found) = Pages(total)
    BY <2>1, <2>3, PagesByDivision, PageAssumption DEF Pages
  <2>5. << idOf[m], m >> \in Listing(of).links
    BY <1>3, <2>2, <2>4 DEF Listing
  <2> QED BY <1>3, <2>5
<1> QED BY <1>2, <1>3 DEF Sensible, Listing

-----------------------------------------------------------------------------
(* Types.                                                                  *)

LEMMA InitTyped == Init => PageTypeOK
<1> SUFFICES ASSUME Init PROVE PageTypeOK
  OBVIOUS
<1>1. idOf \in [Names -> Nat] /\ statusOf \in [Names -> Statuses \cup {"gone"}]
  BY PageAssumption DEF Init, Statuses
<1>2. First \in Views /\ NoJob \in [id : Nat, status : JobStatuses \cup {"none"}, upserts : Nat]
  BY DEF First, Views, Statuses, NoJob
<1>3. requests \subseteq Requests /\ polls = {} /\ shown = NoRows
  BY <1>2 DEF Init, Mounted, Requests
<1>4. jobs \in Seq(Jobs) /\ DOMAIN decisions = {} /\ {jobId, stored, notified} \subseteq 0 .. Len(jobs)
  BY DEF Init
<1>5. /\ upserts \in Nat /\ latest \in Nat /\ isLoading \in BOOLEAN /\ loadError \in BOOLEAN
      /\ isRefreshing \in BOOLEAN /\ triggering = "no"
      /\ view = First /\ asked = First /\ job = NoJob
  BY DEF Init, Mounted
<1> QED BY <1>1, <1>2, <1>3, <1>4, <1>5 DEF PageTypeOK

LEMMA PagesTyped ==
  ASSUME NEW total \in Nat
  PROVE  Pages(total) \in Nat \ {0}
<1>1. CASE total = 0
  BY <1>1 DEF Pages
<1>2. CASE total # 0
  <2>1. (total + PageSize - 1) \div PageSize = (total - 1) \div PageSize + 1
    BY <1>2, PagesByDivision, PageAssumption
  <2>2. (total - 1) \div PageSize \in Nat
    BY <1>2, PagesByDivision, PageAssumption
  <2> QED BY <1>2, <2>1, <2>2 DEF Pages
<1> QED BY <1>1, <1>2

LEMMA FetchTyped ==
  ASSUME PageTypeOK, NEW of \in Views, FetchPage(of)
  PROVE  /\ asked' \in Views /\ isLoading' \in BOOLEAN /\ latest' \in Nat
         /\ requests' \subseteq Requests
  BY DEF PageTypeOK, FetchPage, Requests

LEMMA ListingTyped ==
  ASSUME PageTypeOK, NEW q \in requests
  PROVE  Listing(q.view) \in Lists /\ Sensible(Listing(q.view)) /\ q.view \in Views
  BY ListingIsSensible DEF PageTypeOK, Requests

LEMMA UpsertTyped ==
  ASSUME PageTypeOK, NEW matched \in Matchings, Upsert(matched)
  PROVE  /\ upserts' \in Nat /\ idOf' \in [Names -> Nat]
         /\ statusOf' \in [Names -> Statuses \cup {"gone"}]
<1>1. matched \in [Names -> {"pending", "approved", "gone"}]
  BY PageAssumption
<1> QED BY <1>1 DEF Upsert, PageTypeOK, Statuses

LEMMA RowsTyped ==
  ASSUME PageTypeOK, DecideElsewhere \/ SyncUpserts \/ \E j \in DOMAIN jobs : RunRematch(j)
  PROVE  /\ upserts' \in Nat /\ idOf' \in [Names -> Nat]
         /\ statusOf' \in [Names -> Statuses \cup {"gone"}]
<1>1. CASE DecideElsewhere
  BY <1>1 DEF DecideElsewhere, PageTypeOK, Statuses
<1>2. CASE SyncUpserts
  BY <1>2, UpsertTyped DEF SyncUpserts
<1>3. ASSUME NEW j \in DOMAIN jobs, RunRematch(j)
      PROVE  /\ upserts' \in Nat /\ idOf' \in [Names -> Nat]
             /\ statusOf' \in [Names -> Statuses \cup {"gone"}]
  <2>1. CASE \E matched \in Matchings : Upsert(matched)
    BY <2>1, UpsertTyped
  <2>2. CASE ~\E matched \in Matchings : Upsert(matched)
    BY <1>3, <2>2, SMTT(30) DEF RunRematch, rows, PageTypeOK, Statuses
  <2> QED BY <2>1, <2>2
<1> QED BY <1>1, <1>2, <1>3

LEMMA ServerTyped ==
  ASSUME PageTypeOK, DecideElsewhere \/ SyncUpserts \/ \E j \in DOMAIN jobs : RunRematch(j)
  PROVE  PageTypeOK'
<1>1. CASE DecideElsewhere \/ SyncUpserts
  BY <1>1, RowsTyped DEF DecideElsewhere, SyncUpserts, PageTypeOK, listVars, jobVars
<1>2. ASSUME NEW j \in DOMAIN jobs, RunRematch(j)
      PROVE  PageTypeOK'
  <2>1. jobs' \in Seq(Jobs) /\ Len(jobs') = Len(jobs) /\ DOMAIN jobs' = DOMAIN jobs
    <3>1. jobs \in Seq(Jobs) /\ jobs[j] \in Jobs /\ upserts + 1 \in Nat
      BY DEF PageTypeOK
    <3>2. \E next \in Jobs : jobs' = [jobs EXCEPT ![j] = next]
      <4>1. CASE jobs' = [jobs EXCEPT ![j].status = "wiped"]
        BY <3>1, <4>1 DEF Jobs, JobStatuses
      <4>2. CASE jobs' = [jobs EXCEPT ![j].status = "succeeded"]
        BY <3>1, <4>2 DEF Jobs, JobStatuses
      <4>3. CASE jobs' = [jobs EXCEPT ![j].status = "failed"]
        BY <3>1, <4>3 DEF Jobs, JobStatuses
      <4>4. CASE jobs' = [jobs EXCEPT ![j] = [status |-> "matched", upserts |-> upserts + 1]]
        BY <3>1, <4>4 DEF Jobs, JobStatuses
      <4> QED BY <1>2, <4>1, <4>2, <4>3, <4>4 DEF RunRematch
    <3> QED BY <3>1, <3>2
  <2>2. jobs # << >> => jobs' # << >>
    BY <1>2, <2>1 DEF PageTypeOK
  <2>3. upserts' \in Nat /\ idOf' \in [Names -> Nat] /\ statusOf' \in [Names -> Statuses \cup {"gone"}]
    BY <1>2, RowsTyped
  <2>4. UNCHANGED << listVars, decisions, jobVars >>
    BY <1>2 DEF RunRematch
  <2> QED BY <2>1, <2>2, <2>3, <2>4, SMTT(30) DEF PageTypeOK, listVars, jobVars
<1> QED BY <1>1, <1>2

LEMMA GoToTyped ==
  ASSUME PageTypeOK, NEW of \in Views, GoTo(of),
         UNCHANGED << shown, loadError, server, decisions, jobVars >>
  PROVE  PageTypeOK'
<1>1. CASE of = view
  BY <1>1 DEF GoTo, PageTypeOK, server, rows, jobVars
<1>2. CASE of # view
  BY <1>2, FetchTyped DEF GoTo, PageTypeOK, server, rows, jobVars
<1> QED BY <1>1, <1>2

LEMMA ListTyped ==
  ASSUME PageTypeOK,
         \/ \E status \in Statuses : ChangeStatus(status)
         \/ \E page \in Nat : GoToPage(page)
         \/ Refresh \/ ListAnswers
  PROVE  PageTypeOK'
<1>1. ASSUME NEW status \in Statuses, ChangeStatus(status)
      PROVE  PageTypeOK'
  BY <1>1, GoToTyped DEF ChangeStatus, Views
<1>2. ASSUME NEW page \in Nat, GoToPage(page)
      PROVE  PageTypeOK'
  <2>1. << view[1], page >> \in Views
    BY <1>2 DEF GoToPage, Views, PageTypeOK
  <2> QED BY <1>2, <2>1, GoToTyped DEF GoToPage
<1>3. CASE Refresh
  BY <1>3, FetchTyped DEF Refresh, PageTypeOK, server, rows, jobVars
<1>4. ASSUME NEW q \in requests, ReadList(q)
      PROVE  PageTypeOK'
  <2>1. requests' \subseteq Requests
    <3>1. q.id \in Nat /\ q.view \in Views /\ q = [id |-> q.id, view |-> q.view, answer |-> q.answer]
      BY DEF PageTypeOK, Requests
    <3>2. Listing(q.view) \in Lists
      BY <3>1, ListingTyped
    <3> DEFINE read == [q EXCEPT !.answer = Listing(q.view)]
    <3>3. read = [id |-> q.id, view |-> q.view, answer |-> Listing(q.view)]
      BY <3>1
    <3>4. read \in Requests
      BY <3>1, <3>2, <3>3 DEF Requests
    <3>5. requests' = (requests \ {q}) \cup {read}
      BY <1>4 DEF ReadList
    <3> HIDE DEF read
    <3> QED BY <3>4, <3>5 DEF PageTypeOK
  <2>2. UNCHANGED << view, shown, isLoading, loadError, latest, asked, server, decisions, jobVars >>
    BY <1>4 DEF ReadList
  <2> QED BY <2>1, <2>2, SMTT(30) DEF PageTypeOK, server, rows, jobVars
<1>5. ASSUME NEW q \in requests, ReceiveList(q)
      PROVE  PageTypeOK'
  <2>1. q.answer \in Lists /\ q.view \in Views /\ q.id \in Nat
    BY <1>5 DEF ReceiveList, PageTypeOK, Requests
  <2> DEFINE of == << view[1], Pages(q.answer.total) >>
  <2>2. of \in Views
    BY <2>1, PagesTyped DEF Views, Lists, PageTypeOK
  <2>3. /\ requests' \subseteq requests \cup {[id |-> latest + 1, view |-> of, answer |-> None]}
        /\ view' \in {view, of} /\ asked' \in {asked, of} /\ latest' \in {latest, latest + 1}
    <3> HIDE DEF of
    <3> QED BY <1>5 DEF ReceiveList, of
  <2> HIDE DEF of
  <2>4. /\ requests' \subseteq Requests
        /\ view' \in Views /\ asked' \in Views /\ latest' \in Nat
    BY <2>2, <2>3 DEF PageTypeOK, Requests
  <2>5. shown' \in Lists \cup {NoRows} /\ isLoading' \in BOOLEAN /\ loadError' \in BOOLEAN
    BY <1>5, <2>1 DEF ReceiveList, PageTypeOK
  <2> QED BY <1>5, <2>4, <2>5 DEF ReceiveList, PageTypeOK, server, rows, jobVars
<1>6. ASSUME NEW q \in requests, ListFails(q)
      PROVE  PageTypeOK'
  BY <1>6 DEF ListFails, PageTypeOK, server, rows, jobVars
<1> QED BY <1>1, <1>2, <1>3, <1>4, <1>5, <1>6 DEF ListAnswers

LEMMA DecisionTyped ==
  ASSUME PageTypeOK, NEW link \in Links, NEW value \in Decisions, Decision(link, value)
  PROVE  /\ DOMAIN decisions' \subseteq Links
         /\ \A l \in DOMAIN decisions' : decisions'[l] \in Decisions
  BY DEF Decision, PageTypeOK

(* What becomes of a decision keeps its verb and its view.                 *)
LEMMA PhaseDecision ==
  ASSUME PageTypeOK, NEW link \in DOMAIN decisions,
         NEW phase \in {"left", "granted", "refused", "done", "failed"}
  PROVE  /\ [decisions[link] EXCEPT !.phase = phase] \in Decisions
         /\ [decisions[link] EXCEPT !.at = upserts, !.phase = phase] \in Decisions
<1>1. decisions[link] \in Decisions /\ upserts \in Nat
  BY DEF PageTypeOK
<1> QED BY <1>1 DEF Decisions

LEMMA CardsTyped ==
  ASSUME PageTypeOK,
         \/ \E link \in shown.links, verb \in {"approve", "reject", "reassign"} : Decide(link, verb)
         \/ \E link \in DOMAIN decisions :
              ServeDecision(link) \/ DecisionAnswered(link) \/ DecisionFails(link)
  PROVE  PageTypeOK'
<1>1. ASSUME NEW link \in shown.links, NEW verb \in {"approve", "reject", "reassign"},
             Decide(link, verb)
      PROVE  PageTypeOK'
  <2>1. link \in Links /\ view \in Views
    BY DEF PageTypeOK, Lists, NoRows
  <2>2. [phase |-> "sent", verb |-> verb, view |-> view, at |-> 0] \in Decisions
    BY <2>1 DEF Decisions
  <2> QED BY <1>1, <2>1, <2>2, DecisionTyped, ZenonT(30)
          DEF Decide, PageTypeOK, server, rows, listVars, jobVars
<1>2. ASSUME NEW link \in DOMAIN decisions, ServeDecision(link)
      PROVE  PageTypeOK'
  <2>1. link \in Links
    BY DEF PageTypeOK
  <2>2. /\ DOMAIN decisions' \subseteq Links
        /\ \A l \in DOMAIN decisions' : decisions'[l] \in Decisions
    <3>1. CASE Forget({link})
      BY <3>1 DEF Forget, PageTypeOK
    <3>2. CASE \E phase \in {"granted", "refused"} :
                 Decision(link, [decisions[link] EXCEPT !.at = upserts, !.phase = phase])
      BY <2>1, <3>2, PhaseDecision, DecisionTyped
    <3> QED BY <1>2, <3>1, <3>2 DEF ServeDecision
  <2>3. statusOf' \in [Names -> Statuses \cup {"gone"}]
    BY <1>2, <2>1 DEF ServeDecision, PageTypeOK, Statuses, Links
  <2> QED BY <1>2, <2>2, <2>3, ZenonT(60) DEF ServeDecision, PageTypeOK, listVars, jobVars
<1>3. ASSUME NEW link \in DOMAIN decisions, DecisionAnswered(link)
      PROVE  PageTypeOK'
  <2>1. link \in Links /\ decisions[link].view \in Views
    BY DEF PageTypeOK, Decisions
  <2>2. /\ DOMAIN decisions' \subseteq Links
        /\ \A l \in DOMAIN decisions' : decisions'[l] \in Decisions
    BY <1>3, <2>1, PhaseDecision, DecisionTyped DEF DecisionAnswered
  <2>3. FetchPage(decisions[link].view)
    BY <1>3 DEF DecisionAnswered
  <2> QED BY <1>3, <2>1, <2>2, <2>3, FetchTyped, ZenonT(30)
          DEF DecisionAnswered, PageTypeOK, server, rows, jobVars
<1>4. ASSUME NEW link \in DOMAIN decisions, DecisionFails(link)
      PROVE  PageTypeOK'
  <2>1. link \in Links
    BY DEF PageTypeOK
  <2>2. /\ DOMAIN decisions' \subseteq Links
        /\ \A l \in DOMAIN decisions' : decisions'[l] \in Decisions
    BY <1>4, <2>1, PhaseDecision, DecisionTyped DEF DecisionFails
  <2> QED BY <1>4, <2>2, ZenonT(30) DEF DecisionFails, PageTypeOK, server, rows, listVars, jobVars
<1> QED BY <1>1, <1>2, <1>3, <1>4

Polls == [id : Nat, job : DOMAIN jobs, answer : Jobs \cup {None}]

LEMMA PollTyped ==
  ASSUME PageTypeOK, NEW j \in DOMAIN jobs, Poll(j)
  PROVE  isRefreshing' \in BOOLEAN /\ polls' \subseteq Polls
<1>1. PICK id \in 1 .. Cardinality(polls) + 1 :
        polls' = polls \cup {[id |-> id, job |-> j, answer |-> None]}
  BY DEF Poll
<1>2. id \in Nat
  BY <1>1
<1> QED BY <1>1, <1>2 DEF Poll, Polls, PageTypeOK

LEMMA RematchTyped ==
  ASSUME PageTypeOK,
         \/ Trigger \/ TriggerAnswered \/ TriggerFails \/ RefreshJob
         \/ \E p \in polls : ReadJob(p) \/ ReceiveJob(p) \/ PollFails(p)
  PROVE  PageTypeOK'
<1>0. jobs \in Seq(Jobs)
  BY DEF PageTypeOK
<1>1. CASE Trigger
  <2>1. [status |-> "queued", upserts |-> 0] \in Jobs
    BY DEF Jobs, JobStatuses
  <2>2. jobs' \in Seq(Jobs) /\ Len(jobs') = Len(jobs) + 1 /\ jobs' # << >>
    BY <1>0, <1>1, <2>1 DEF Trigger
  <2>3. DOMAIN jobs \subseteq DOMAIN jobs' /\ 0 .. Len(jobs) \subseteq 0 .. Len(jobs')
    BY <1>0, <2>2
  <2> QED BY <1>1, <2>2, <2>3 DEF Trigger, PageTypeOK, rows, listVars
<1>2. CASE TriggerAnswered
  <2>1. Len(jobs) \in DOMAIN jobs /\ Len(jobs) \in 0 .. Len(jobs)
    BY <1>0, <1>2 DEF TriggerAnswered, PageTypeOK
  <2>2. isRefreshing' \in BOOLEAN /\ polls' \subseteq Polls
    BY <1>2, <2>1, PollTyped DEF TriggerAnswered
  <2> QED BY <1>2, <2>1, <2>2 DEF TriggerAnswered, PageTypeOK, Polls, server, rows, listVars
<1>3. CASE TriggerFails
  BY <1>3 DEF TriggerFails, PageTypeOK, server, rows, listVars
<1>4. CASE RefreshJob
  <2>1. jobId \in DOMAIN jobs
    BY <1>0, <1>4 DEF RefreshJob, PageTypeOK
  <2>2. isRefreshing' \in BOOLEAN /\ polls' \subseteq Polls
    BY <1>4, <2>1, PollTyped DEF RefreshJob
  <2> QED BY <1>4, <2>1, <2>2 DEF RefreshJob, PageTypeOK, Polls, server, rows, listVars
<1>5. ASSUME NEW p \in polls, ReadJob(p)
      PROVE  PageTypeOK'
  <2>1. jobs[p.job] \in Jobs
    BY <1>0 DEF PageTypeOK
  <2>2. polls' \subseteq Polls
    BY <1>5, <2>1 DEF ReadJob, PageTypeOK, Polls
  <2> QED BY <1>5, <2>2 DEF ReadJob, PageTypeOK, Polls, server, rows, listVars
<1>6. ASSUME NEW p \in polls, ReceiveJob(p)
      PROVE  PageTypeOK'
  <2>1. p.job \in DOMAIN jobs /\ p.job \in 0 .. Len(jobs) /\ p.job \in Nat /\ p.answer \in Jobs
    BY <1>0, <1>6 DEF ReceiveJob, PageTypeOK
  <2>2. job' \in [id : Nat, status : JobStatuses \cup {"none"}, upserts : Nat]
    BY <1>6, <2>1 DEF ReceiveJob, Jobs
  <2>3. view \in Views
    BY DEF PageTypeOK
  <2>4. /\ asked' \in Views /\ isLoading' \in BOOLEAN /\ latest' \in Nat
        /\ requests' \subseteq Requests /\ notified' \in 0 .. Len(jobs)
    BY <1>6, <2>1, <2>3, FetchTyped DEF ReceiveJob, PageTypeOK
  <2> QED BY <1>6, <2>1, <2>2, <2>4 DEF ReceiveJob, PageTypeOK, server, rows
<1>7. ASSUME NEW p \in polls, PollFails(p)
      PROVE  PageTypeOK'
  BY <1>7 DEF PollFails, PageTypeOK, server, rows, listVars
<1> QED BY <1>1, <1>2, <1>3, <1>4, <1>5, <1>6, <1>7

LEMMA ReloadTyped == ASSUME PageTypeOK, Reload PROVE PageTypeOK'
<1>1. jobs \in Seq(Jobs) /\ stored \in 0 .. Len(jobs)
  BY DEF PageTypeOK
<1>2. stored # 0 => stored \in DOMAIN jobs
  BY <1>1
<1>3. << "pending", 1 >> \in Views
  BY DEF Views, Statuses
<1>4. polls' \subseteq [id : Nat, job : DOMAIN jobs, answer : Jobs \cup {None}]
        /\ isRefreshing' \in BOOLEAN
  BY <1>2 DEF Reload, Mounted
<1>5. requests' \subseteq Requests
  BY <1>3 DEF Reload, Mounted, First, Requests
<1>6. /\ DOMAIN decisions' \subseteq Links
      /\ \A l \in DOMAIN decisions' : decisions'[l] \in Decisions
  BY PhaseDecision DEF Reload, PageTypeOK
<1>7. /\ upserts' \in Nat /\ idOf' \in [Names -> Nat] /\ statusOf' \in [Names -> Statuses \cup {"gone"}]
      /\ jobs' \in Seq(Jobs) /\ jobs' = jobs
  BY DEF Reload, PageTypeOK, server, rows
<1>8. /\ view' \in Views /\ asked' \in Views /\ shown' = NoRows
      /\ isLoading' \in BOOLEAN /\ loadError' \in BOOLEAN /\ latest' \in Nat
  BY <1>3 DEF Reload, Mounted, First
<1>9. /\ {jobId', stored', notified'} \subseteq 0 .. Len(jobs) /\ triggering' = "no"
      /\ job' \in [id : Nat, status : JobStatuses \cup {"none"}, upserts : Nat]
  BY <1>1 DEF Reload, NoJob
<1> QED BY <1>4, <1>5, <1>6, <1>7, <1>8, <1>9 DEF PageTypeOK

LEMMA StepTyped == ASSUME PageTypeOK, [Next]_vars PROVE PageTypeOK'
<1>1. CASE UNCHANGED vars
  BY <1>1 DEF vars, server, rows, listVars, jobVars, PageTypeOK
<1>2. CASE \E page \in 1 .. Cardinality(Names) : GoToPage(page)
  <2>1. Cardinality(Names) \in Nat
    BY PageAssumption, FS_CardinalityType
  <2> QED BY <1>2, <2>1, ListTyped
<1>3. CASE Reload
  BY <1>3, ReloadTyped
<1> QED BY <1>1, <1>2, <1>3, ServerTyped, ListTyped, CardsTyped, RematchTyped DEF Next

(* The page's variables, the requests under way and the server's tables    *)
(* keep their shape (usePendingIdentityLinks, useIdentityLinkRematch).     *)
THEOREM PageTyped == Spec => []PageTypeOK
  BY InitTyped, StepTyped, PTL DEF Spec

-----------------------------------------------------------------------------
(* What every step keeps of the lists under way and of the list shown.     *)

(* A new request for the list: the earlier ones no longer count.           *)
LEMMA Fetching ==
  ASSUME PageTypeOK, RequestsInv, NEW of \in Views, FetchPage(of)
  PROVE  RequestsInv' /\ ShownInv'
<1>1. ASSUME NEW q \in requests'
      PROVE  RequestOK(q)'
  <2>1. CASE q \in requests
    BY <2>1 DEF RequestsInv, RequestOK, FetchPage, PageTypeOK, Requests
  <2>2. CASE q = [id |-> latest + 1, view |-> of, answer |-> None]
    BY <2>2 DEF RequestOK, FetchPage, PageTypeOK, Requests
  <2> QED BY <2>1, <2>2 DEF FetchPage
<1>2. ShownInv'
  BY DEF FetchPage, ShownInv
<1> QED BY <1>1, <1>2 DEF RequestsInv

(* A step beside the list: nothing of it changes but what others decided.  *)
LEMMA Beside ==
  ASSUME RequestsInv, ShownInv, UNCHANGED << listVars, job, notified >>,
         notified # 0 => jobs'[notified] = jobs[notified],
         \A link \in DOMAIN decisions' : decisions'[link].phase = "done" =>
           link \in DOMAIN decisions /\ decisions[link] = decisions'[link]
  PROVE  RequestsInv' /\ ShownInv'
<1>1. ASSUME NEW link, Phase(link)' = "done"
      PROVE  Phase(link) = "done" /\ decisions'[link] = decisions[link]
  BY <1>1 DEF Phase
<1>2. ASSUME NEW l, UpToDate(l)
      PROVE  UpToDate(l)'
  BY <1>1, <1>2 DEF UpToDate
<1>3. RequestsInv'
  BY <1>2 DEF RequestsInv, RequestOK, listVars
<1>4. ShownInv'
  BY <1>2 DEF ShownInv, listVars
<1> QED BY <1>3, <1>4

-----------------------------------------------------------------------------
(* The rematches.                                                          *)

LEMMA RunKeepsJobs ==
  ASSUME PageTypeOK, JobsInv, NEW j \in DOMAIN jobs, RunRematch(j)
  PROVE  JobsInv' /\ (notified # 0 => jobs'[notified] = jobs[notified])
<1>1. jobs \in Seq(Jobs) /\ jobs[j] \in Jobs /\ upserts \in Nat
  BY DEF PageTypeOK
<1>2. upserts' \in Nat /\ upserts <= upserts'
  BY <1>1 DEF RunRematch, Upsert, rows
<1>3. jobs[j].status # "succeeded"
  BY DEF RunRematch
<1>4. DOMAIN jobs' = DOMAIN jobs /\ \A k \in DOMAIN jobs \ {j} : jobs'[k] = jobs[k]
  BY <1>1 DEF RunRematch
<1>5. jobs'[j].upserts <= upserts'
  BY <1>1, SMTT(30) DEF RunRematch, Upsert, rows, JobsInv, Jobs
<1>6. \A k \in DOMAIN jobs : jobs[k].upserts \in Nat
  <2>1. \A k \in DOMAIN jobs : jobs[k] \in Jobs
    BY <1>1
  <2> QED BY <2>1 DEF Jobs
<1>7. \A k \in DOMAIN jobs' : jobs'[k].upserts <= upserts'
  BY <1>1, <1>2, <1>4, <1>5, <1>6 DEF JobsInv
<1>8. notified # 0 => notified \in DOMAIN jobs /\ notified # j
  BY <1>1, <1>3 DEF JobsInv, PageTypeOK
<1>9. \A p \in polls : p.answer # None =>
        /\ p.answer.upserts <= upserts'
        /\ p.answer.status = "succeeded" => p.job \in DOMAIN jobs /\ p.job # j
  BY <1>1, <1>2, <1>3 DEF JobsInv, PageTypeOK, Jobs
<1>10. job.upserts <= upserts'
  BY <1>1, <1>2 DEF JobsInv, PageTypeOK
<1>11. UNCHANGED << polls, notified, job >>
  BY DEF RunRematch, jobVars
<1> QED BY <1>4, <1>7, <1>8, <1>9, <1>10, <1>11 DEF JobsInv

LEMMA JobsKept == ASSUME PageTypeOK, JobsInv, [Next]_vars PROVE JobsInv'
<1>0. jobs \in Seq(Jobs) /\ upserts \in Nat
  BY DEF PageTypeOK
<1>1. CASE UNCHANGED << upserts, jobs, jobVars >>
  BY <1>1 DEF JobsInv, jobVars
<1>2. ASSUME NEW j \in DOMAIN jobs, RunRematch(j)
      PROVE  JobsInv'
  BY <1>2, RunKeepsJobs
<1>2a. CASE SyncUpserts
  <2>1. upserts' = upserts + 1 /\ UNCHANGED << jobs, polls, notified, job >>
    BY <1>2a DEF SyncUpserts, Upsert, jobVars
  <2>1a. \A k \in DOMAIN jobs : jobs[k] \in Jobs
    BY <1>0
  <2>2. \A k \in DOMAIN jobs : jobs[k].upserts \in Nat /\ jobs[k].upserts <= upserts
    BY <2>1a DEF JobsInv, Jobs
  <2>3. \A p \in polls : p.answer # None => p.answer.upserts \in Nat /\ p.answer.upserts <= upserts
    BY DEF JobsInv, PageTypeOK, Jobs
  <2>4. job.upserts \in Nat /\ job.upserts <= upserts
    BY DEF JobsInv, PageTypeOK
  <2> QED BY <1>0, <2>1, <2>2, <2>3, <2>4 DEF JobsInv
<1>3. CASE Trigger
  <2>1. jobs' = Append(jobs, [status |-> "queued", upserts |-> 0])
          /\ UNCHANGED << upserts, polls, notified, job >>
    BY <1>3 DEF Trigger, rows
  <2>2. \A k \in DOMAIN jobs : k \in DOMAIN jobs' /\ jobs'[k] = jobs[k]
    BY <1>0, <2>1
  <2>3. \A k \in DOMAIN jobs' : jobs'[k].upserts <= upserts
    BY <1>0, <2>1 DEF JobsInv
  <2>4. \A p \in polls : p.job \in DOMAIN jobs
    BY DEF PageTypeOK
  <2>5. notified # 0 => notified \in DOMAIN jobs
    BY <1>0 DEF PageTypeOK
  <2> QED BY <2>1, <2>2, <2>3, <2>4, <2>5 DEF JobsInv
<1>4. CASE TriggerAnswered \/ TriggerFails \/ RefreshJob
  BY <1>4 DEF TriggerAnswered, TriggerFails, RefreshJob, Poll, JobsInv, server, rows
<1>5. ASSUME NEW p \in polls, ReadJob(p) \/ PollFails(p)
      PROVE  JobsInv'
  <2>1. p.job \in DOMAIN jobs /\ jobs[p.job].upserts <= upserts
    BY DEF JobsInv, PageTypeOK
  <2>2. \A r \in polls' \ polls : r.job = p.job /\ r.answer = jobs[p.job]
    BY <1>5 DEF ReadJob, PollFails, PageTypeOK
  <2>3. UNCHANGED << upserts, jobs, notified, job >>
    BY <1>5 DEF ReadJob, PollFails, server, rows
  <2> QED BY <2>1, <2>2, <2>3 DEF JobsInv
<1>6. ASSUME NEW p \in polls, ReceiveJob(p)
      PROVE  JobsInv'
  <2>1. p.answer # None /\ polls' = polls \ {p} /\ UNCHANGED << upserts, jobs >>
    BY <1>6 DEF ReceiveJob, server, rows
  <2>2. p.answer.upserts <= upserts /\ (p.answer.status = "succeeded" => jobs[p.job] = p.answer)
    BY <2>1 DEF JobsInv
  <2>3. job'.upserts = p.answer.upserts
    BY <1>6 DEF ReceiveJob
  <2>4. \/ notified' = notified
        \/ notified' = p.job /\ p.answer.status = "succeeded"
    BY <1>6 DEF ReceiveJob, IsNews
  <2>5. notified' # 0 => jobs'[notified'].status = "succeeded"
    BY <2>1, <2>2, <2>4 DEF JobsInv
  <2> QED BY <2>1, <2>2, <2>3, <2>5 DEF JobsInv
<1>7. CASE Reload
  BY <1>0, <1>7 DEF Reload, Mounted, NoJob, JobsInv, server, rows
<1>8. ASSUME \/ DecideElsewhere
             \/ \E status \in Statuses : ChangeStatus(status)
             \/ \E page \in 1 .. Cardinality(Names) : GoToPage(page)
             \/ Refresh \/ ListAnswers
             \/ \E link \in shown.links, verb \in {"approve", "reject", "reassign"} : Decide(link, verb)
             \/ \E link \in DOMAIN decisions :
                  ServeDecision(link) \/ DecisionAnswered(link) \/ DecisionFails(link)
             \/ UNCHANGED vars
      PROVE  UNCHANGED << upserts, jobs, jobVars >>
  BY <1>8 DEF DecideElsewhere, ChangeStatus, GoToPage, Refresh, ListAnswers, ReadList, ReceiveList,
              ListFails, Decide, ServeDecision, DecisionAnswered, DecisionFails, vars, server, rows
<1> QED BY <1>1, <1>2, <1>2a, <1>3, <1>4, <1>5, <1>6, <1>7, <1>8 DEF Next

-----------------------------------------------------------------------------
(* The decisions.                                                          *)

LEMMA DecidedByNow ==
  ASSUME PageTypeOK, NEW link \in DOMAIN decisions, Decided(link),
         decisions' = decisions, upserts' \in Nat, upserts <= upserts',
         \/ upserts < upserts'
         \/ /\ idOf' = idOf
            /\ \A n \in Names : statusOf'[n] = "pending" => statusOf[n] = "pending"
  PROVE  Decided(link)'
<1>1. link[2] \in Names /\ decisions[link].at \in Nat /\ upserts \in Nat
  BY DEF PageTypeOK, Links, Decisions
<1> QED BY <1>1 DEF Decided

LEMMA DecisionsKept ==
  ASSUME PageTypeOK, DecisionsInv, [Next]_vars
  PROVE  DecisionsInv'
<1>0. upserts \in Nat
  BY DEF PageTypeOK
<1>1. CASE UNCHANGED << rows, decisions >>
  BY <1>1 DEF DecisionsInv, Decided, rows
<1>2. CASE DecideElsewhere
  <2>1. \A n \in Names : statusOf'[n] = "pending" => statusOf[n] = "pending"
    BY <1>2 DEF DecideElsewhere, PageTypeOK
  <2>2. UNCHANGED << upserts, idOf, decisions >>
    BY <1>2 DEF DecideElsewhere
  <2> QED BY <1>0, <2>1, <2>2, DecidedByNow DEF DecisionsInv
<1>3. CASE SyncUpserts
  BY <1>0, <1>3, DecidedByNow DEF SyncUpserts, Upsert, DecisionsInv
<1>4. ASSUME NEW j \in DOMAIN jobs, RunRematch(j)
      PROVE  DecisionsInv'
  <2>1. decisions' = decisions
    BY <1>4 DEF RunRematch
  <2>2. \/ upserts' = upserts + 1
        \/ upserts' = upserts /\ idOf' = idOf /\ \A n \in Names : statusOf'[n] \in {"gone", statusOf[n]}
    BY <1>4 DEF RunRematch, Upsert, rows
  <2> QED BY <1>0, <2>1, <2>2, DecidedByNow DEF DecisionsInv
<1>5. ASSUME NEW link \in shown.links, NEW verb \in {"approve", "reject", "reassign"}, Decide(link, verb)
      PROVE  DecisionsInv'
  BY <1>5 DEF Decide, Decision, DecisionsInv, Decided, server, rows
<1>6. ASSUME NEW link \in DOMAIN decisions, ServeDecision(link)
      PROVE  DecisionsInv'
  <2>1. link \in Links /\ decisions[link] \in Decisions
    BY DEF PageTypeOK
  <2>2. DOMAIN decisions' \subseteq DOMAIN decisions
          /\ \A l \in DOMAIN decisions' \ {link} : decisions'[l] = decisions[l]
    BY <1>6 DEF ServeDecision, Decision, Forget
  <2>3. UNCHANGED << upserts, idOf >>
    BY <1>6 DEF ServeDecision
  <2>4. \A n \in Names : statusOf'[n] = "pending" => statusOf[n] = "pending"
    BY <1>6 DEF ServeDecision, PageTypeOK
  <2>5. ASSUME NEW l \in DOMAIN decisions', l # link
        PROVE  Decided(l)'
    <3>1. l[2] \in Names /\ Decided(l) /\ decisions'[l] = decisions[l]
      BY <2>2, <2>5 DEF DecisionsInv, PageTypeOK, Links
    <3> QED BY <2>3, <2>4, <3>1 DEF Decided
  <2>6. ASSUME link \in DOMAIN decisions'
        PROVE  Decided(link)'
    <3>1. decisions'[link] \in {[decisions[link] EXCEPT !.at = upserts, !.phase = "granted"],
                               [decisions[link] EXCEPT !.at = upserts, !.phase = "refused"]}
      BY <1>6, <2>6 DEF ServeDecision, Decision, Forget
    <3>2. decisions'[link].at = upserts /\ decisions'[link].phase \in {"granted", "refused"}
      BY <2>1, <3>1 DEF Decisions
    <3>3. decisions'[link].phase = "granted" /\ link[1] = idOf[link[2]] => statusOf'[link[2]] # "pending"
      BY <1>6, <2>1, <2>6, <3>2 DEF ServeDecision, Decision, Forget, Links, PageTypeOK, Decisions
    <3> QED BY <1>0, <2>3, <3>2, <3>3 DEF Decided
  <2> QED BY <2>5, <2>6 DEF DecisionsInv
<1>7. ASSUME NEW link \in DOMAIN decisions, DecisionAnswered(link) \/ DecisionFails(link)
      PROVE  DecisionsInv'
  <2>1. decisions[link] \in Decisions
    BY DEF PageTypeOK
  <2>2. DOMAIN decisions' = DOMAIN decisions
          /\ \A l \in DOMAIN decisions \ {link} : decisions'[l] = decisions[l]
    BY <1>7 DEF DecisionAnswered, DecisionFails, Decision
  <2>3. /\ decisions'[link].at = decisions[link].at
        /\ decisions'[link].phase = "done" => decisions[link].phase = "granted"
        /\ decisions'[link].phase # "granted"
    BY <1>7, <2>1 DEF DecisionAnswered, DecisionFails, Decision, Phase, Decisions
  <2>4. UNCHANGED rows
    BY <1>7 DEF DecisionAnswered, DecisionFails, server, listVars
  <2> QED BY <2>2, <2>3, <2>4 DEF DecisionsInv, Decided, rows
<1>8. CASE Reload
  <2>1. /\ DOMAIN decisions' \subseteq DOMAIN decisions /\ UNCHANGED rows
        /\ \A l \in DOMAIN decisions' : decisions'[l] = [decisions[l] EXCEPT !.phase = "left"]
    BY <1>8 DEF Reload, server
  <2>2. \A l \in DOMAIN decisions' : decisions'[l].phase = "left"
    BY <2>1 DEF PageTypeOK, Decisions
  <2> QED BY <2>2 DEF DecisionsInv, Decided
<1>9. ASSUME \/ \E status \in Statuses : ChangeStatus(status)
             \/ \E page \in 1 .. Cardinality(Names) : GoToPage(page)
             \/ Refresh \/ ListAnswers
             \/ Trigger \/ TriggerAnswered \/ TriggerFails \/ RefreshJob
             \/ \E p \in polls : ReadJob(p) \/ ReceiveJob(p) \/ PollFails(p)
             \/ UNCHANGED vars
      PROVE  UNCHANGED << rows, decisions >>
  BY <1>9 DEF ChangeStatus, GoToPage, Refresh, ListAnswers, ReadList, ReceiveList, ListFails,
              Trigger, TriggerAnswered, TriggerFails, RefreshJob, ReadJob, ReceiveJob, PollFails,
              server, vars
<1> QED BY <1>1, <1>2, <1>3, <1>4, <1>5, <1>6, <1>7, <1>8, <1>9 DEF Next

-----------------------------------------------------------------------------
(* The view last asked for.                                                *)

(* Once answered, a decision stays so until the page is loaded again.      *)
LEMMA AskedBefore ==
  ASSUME AskedInv,
         asked' = view' \/ UNCHANGED << view, asked >>,
         \A link \in DOMAIN decisions : decisions[link].phase = "done" =>
           link \in DOMAIN decisions' /\ decisions'[link] = decisions[link]
  PROVE  AskedInv'
<1>1. CASE asked' = view'
  BY <1>1 DEF AskedInv
<1>2. CASE UNCHANGED << view, asked >>
  BY <1>2 DEF AskedInv, DecidedAt, Phase
<1> QED BY <1>1, <1>2

LEMMA AskedKept ==
  ASSUME PageTypeOK, AskedInv, [Next]_vars
  PROVE  AskedInv'
<1>1. ASSUME decisions' = decisions, asked' = view' \/ UNCHANGED << view, asked >>
      PROVE  AskedInv'
  BY <1>1, AskedBefore
<1>2. CASE \/ DecideElsewhere \/ SyncUpserts \/ \E j \in DOMAIN jobs : RunRematch(j)
           \/ Trigger \/ TriggerAnswered \/ TriggerFails \/ RefreshJob
           \/ \E p \in polls : ReadJob(p) \/ PollFails(p)
           \/ UNCHANGED vars
  BY <1>1, <1>2 DEF DecideElsewhere, SyncUpserts, RunRematch, Trigger, TriggerAnswered, TriggerFails,
                    RefreshJob, ReadJob, PollFails, listVars, vars
<1>3. CASE \/ \E status \in Statuses : ChangeStatus(status)
           \/ \E page \in 1 .. Cardinality(Names) : GoToPage(page)
           \/ Refresh
  BY <1>1, <1>3 DEF ChangeStatus, GoToPage, Refresh, GoTo, FetchPage
<1>4. CASE ListAnswers
  BY <1>1, <1>4 DEF ListAnswers, ReadList, ReceiveList, ListFails
<1>5. CASE \E p \in polls : ReceiveJob(p)
  BY <1>1, <1>5 DEF ReceiveJob, FetchPage
<1>6. ASSUME NEW link \in shown.links, NEW verb \in {"approve", "reject", "reassign"}, Decide(link, verb)
      PROVE  AskedInv'
  <2>1. \A l \in DOMAIN decisions : l # link
    BY <1>6 DEF Decide, Phase, PageTypeOK, Decisions
  <2> QED BY <1>6, <2>1, AskedBefore DEF Decide, Decision, listVars
<1>7. ASSUME NEW link \in DOMAIN decisions, ServeDecision(link) \/ DecisionFails(link)
      PROVE  AskedInv'
  <2>1. /\ decisions[link].phase # "done" /\ UNCHANGED << view, asked >>
        /\ \A l \in DOMAIN decisions \ {link} : l \in DOMAIN decisions' /\ decisions'[l] = decisions[l]
    BY <1>7 DEF ServeDecision, DecisionFails, Decision, Forget, Phase, listVars
  <2> QED BY <2>1, AskedBefore
<1>8. ASSUME NEW link \in DOMAIN decisions, DecisionAnswered(link)
      PROVE  AskedInv'
  <2>1. decisions[link] \in Decisions
    BY DEF PageTypeOK
  <2>2. link \in DOMAIN decisions' /\ decisions'[link] = [decisions[link] EXCEPT !.phase = "done"]
          /\ asked' = decisions[link].view
    BY <1>8 DEF DecisionAnswered, Decision, FetchPage
  <2>3. decisions'[link].phase = "done" /\ decisions'[link].view = asked'
    BY <2>1, <2>2 DEF Decisions
  <2> QED BY <2>2, <2>3 DEF AskedInv, DecidedAt, Phase
<1>9. CASE Reload
  BY <1>9 DEF Reload, Mounted, AskedInv
<1> QED BY <1>2, <1>3, <1>4, <1>5, <1>6, <1>7, <1>8, <1>9 DEF Next

-----------------------------------------------------------------------------
(* The lists.                                                              *)

(* What the server reads now is up to date.                                *)
LEMMA ReadingNow ==
  ASSUME PageTypeOK, JobsInv, DecisionsInv, NEW of \in Views
  PROVE  UpToDate(Listing(of))
<1>1. ASSUME of[1] = "pending", NEW link \in Listing(of).links, Phase(link) = "done"
      PROVE  decisions[link].at < upserts
  <2>1. PICK n \in Names : link = << idOf[n], n >> /\ statusOf[n] = "pending"
    BY <1>1 DEF Listing, Found
  <2>2. link \in DOMAIN decisions /\ decisions[link].phase = "done"
    BY <1>1 DEF Phase
  <2> QED BY <2>1, <2>2 DEF DecisionsInv, Decided
<1>2. job.status = "succeeded" => job.upserts <= upserts
  BY DEF JobsInv
<1>3. notified # 0 => jobs[notified].upserts <= upserts
  BY DEF JobsInv, PageTypeOK
<1>4. Listing(of).view = of /\ Listing(of).upserts = upserts
  BY DEF Listing
<1> QED BY <1>1, <1>2, <1>3, <1>4 DEF UpToDate

LEMMA ReadKeepsLists ==
  ASSUME PageTypeOK, JobsInv, DecisionsInv, RequestsInv, ShownInv,
         NEW q \in requests, ReadList(q)
  PROVE  RequestsInv' /\ ShownInv'
<1> DEFINE read == [q EXCEPT !.answer = Listing(q.view)]
<1>1. q \in Requests
  BY DEF PageTypeOK
<1>2. read = [id |-> q.id, view |-> q.view, answer |-> Listing(q.view)]
  BY <1>1 DEF Requests
<1>3. UpToDate(Listing(q.view)) /\ Sensible(Listing(q.view))
  BY <1>1, ReadingNow, ListingTyped
<1>4. Listing(q.view).view = q.view
  BY DEF Listing
<1>5. RequestOK(read)
  BY <1>2, <1>3, <1>4 DEF RequestsInv, RequestOK, PageTypeOK
<1>6. requests' \subseteq requests \cup {read}
  BY DEF ReadList
<1>7. UNCHANGED << view, shown, isLoading, loadError, latest, asked, server, decisions, jobVars >>
  BY DEF ReadList
<1>8. ASSUME NEW l PROVE UpToDate(l)' <=> UpToDate(l)
  BY <1>7 DEF UpToDate, Phase, server, jobVars
<1> HIDE DEF read
<1>9. \A r \in requests' : RequestOK(r)
  BY <1>5, <1>6 DEF RequestsInv
<1>10. RequestsInv'
  BY <1>7, <1>8, <1>9 DEF RequestsInv, RequestOK, server, jobVars
<1>11. ShownInv'
  BY <1>7, <1>8 DEF ShownInv
<1> QED BY <1>10, <1>11

LEMMA ReceiveKeepsLists ==
  ASSUME PageTypeOK, RequestsInv, ShownInv, NEW q \in requests, ReceiveList(q)
  PROVE  RequestsInv' /\ ShownInv'
<1>0. q.answer # None /\ q.answer \in Lists /\ RequestOK(q)
  BY DEF ReceiveList, RequestsInv, PageTypeOK, Requests
<1>1. UNCHANGED << server, decisions, jobVars >>
  BY DEF ReceiveList
<1>2. ASSUME NEW l PROVE UpToDate(l)' <=> UpToDate(l)
  BY <1>1 DEF UpToDate, Phase, server, jobVars
<1>3. ASSUME NEW r \in requests, UNCHANGED << latest, asked >>
      PROVE  RequestOK(r)'
  BY <1>1, <1>2, <1>3 DEF RequestsInv, RequestOK, server
<1>4. CASE q.id # latest
  BY <1>0, <1>1, <1>2, <1>3, <1>4 DEF ReceiveList, RequestsInv, ShownInv
<1>5. CASE q.id = latest /\ ~(q.answer.links = {} /\ q.view[2] > 1 /\ q.answer.total > 0)
  <2>1. /\ shown' = q.answer /\ requests' = requests \ {q}
        /\ UNCHANGED << view, latest, asked >>
    BY <1>0, <1>5 DEF ReceiveList
  <2>2. q.answer.total \in Nat /\ (q.answer.links = {} /\ q.view[2] > 1 => q.answer.total = 0)
    BY <1>0, <1>5 DEF Lists
  <2>3. UpToDate(q.answer)' /\ q.view = asked /\ q.answer.view = q.view
    BY <1>0, <1>2, <1>5 DEF RequestOK
  <2>4. RequestsInv'
    BY <1>3, <2>1 DEF RequestsInv
  <2>5. ShownInv'
    BY <2>1, <2>2, <2>3 DEF ShownInv
  <2> QED BY <2>4, <2>5
<1>6. CASE q.id = latest /\ q.answer.links = {} /\ q.view[2] > 1 /\ q.answer.total > 0
  <2> DEFINE of == << view[1], Pages(q.answer.total) >>
  <2>1. CASE of = view
    <3>1. requests' = requests \ {q} /\ UNCHANGED << view, latest, asked >>
      BY <1>0, <1>6, <2>1 DEF ReceiveList
    <3>2. Pages(q.answer.total) = view[2]
      BY <2>1
    <3>3. q.view # view
      BY <1>0, <1>6, <3>2 DEF RequestOK, Sensible
    <3>4. asked # view
      BY <1>0, <1>6, <3>3 DEF RequestOK
    <3> QED BY <1>3, <3>1, <3>4 DEF RequestsInv, ShownInv
  <2>2. CASE of # view
    <3> HIDE DEF of
    <3>1. /\ requests' = (requests \ {q}) \cup {[id |-> latest + 1, view |-> of, answer |-> None]}
          /\ latest' = latest + 1 /\ asked' = of /\ isLoading' = TRUE
      BY <1>0, <1>6, <2>2 DEF ReceiveList, of
    <3>2. ASSUME NEW r \in requests
          PROVE  RequestOK(r)'
      <4>1. r.id <= latest /\ r.id \in Nat /\ latest \in Nat /\ latest' = latest + 1
        BY <3>1, <3>2 DEF RequestsInv, RequestOK, PageTypeOK, Requests
      <4>2. r.id <= latest' /\ r.id # latest'
        BY <4>1
      <4> QED BY <3>2, <4>2 DEF RequestsInv, RequestOK
    <3>3. ASSUME NEW r, r = [id |-> latest + 1, view |-> of, answer |-> None]
          PROVE  RequestOK(r)'
      BY <3>1, <3>3 DEF RequestOK, PageTypeOK
    <3> QED BY <3>1, <3>2, <3>3 DEF RequestsInv, ShownInv
  <2> QED BY <2>1, <2>2
<1> QED BY <1>4, <1>5, <1>6

LEMMA GoingKeepsLists ==
  ASSUME PageTypeOK, RequestsInv, ShownInv, NEW of \in Views, GoTo(of),
         UNCHANGED << shown, loadError, server, decisions, jobVars >>
  PROVE  RequestsInv' /\ ShownInv'
<1>1. CASE of = view
  <2>1. UNCHANGED << listVars, decisions, job, notified, jobs >>
    BY <1>1 DEF GoTo, listVars, jobVars, server
  <2> QED BY <2>1, Beside
<1>2. CASE of # view
  BY <1>2, Fetching DEF GoTo
<1> QED BY <1>1, <1>2

LEMMA ListsKept ==
  ASSUME PageTypeOK, JobsInv, DecisionsInv, RequestsInv, ShownInv, [Next]_vars
  PROVE  RequestsInv' /\ ShownInv'
<1>0. jobs \in Seq(Jobs) /\ (notified # 0 => notified \in DOMAIN jobs)
  BY DEF PageTypeOK
<1>1. CASE UNCHANGED << jobs, listVars, decisions, job, notified >>
  BY <1>0, <1>1, Beside
<1>2. ASSUME NEW j \in DOMAIN jobs, RunRematch(j)
      PROVE  RequestsInv' /\ ShownInv'
  <2>1. UNCHANGED << listVars, job, notified, decisions >>
    BY <1>2 DEF RunRematch, jobVars
  <2> QED BY <1>2, <2>1, RunKeepsJobs, Beside
<1>3. ASSUME NEW status \in Statuses, ChangeStatus(status)
      PROVE  RequestsInv' /\ ShownInv'
  BY <1>3, GoingKeepsLists DEF ChangeStatus, Views
<1>4. ASSUME NEW page \in 1 .. Cardinality(Names), GoToPage(page)
      PROVE  RequestsInv' /\ ShownInv'
  <2>1. Cardinality(Names) \in Nat
    BY PageAssumption, FS_CardinalityType
  <2>2. << view[1], page >> \in Views
    BY <2>1 DEF Views, PageTypeOK
  <2> QED BY <1>4, <2>2, GoingKeepsLists DEF GoToPage
<1>5. CASE Refresh
  BY <1>5, Fetching DEF Refresh, PageTypeOK
<1>6. ASSUME NEW q \in requests, ReadList(q) \/ ReceiveList(q)
      PROVE  RequestsInv' /\ ShownInv'
  BY <1>6, ReadKeepsLists, ReceiveKeepsLists
<1>7. ASSUME NEW q \in requests, ListFails(q)
      PROVE  RequestsInv' /\ ShownInv'
  <2>1. UNCHANGED << view, shown, latest, asked, server, decisions, jobVars >>
          /\ requests' = requests \ {q}
    BY <1>7 DEF ListFails
  <2>2. ASSUME NEW l PROVE UpToDate(l)' <=> UpToDate(l)
    BY <2>1 DEF UpToDate, Phase, server, jobVars
  <2>3. RequestsInv'
    BY <2>1, <2>2 DEF RequestsInv, RequestOK, server
  <2>4. ~isLoading' /\ ~loadError' => ~isLoading /\ ~loadError
    BY <1>7 DEF ListFails
  <2>5. ShownInv'
    BY <2>1, <2>2, <2>4 DEF ShownInv
  <2> QED BY <2>3, <2>5
<1>8. ASSUME NEW link \in shown.links, NEW verb \in {"approve", "reject", "reassign"}, Decide(link, verb)
      PROVE  RequestsInv' /\ ShownInv'
  <2>1. /\ UNCHANGED << listVars, job, notified, jobs >>
        /\ \A l \in DOMAIN decisions' : decisions'[l].phase = "done" =>
             l \in DOMAIN decisions /\ decisions[l] = decisions'[l]
    BY <1>8 DEF Decide, Decision, server, jobVars
  <2> QED BY <1>0, <2>1, Beside
<1>9. ASSUME NEW link \in DOMAIN decisions, ServeDecision(link) \/ DecisionFails(link)
      PROVE  RequestsInv' /\ ShownInv'
  <2>1. decisions[link] \in Decisions
    BY DEF PageTypeOK
  <2>2. \A l \in DOMAIN decisions' : decisions'[l].phase = "done" =>
          l \in DOMAIN decisions /\ decisions[l] = decisions'[l]
    BY <1>9, <2>1 DEF ServeDecision, DecisionFails, Decision, Forget, Decisions
  <2>3. UNCHANGED << listVars, job, notified, jobs >>
    BY <1>9 DEF ServeDecision, DecisionFails, server, jobVars
  <2> QED BY <1>0, <2>2, <2>3, Beside
<1>10. ASSUME NEW link \in DOMAIN decisions, DecisionAnswered(link)
       PROVE  RequestsInv' /\ ShownInv'
  <2>1. decisions[link].view \in Views
    BY DEF PageTypeOK, Decisions
  <2> QED BY <1>10, <2>1, Fetching DEF DecisionAnswered
<1>11. CASE Trigger
  <2>1. notified # 0 => jobs'[notified] = jobs[notified]
    BY <1>0, <1>11 DEF Trigger
  <2>2. UNCHANGED << listVars, decisions, job, notified >>
    BY <1>11 DEF Trigger
  <2> QED BY <1>0, <2>1, <2>2, Beside
<1>12. ASSUME NEW p \in polls, ReceiveJob(p)
       PROVE  RequestsInv' /\ ShownInv'
  <2>1. CASE IsNews(p)
    BY <1>12, <2>1, Fetching DEF ReceiveJob, PageTypeOK
  <2>2. CASE ~IsNews(p)
    <3>1. /\ UNCHANGED << listVars, server, decisions, notified >>
          /\ job' = [id |-> p.job, status |-> p.answer.status, upserts |-> p.answer.upserts]
      BY <1>12, <2>2 DEF ReceiveJob, listVars
    <3>2. p.answer.status = "succeeded" => notified # 0 /\ jobs[notified] = p.answer
      BY <1>0, <1>12, <2>2 DEF JobsInv, ReceiveJob, IsNews, PageTypeOK
    <3>3. ASSUME NEW l, UpToDate(l)
          PROVE  UpToDate(l)'
      BY <3>1, <3>2, <3>3 DEF UpToDate, Phase, server
    <3>4. RequestsInv'
      BY <3>1, <3>3 DEF RequestsInv, RequestOK, server, listVars
    <3>5. ShownInv'
      BY <3>1, <3>3 DEF ShownInv, listVars
    <3> QED BY <3>4, <3>5
  <2> QED BY <2>1, <2>2
<1>13. CASE Reload
  <2>1. /\ requests' = {[id |-> 1, view |-> First, answer |-> None]}
        /\ latest' = 1 /\ asked' = First /\ isLoading' = TRUE
    BY <1>13 DEF Reload, Mounted
  <2> QED BY <2>1 DEF RequestsInv, RequestOK, ShownInv
<1>14. ASSUME \/ DecideElsewhere \/ SyncUpserts \/ TriggerAnswered \/ TriggerFails \/ RefreshJob
              \/ \E p \in polls : ReadJob(p) \/ PollFails(p)
              \/ UNCHANGED vars
       PROVE  UNCHANGED << jobs, listVars, decisions, job, notified >>
  BY <1>14 DEF DecideElsewhere, SyncUpserts, TriggerAnswered, TriggerFails, RefreshJob, ReadJob, PollFails,
               vars, server, jobVars
<1> QED BY <1>1, <1>2, <1>3, <1>4, <1>5, <1>6, <1>7, <1>8, <1>9, <1>10, <1>11, <1>12, <1>13, <1>14
        DEF Next, ListAnswers

-----------------------------------------------------------------------------
LEMMA InitInv == Init => PageInv
<1> SUFFICES ASSUME Init PROVE PageInv
  OBVIOUS
<1>1. PageTypeOK
  BY InitTyped
<1>2. JobsInv /\ DecisionsInv /\ AskedInv /\ RequestsInv /\ ShownInv
  BY DEF Init, Mounted, NoRows, NoJob, JobsInv, DecisionsInv, AskedInv, RequestsInv, RequestOK, ShownInv
<1> QED BY <1>1, <1>2 DEF PageInv

LEMMA StepInv == PageInv /\ [Next]_vars => PageInv'
  BY StepTyped, JobsKept, DecisionsKept, AskedKept, ListsKept DEF PageInv

LEMMA InvShows == PageInv => ShownRowsAreCurrent
<1> SUFFICES ASSUME PageInv PROVE ShownRowsAreCurrent
  OBVIOUS
<1>1. asked # view => \E link \in DOMAIN decisions :
                        Phase(link) = "done" /\ decisions[link].view = asked
  BY DEF PageInv, AskedInv, DecidedAt
<1>2. ASSUME ~isLoading, ~loadError, asked = view
      PROVE  /\ shown.view = view
             /\ shown.links = {} /\ view[2] > 1 => shown.total = 0
             /\ view[1] = "pending" => \A link \in shown.links :
                  Phase(link) = "done" => decisions[link].at < shown.upserts
             /\ job.status = "succeeded" => job.upserts <= shown.upserts
  BY <1>2 DEF PageInv, ShownInv, UpToDate
<1> QED BY <1>1, <1>2 DEF ShownRowsAreCurrent

(* The list asks for another view than its own only to refresh after a     *)
(* decision made there.  Otherwise, in whatever order requests, decisions, *)
(* syncs and rematches are served and their answers arrive: a page that is *)
(* not loading and shows no error shows its tab and page, not an emptied   *)
(* page, a link the admin decided only if an upsert came in between, and   *)
(* nothing older than a success it shows (fetchPage, refresh, trigger).    *)
THEOREM PageShowsItsView == Spec => []ShownRowsAreCurrent
<1>1. Spec => []PageInv
  BY InitInv, StepInv, PTL DEF Spec
<1> QED BY <1>1, InvShows, PTL

=============================================================================
