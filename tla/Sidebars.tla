-------------------------------- MODULE Sidebars --------------------------------
(***************************************************************************)
(* The sidebars of one account's windows (useConversationList in           *)
(* HomeShell) over ConversationTitles: each fetches the list, follows the  *)
(* account's event feed and shows the answers of its own renames.          *)
(***************************************************************************)
EXTENDS ConversationTitles, SequencesExt

CONSTANTS
  Windows,
  Author,      (* The window of each post and rename.                       *)
  ListLimit,   (* `limit` of list_for_user.                                 *)
  MaxFetches   (* Bound: requests for the list under way in a window.       *)

ASSUME SidebarsAssumption ==
  /\ Author \in [Posts \cup Renames -> Windows]
  /\ ListLimit \in Nat \ {0} /\ MaxFetches \in Nat

VARIABLES
  list,      (* `conversations`.                                            *)
  fetches,   (* The fetches under way: None, or the answer to come.      *)
  mounted,   (* Windows with a sidebar.                                     *)
  open,      (* ... whose EventSource is connected.                         *)
  heard,     (* The stream cursor, as a position in the feed.               *)
  named,     (* The EventSource has a Last-Event-ID.                        *)
  sending,   (* The post that isSending stands for.                         *)
  covers     (* History: the list shows every event up to here.             *)

viewVars == << list, fetches, mounted, open, heard, named, sending, covers >>
allVars  == << titleVars, viewVars >>

Listed(w)     == {list[w][i].id : i \in DOMAIN list[w]}
(* An id stands in a list once.                                             *)
Without(l, c) == IF \E i \in DOMAIN l : l[i].id = c
                 THEN RemoveAt(l, CHOOSE i \in DOMAIN l : l[i].id = c) ELSE l
ItemOf(l, c)  == l[CHOOSE i \in DOMAIN l : l[i].id = c]

ListItem(c, title, icon) == [id |-> c, title |-> title, icon |-> icon]
RowItem(c, r) == ListItem(c, r.title, r.icon)

-----------------------------------------------------------------------------
(* The reducers.                                                            *)

AddCreatedConversation(l, e) ==
  IF \E i \in DOMAIN l : l[i].id = e.of THEN l
  ELSE << ListItem(e.of, e.title, FALSE) >> \o l

(* Faulty variant of the next definition: the icon is left alone.           *)
UpdateTitleOnly(l, e) ==
  [i \in DOMAIN l |-> IF l[i].id = e.of THEN [l[i] EXCEPT !.title = e.title] ELSE l[i]]

ApplyConversationUpdate(l, e) ==
  [i \in DOMAIN l |->
     IF l[i].id = e.of THEN [l[i] EXCEPT !.title = e.title, !.icon = TRUE] ELSE l[i]]

(* Faulty variant of the next definition: only updates are followed.        *)
HandleUpdates(l, e) == IF e.kind = "updated" THEN ApplyConversationUpdate(l, e) ELSE l

HandleEvent(l, e) ==
  CASE e.kind = "created" -> AddCreatedConversation(l, e)
    [] e.kind = "updated" -> ApplyConversationUpdate(l, e)

(* list_for_user answers all conversations of an account, or ListLimit of   *)
(* them: those touched last, which here may be any.                         *)
Existing == {c \in Conversations : Exists(c)}
OnePage  == Cardinality(Existing) <= ListLimit

IsPage(page) ==
  page \subseteq Existing /\ IF OnePage THEN page = Existing ELSE Cardinality(page) = ListLimit

ListForUser(page) ==
  LET ids == SetToSeq(page) IN [i \in DOMAIN ids |-> RowItem(ids[i], row[ids[i]])]

-----------------------------------------------------------------------------
Refresh(w) ==
  /\ Len(fetches[w]) < MaxFetches
  /\ fetches' = [fetches EXCEPT ![w] = Append(@, None)]

(* The sidebar appears: it fetches the list and opens an EventSource.       *)
Mount(w) ==
  /\ w \notin mounted
  /\ mounted' = mounted \cup {w}
  /\ Refresh(w)
  /\ UNCHANGED << titleVars, list, open, heard, named, sending, covers >>

(* GET conversations reads the table ...                                    *)
AnswerFetch(w) ==
  /\ \E i \in DOMAIN fetches[w], page \in SUBSET Existing :
       /\ fetches[w][i] = None /\ IsPage(page)
       /\ fetches' = [fetches EXCEPT ![w][i] = [rows |-> ListForUser(page), at |-> Len(feed)]]
  /\ UNCHANGED << titleVars, list, mounted, open, heard, named, sending, covers >>

(* ... and the answers, which replace the list, arrive in any order.        *)
ReceiveList(w) ==
  /\ \E i \in DOMAIN fetches[w] :
       /\ fetches[w][i] # None
       /\ list' = [list EXCEPT ![w] = fetches[w][i].rows]
       /\ covers' = [covers EXCEPT ![w] = fetches[w][i].at]
       /\ fetches' = [fetches EXCEPT ![w] = RemoveAt(@, i)]
  /\ UNCHANGED << titleVars, mounted, open, heard, named, sending >>

(* loadError: the list stays.                                               *)
FetchFails(w) ==
  /\ "fetch" \in TitleFaults
  /\ \E i \in DOMAIN fetches[w] : fetches' = [fetches EXCEPT ![w] = RemoveAt(@, i)]
  /\ UNCHANGED << titleVars, list, mounted, open, heard, named, sending, covers >>

(* GET users/events: behind Last-Event-ID, or at the tail.                  *)
ConnectUserEvents(w) ==
  /\ w \in mounted /\ ~open[w]
  /\ open' = [open EXCEPT ![w] = TRUE]
  /\ heard' = [heard EXCEPT ![w] = IF named[w] THEN @ ELSE Len(feed)]
  /\ UNCHANGED << titleVars, list, fetches, mounted, named, sending, covers >>

Drop(w) ==
  /\ open[w]
  /\ open' = [open EXCEPT ![w] = FALSE]
  /\ UNCHANGED << titleVars, list, fetches, mounted, heard, named, sending, covers >>

Deliver(w) ==
  /\ open[w] /\ heard[w] < Len(feed)
  /\ LET k == heard[w] + 1 IN
     /\ list' = [list EXCEPT ![w] = HandleEvent(@, feed[k])]
     /\ heard' = [heard EXCEPT ![w] = k]
     /\ covers' = [covers EXCEPT ![w] = IF @ = k - 1 THEN k ELSE @]
  /\ named' = [named EXCEPT ![w] = TRUE]
  /\ UNCHANGED << titleVars, fetches, mounted, open, sending >>

-----------------------------------------------------------------------------
(* The user sends into a conversation the window lists, or into a new one   *)
(* whose id nobody else has.  isSending turns true: the list is fetched.    *)
Send(p) ==
  LET w == Author[p] IN
  /\ w \in mounted /\ sending[w] = None
  /\ \/ Target[p] \in Listed(w)
     \/ \A q \in Posts : Target[q] = Target[p] => post[q] = "new"
  /\ PostGoes(p, "new", "arrived")
  /\ sending' = [sending EXCEPT ![w] = p]
  /\ Refresh(w)
  /\ UNCHANGED << row, feed, renameVars, jobVars, unsaid,
                  list, mounted, open, heard, named, covers >>

(* The terminal event, or the refusal: isSending turns false.               *)
SeeTurnEnd(w) ==
  /\ sending[w] # None
  /\ post[sending[w]] \in {"answered", "refused", "error"}
  /\ sending' = [sending EXCEPT ![w] = None]
  /\ Refresh(w)
  /\ UNCHANGED << titleVars, list, mounted, open, heard, named, covers >>

(* The rename dialog, of a row of the sidebar or of the open thread.        *)
SaveRename(r) ==
  LET w == Author[r] IN
  /\ \/ Target[r] \in Listed(w)
     \/ sending[w] # None /\ Target[sending[w]] = Target[r]
  /\ RenameGoes(r, "new", "sent")
  /\ UNCHANGED << row, feed, post, renaming, jobVars, unsaid, viewVars >>

(* rename: the answered row, on top, which may be behind by now.            *)
ApplyRename(r) ==
  LET w == Author[r] IN
  /\ RenameGoes(r, "done", "applied")
  /\ list' = [list EXCEPT ![w] = << RowItem(Target[r], renaming[r]) >> \o Without(@, Target[r])]
  /\ covers' = IF renaming[r] = row[Target[r]] THEN covers ELSE [covers EXCEPT ![w] = 0]
  /\ UNCHANGED << row, feed, post, renaming, jobVars, unsaid,
                  fetches, mounted, open, heard, named, sending >>

-----------------------------------------------------------------------------
WindowStep(w) ==
  AnswerFetch(w) \/ ReceiveList(w) \/ ConnectUserEvents(w) \/ Deliver(w) \/ SeeTurnEnd(w)

Server ==
  \/ \E p \in Posts : PostStep(p) \/ PostFails(p)
  \/ \E r \in Renames : RenameRead(r) \/ RenameWrite(r) \/ RenameFails(r)
  \/ \E c \in Conversations :
       \/ CategorizeStep(c)
       \/ \E why \in {"job", "rerun"} : JobStops(c, why)

Settled ==
  /\ \A p \in Posts : post[p] \in {"new", "answered", "refused", "error"}
  /\ \A r \in Renames : rename[r] \in {"new", "applied", "not_found", "error"}
  /\ \A c \in Conversations : job[c] \in {"none", "over"}
  /\ \A w \in Windows : fetches[w] = << >> /\ sending[w] = None
  /\ UNCHANGED allVars

Init ==
  /\ TitlesInit
  /\ list = [w \in Windows |-> << >>] /\ fetches = [w \in Windows |-> << >>]
  /\ mounted = {}
  /\ open = [w \in Windows |-> FALSE] /\ heard = [w \in Windows |-> 0]
  /\ named = [w \in Windows |-> FALSE]
  /\ sending = [w \in Windows |-> None]
  /\ covers = [w \in Windows |-> 0]

Next ==
  \/ Server /\ UNCHANGED viewVars
  \/ \E w \in Windows : Mount(w) \/ WindowStep(w) \/ FetchFails(w) \/ Drop(w)
  \/ \E p \in Posts : Send(p)
  \/ \E r \in Renames : SaveRename(r) \/ ApplyRename(r)
  \/ Settled

(* The server, the worker and the network go on with what is under way; an  *)
(* EventSource that drops again and again still gets its next event.        *)
Fairness ==
  /\ \A p \in Posts : WF_allVars(PostStep(p) /\ UNCHANGED viewVars)
  /\ \A c \in Conversations : WF_allVars(CategorizeStep(c) /\ UNCHANGED viewVars)
  /\ \A w \in Windows : WF_allVars(AnswerFetch(w)) /\ WF_allVars(ReceiveList(w))
                        /\ WF_allVars(ConnectUserEvents(w)) /\ SF_allVars(Deliver(w))

Spec     == Init /\ [][Next]_allVars
FairSpec == Spec /\ Fairness

-----------------------------------------------------------------------------
SidebarsTypeOK ==
  /\ TitlesTypeOK
  /\ mounted \subseteq Windows
  /\ open \in [Windows -> BOOLEAN] /\ named \in [Windows -> BOOLEAN]
  /\ heard \in [Windows -> 0 .. Len(feed)] /\ covers \in [Windows -> 0 .. Len(feed)]
  /\ sending \in [Windows -> Posts \cup {None}]
  /\ \A w \in Windows : Len(fetches[w]) <= MaxFetches

(* A title some user chose is always marked as theirs (title_is_generated), *)
(* whatever the partial UPDATEs of renames and of the categorisation read.  *)
ChosenTitlesAreOwned ==
  \A c \in Conversations : Exists(c) /\ row[c].title \in Renames => ~row[c].generated

(* A title that a user chose while no categorisation stood between its read *)
(* of the row and its write stays a title that a user chose, for good:      *)
(* through later and re-run categorisations, and other renames with older   *)
(* reads ("permanently hands title ownership to the user", update_title).   *)
Chosen(c) == Exists(c) /\ row[c].title \in Renames
RenamesOutliveLaterCategories ==
  \A c \in Conversations : [](Chosen(c) /\ job[c] # "write" => []Chosen(c))

(* What the docstring of update_category says: a rename that happened while *)
(* the job was running is never clobbered.                                  *)
RenamesAreKept ==
  [][\A c \in Conversations :
       Exists(c) /\ ~row[c].generated /\ row'[c].title # row[c].title
         => row'[c].title \in Renames]_allVars

(* Everything committed of a conversation has been said.                    *)
Said(c) ==
  /\ c \notin unsaid /\ job[c] # "announce"
  /\ \A p \in Posts : Target[p] = c => post[p] \notin {"enqueue", "announce"}

(* A sidebar that has heard every event and that no late answer has set     *)
(* back lists every conversation of an account with no more of them than a  *)
(* page, and shows what it lists, of any account, with its icon and, unless *)
(* a user chose it, its title.                                              *)
CurrentSidebarsMatch ==
  \A w \in Windows, c \in Conversations :
    open[w] /\ heard[w] = Len(feed) /\ covers[w] = Len(feed) /\ Exists(c) /\ Said(c) =>
      /\ OnePage => c \in Listed(w)
      /\ c \in Listed(w) =>
           LET item == ItemOf(list[w], c) IN
           item.icon = row[c].icon /\ (row[c].generated => item.title = row[c].title)

(* Its inductive form.  What the feed says by its n-th event, and how the   *)
(* rows, the jobs and the feed hang together while nothing is unsaid:       *)
SaidBy(kind, c, n) == \E k \in 1 .. n : feed[k].kind = kind /\ feed[k].of = c
Creates(p)      == post[p] \in {"enqueue", "announce"}
CreationInv ==
  /\ \A p, q \in Posts : Target[p] = Target[q] /\ Creates(p) /\ Creates(q) => p = q
  /\ \A p \in Posts : post[p] = "enqueue" => job[Target[p]] = "none"
  /\ \A p \in Posts : Creates(p) => ~SaidBy("created", Target[p], Len(feed))
CategoryInv(c) ==
  /\ job[c] \in {"none", "queued", "read", "write"} => ~row[c].icon
  /\ job[c] = "write" /\ row[c].generated => reading[c].row.title = row[c].title
  /\ job[c] = "announce" => row[c].icon /\ (row[c].generated => row[c].title = reading[c].title)
  /\ job[c] = "over" /\ row[c].icon => SaidBy("updated", c, Len(feed))
  /\ ~row[c].icon /\ row[c].generated => row[c].title = FirstMessage
EventInv(e, c, k) ==
  /\ Exists(c)
  /\ e.kind = "created" => e.title = FirstMessage /\ ~SaidBy("created", c, k - 1)
  /\ e.kind = "updated" /\ c \notin unsaid =>
       /\ SaidBy("created", c, k - 1)
       /\ row[c].icon /\ (row[c].generated => e.title = row[c].title)
FeedInv ==
  /\ \A c \in Conversations : Exists(c) /\ c \notin unsaid =>
       /\ CategoryInv(c)
       /\ SaidBy("created", c, Len(feed)) \/ \E p \in Posts : Target[p] = c /\ Creates(p)
  /\ \A k \in DOMAIN feed : EventInv(feed[k], feed[k].of, k)
AnswersInv ==
  \A r \in Renames : rename[r] = "done" =>
    LET c == Target[r] IN
    /\ Exists(c) /\ renaming[r] \in Row
    /\ ~row[c].generated /\ (renaming[r].icon => row[c].icon)

(* A list, on the screen or on its way, that covers n events, and whose     *)
(* icons are those of the first m: what a full page left out may come back  *)
(* with an event that the fetch had overtaken.                              *)
Items == [id : Conversations, title : Titles, icon : BOOLEAN]
Fits(item) ==
  LET c == item.id IN
  /\ Exists(c) /\ (item.icon => row[c].icon)
  /\ row[c].generated => item.title = IF item.icon THEN row[c].title ELSE FirstMessage
FitItems == {item \in Items : item.id \in unsaid \/ Fits(item)}
ListFits(l, n, m) ==
  /\ l \in Seq(FitItems)
  /\ \A c \in Conversations \ unsaid :
       /\ OnePage /\ SaidBy("created", c, n) => \E i \in DOMAIN l : l[i].id = c
       /\ SaidBy("updated", c, m) => \A i \in DOMAIN l : l[i].id = c => l[i].icon
FitAnswers == {None} \cup {answer \in [rows : Seq(Items), at : 0 .. Len(feed)] :
                              ListFits(answer.rows, answer.at, answer.at)}
Shows(w) == IF named[w] /\ heard[w] < covers[w] THEN heard[w] ELSE covers[w]
ListsInv ==
  /\ heard \in [Windows -> 0 .. Len(feed)] /\ covers \in [Windows -> 0 .. Len(feed)]
  /\ named \in [Windows -> BOOLEAN]
  /\ list \in [Windows -> Seq(FitItems)] /\ \A w \in Windows : ListFits(list[w], covers[w], Shows(w))
  /\ fetches \in [Windows -> Seq(FitAnswers)]
SidebarsInv == CreationInv /\ FeedInv /\ AnswersInv /\ ListsInv

(* Every sidebar of an account with no more conversations than a page lists *)
(* every one in the end, unless the event of its creation was lost or a gap *)
(* or a late answer left the list behind.                                   *)
ConversationsAreListed ==
  \A w \in Windows, c \in Conversations :
    <>[](w \in mounted /\ Exists(c) /\ OnePage =>
           c \in Listed(w) \/ c \in unsaid \/ covers[w] < heard[w])
=============================================================================
