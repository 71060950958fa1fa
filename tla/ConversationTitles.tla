-------------------------- MODULE ConversationTitles --------------------------
(***************************************************************************)
(* The conversation table and the account's event feed: posts that create  *)
(* a conversation, renames, and the background job that gives a new        *)
(* conversation an LLM title and an icon.  Requests and jobs have sessions *)
(* of their own (READ COMMITTED).  When a row was last touched, which only *)
(* orders the lists, is left out.                                          *)
(***************************************************************************)
EXTENDS Naturals, Sequences, FiniteSets

CONSTANTS
  Conversations, (* Client-minted ids.                                      *)
  Posts,         (* POST messages requests and the turns they start.        *)
  Renames,       (* PATCH requests; each asks for a title of its own.       *)
  Target,        (* The conversation of each post and rename.               *)
  Suggestions,   (* Titles the LLM may give.                                *)
  FirstMessage,  (* The default title, cut from the first message.          *)
  None,
  TitleFaults,   (* "endpoint", "llm", "job", "rerun", "fetch".              *)
  MaxRuns        (* Bound: runs of a categorisation, below Arq's max_tries. *)

Titles == {FirstMessage} \cup Suggestions \cup Renames
Row    == [title : Titles, icon : BOOLEAN, generated : BOOLEAN]

ASSUME TitlesAssumption ==
  /\ Target \in [Posts \cup Renames -> Conversations]
  /\ Renames \cap (Suggestions \cup {FirstMessage}) = {}
  /\ None \notin Suggestions \cup Row
  /\ IsFiniteSet(Conversations)
  /\ MaxRuns \in Nat

VARIABLES
  row,      (* The conversation rows, None where there is none yet.         *)
  feed,     (* user:events:{user_id}, below its MAXLEN.                     *)
  post,     (* What each post, then its turn, does next.                    *)
  rename,   (* What each rename does next, or its answer.                   *)
  renaming, (* The row as the session of a rename read it, or answers it.   *)
  job,      (* What the categorisation of each conversation does next.      *)
  reading,  (* The row as its session read it, with the LLM's title.        *)
  runs,     (* How often it was started.                                    *)
  unsaid    (* History: conversations with an event lost or too early.      *)

renameVars == << rename, renaming >>
jobVars    == << job, reading, runs >>
titleVars  == << row, feed, post, rename, renaming, job, reading, runs, unsaid >>

Reading == [title : Suggestions, row : Row \cup {None}]
Event   == [kind : {"created", "updated"}, of : Conversations, title : Titles]

PostPlaces   == {"new", "arrived", "enqueue", "announce", "reserve", "accepted",
                 "answered", "refused", "error"}
RenamePlaces == {"new", "sent", "write", "done", "not_found", "error", "applied"}
JobPlaces    == {"none", "queued", "read", "write", "announce", "over"}

Exists(c) == row[c] # None

PostGoes(p, from, to)   == post[p] = from /\ post' = [post EXCEPT ![p] = to]
RenameGoes(r, from, to) == rename[r] = from /\ rename' = [rename EXCEPT ![r] = to]
JobGoes(c, from, to)    == job[c] = from /\ job' = [job EXCEPT ![c] = to]

(* XADD to the account's feed.                                              *)
Says(kind, c, title) == feed' = Append(feed, [kind |-> kind, of |-> c, title |-> title])

-----------------------------------------------------------------------------
(* POST messages.                                                           *)

(* get_or_create and the commit of start_turn.                              *)
StartTurn(p) ==
  LET c == Target[p] IN
  /\ PostGoes(p, "arrived", IF Exists(c) THEN "reserve" ELSE "enqueue")
  /\ row' = IF Exists(c) THEN row
            ELSE [row EXCEPT ![c] = [title |-> FirstMessage, icon |-> FALSE, generated |-> TRUE]]
  /\ UNCHANGED << feed, renameVars, jobVars, unsaid >>

EnqueueCategorize(p) ==
  /\ PostGoes(p, "enqueue", "announce")
  /\ job' = [job EXCEPT ![Target[p]] = "queued"]
  /\ UNCHANGED << row, feed, renameVars, reading, runs, unsaid >>

AnnounceCreated(p) ==
  /\ PostGoes(p, "announce", "reserve")
  /\ Says("created", Target[p], FirstMessage)
  /\ UNCHANGED << row, renameVars, jobVars, unsaid >>

(* The turn starts, or is refused (409) behind that of another post, which  *)
(* keeps its reservation for a while even when the request failed.          *)
Reserve(p) ==
  /\ \E answer \in {"accepted", "refused"} :
       /\ PostGoes(p, "reserve", answer)
       /\ answer = "refused" => \E q \in Posts \ {p} :
            Target[q] = Target[p] /\ post[q] \in {"accepted", "answered", "error"}
  /\ UNCHANGED << row, feed, renameVars, jobVars, unsaid >>

(* Postgres or Redis raises: 500.                                           *)
PostFails(p) ==
  /\ "endpoint" \in TitleFaults
  /\ post[p] \in {"arrived", "enqueue", "announce", "reserve"}
  /\ post' = [post EXCEPT ![p] = "error"]
  /\ unsaid' = IF post[p] \in {"enqueue", "announce"} THEN unsaid \cup {Target[p]} ELSE unsaid
  /\ UNCHANGED << row, feed, renameVars, jobVars >>

(* The terminal event of the turn, on the stream of the conversation.       *)
TurnEnds(p) ==
  /\ PostGoes(p, "accepted", "answered")
  /\ UNCHANGED << row, feed, renameVars, jobVars, unsaid >>

-----------------------------------------------------------------------------
(* PATCH: update_title reads the row, assigns, and flushes the columns that *)
(* differ from what it read.                                                *)

RenameRead(r) ==
  LET c == Target[r] IN
  /\ IF Exists(c)
     THEN RenameGoes(r, "sent", "write") /\ renaming' = [renaming EXCEPT ![r] = row[c]]
     ELSE RenameGoes(r, "sent", "not_found") /\ UNCHANGED renaming
  /\ UNCHANGED << row, feed, post, jobVars, unsaid >>

(* Faulty variant of the next definition: the title stays marked as the     *)
(* LLM's.                                                                   *)
RenamedOnly(r, seen, old) == [old EXCEPT !.title = r]

Renamed(r, seen, old) ==
  [old EXCEPT !.title = r, !.generated = IF seen.generated THEN FALSE ELSE @]

(* The answer carries the row as refreshed within the transaction.          *)
RenameWrite(r) ==
  LET c   == Target[r]
      new == Renamed(r, renaming[r], row[c]) IN
  /\ RenameGoes(r, "write", "done")
  /\ row' = [row EXCEPT ![c] = new]
  /\ renaming' = [renaming EXCEPT ![r] = new]
  /\ UNCHANGED << feed, post, jobVars, unsaid >>

RenameFails(r) ==
  /\ "endpoint" \in TitleFaults
  /\ rename[r] \in {"sent", "write"}
  /\ rename' = [rename EXCEPT ![r] = "error"]
  /\ UNCHANGED << row, feed, post, renaming, jobVars, unsaid >>

-----------------------------------------------------------------------------
(* categorize_conversation_task.                                            *)

(* The LLM answers; an unusable answer leaves the conversation as it is.    *)
AskTitle(c) ==
  /\ runs' = [runs EXCEPT ![c] = @ + 1]
  /\ \/ \E title \in Suggestions :
          /\ JobGoes(c, "queued", "read")
          /\ reading' = [reading EXCEPT ![c] = [title |-> title, row |-> None]]
     \/ "llm" \in TitleFaults /\ JobGoes(c, "queued", "over") /\ UNCHANGED reading
  /\ UNCHANGED << row, feed, post, renameVars, unsaid >>

(* update_category: session.get ...                                         *)
CategoryRead(c) ==
  /\ JobGoes(c, "read", "write")
  /\ reading' = [reading EXCEPT ![c].row = row[c]]
  /\ UNCHANGED << row, feed, post, renameVars, runs, unsaid >>

(* ... then the columns that differ from what it read: the title only of a  *)
(* row that was generated then.                                             *)
Categorized(title, seen, old) ==
  [old EXCEPT !.title = IF seen.generated /\ title # seen.title THEN title ELSE @, !.icon = TRUE]

CategoryWrite(c) ==
  /\ JobGoes(c, "write", "announce")
  /\ row' = [row EXCEPT ![c] = Categorized(reading[c].title, reading[c].row, @)]
  /\ UNCHANGED << feed, post, renameVars, reading, runs, unsaid >>

(* The event carries the LLM's title, whatever the row says.  Nothing keeps *)
(* it behind that of the creation, which finds the sidebars without the row. *)
AnnounceCategory(c) ==
  /\ JobGoes(c, "announce", "over")
  /\ Says("updated", c, reading[c].title)
  /\ reading' = [reading EXCEPT ![c] = None]
  /\ unsaid' = IF \E p \in Posts : Target[p] = c /\ post[p] = "announce"
               THEN unsaid \cup {c} ELSE unsaid
  /\ UNCHANGED << row, post, renameVars, runs >>

(* Every Exception is swallowed and Arq's timeout ends the job; a worker    *)
(* that shuts down or dies has it run again.                                *)
JobStops(c, why) ==
  /\ why \in {"job", "rerun"} \cap TitleFaults
  /\ job[c] \in {"read", "write", "announce"}
  /\ why = "rerun" => runs[c] < MaxRuns
  /\ job' = [job EXCEPT ![c] = IF why = "rerun" THEN "queued" ELSE "over"]
  /\ unsaid' = IF job[c] = "announce" THEN unsaid \cup {c} ELSE unsaid
  /\ reading' = [reading EXCEPT ![c] = None]
  /\ UNCHANGED << row, feed, post, renameVars, runs >>

-----------------------------------------------------------------------------
PostStep(p) ==
  StartTurn(p) \/ EnqueueCategorize(p) \/ AnnounceCreated(p) \/ Reserve(p) \/ TurnEnds(p)

CategorizeStep(c) ==
  AskTitle(c) \/ CategoryRead(c) \/ CategoryWrite(c) \/ AnnounceCategory(c)

TitlesInit ==
  /\ row = [c \in Conversations |-> None] /\ feed = << >>
  /\ post = [p \in Posts |-> "new"]
  /\ rename = [r \in Renames |-> "new"] /\ renaming = [r \in Renames |-> None]
  /\ job = [c \in Conversations |-> "none"] /\ reading = [c \in Conversations |-> None]
  /\ runs = [c \in Conversations |-> 0]
  /\ unsaid = {}

TitlesTypeOK ==
  /\ row \in [Conversations -> Row \cup {None}]
  /\ feed \in Seq(Event)
  /\ post \in [Posts -> PostPlaces]
  /\ rename \in [Renames -> RenamePlaces]
  /\ renaming \in [Renames -> Row \cup {None}]
  /\ job \in [Conversations -> JobPlaces]
  /\ reading \in [Conversations -> Reading \cup {None}]
  /\ runs \in [Conversations -> Nat]
  /\ unsaid \subseteq Conversations
=============================================================================
