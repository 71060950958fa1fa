# Verification of the World Cup chat agent

TLA+ models of the backend and the chat page of this repository, the TLC
instances that check them, and TLAPS proofs of what holds for every instance.
Paths are relative to the repository; `backend/src` is `src/backend/src` and
`frontend/src` is `src/frontend/src` in `PROJECT.json`.

## The system

The application is a chat over football data. A FastAPI backend keeps users,
conversations, players and matches in Postgres; Redis holds event streams, the
reservation of a running turn, a prompt cache and Arq's queue; an Arq worker
generates replies and ingests data; a Next.js front end shows threads and has
admin pages.

| Component | State it keeps | Operations | Talks to |
|---|---|---|---|
| chat turns (`conversation_router.py`, `chat_tasks.py`, `chat_service.py`) | rows of `chat_message` and `chat_turn_failure`; `turn_in_progress` key; turn stream; history cache | POST messages, reply job | Redis, Postgres, LLM |
| event stream (`sse.py`, `chat_streams.py`) | none of its own; cursors into the stream | GET events, resume, replay | browser (`Last-Event-ID`) |
| chat threads (`use-chat-thread.ts`, `apply-live-event.ts`) | bubbles, busy flag, remembered threads, one EventSource per conversation | submit, load history, apply event, leave, return | POST, GET messages, GET events |
| prompt history (`chat_history_rebuild_service.py`) | cached history | load, rebuild, trim, save | Redis, Postgres |
| LLM and tool loop (`tool_call_executor.py`, `openrouter_client.py`) | prompt, fragments of tool calls, segments of one turn | completion chunks, rounds of tool calls, cap, save | OpenRouter, tools, turn stream |
| chat tools and analytics (`*_tools.py`, `*_analytics_repository.py`, `_player_*`, `_team_comparison_*`) | none; they read the tournament's tables | team and player analysis, comparison, group table, match detail, rankings, squad, career | Postgres |
| titles and user events (`conversation_repository.py`, `categorize_conversation_task`, `user_events_router.py`) | `conversation` rows, per-user stream | create, rename, categorise | every sidebar |
| sidebar (`use-conversation-list.ts`, `home-shell.tsx`) | list, EventSource cursor | fetch, apply event, rename, send | GET conversations, GET users/events, PATCH |
| identity links (`player_identity_link_repository.py`, review service) | `player_identity_link` | approve, reject, reassign, upsert, wipe | admins, jobs |
| ingestion jobs (`ingestion_job.py`, `tasks.py`) | `ingestion_job` row, Arq task | trigger, run, checkpoint, end | queue, admin pages |
| Transfermarkt sync, CSV and bulk uploads (`transfermarkt_sync_service.py`, `csv_ingestion_service.py`, `bulk_synthetic_ingestion_service.py`) | data tables, checkpoints, the IDENTITY sequence of `national_team` | stages, chunked upserts, resume | Transfermarkt, Postgres |
| identity matching (`player_identity_matching_service.py`) | none | score a roster against real players | sync, rematch |
| identity links page (`use-pending-identity-links.ts`, `use-identity-link-rematch.ts`) | tab, page, rows shown, latest request; job followed, `localStorage` | change tab or page, decide, rematch, refresh | admin API |
| auth, read-only routers, BFF routes, rendering | none | checks, queries, forwarding | |

`PROJECT.json` lists every component with what is modelled of it and, for the
others, the reason.

### Hard behaviours and what makes each part correct

* **Turns.** Two requests, the worker, key expiry and every failing await
  interleave on the rows, one stream and one key without an owner. Correct is:
  one turn at a time, replies directly under their message, fresh sequence
  numbers, no word about a message that is not saved, every accepted message
  answered (while the job can reach Redis), every reservation released, prompts that
  know all answered turns.
* **Threads.** History and stream are two reads of the same turns with a gap or
  an overlap between them, events carry no identity, and a window may leave,
  reconnect, send early or press Regenerate while a reply streams. Correct is:
  when all is quiet a thread shows what a reload would show and can send again.
* **Links.** Admins and jobs rewrite the same rows from sessions that read
  earlier than they write, in partial UPDATEs. Correct is: columns that belong
  together stay together, links have their parents.
* **Jobs.** A job fails in any stage, is cancelled by its timeout or by a
  shutdown, dies with its worker, and is then run again by Arq; what raises before the
  task's `try` or in its failure handler is handled by nobody. Correct is: it ends, once,
  unless that happens.
* **Titles.** Renames and the background categorisation each read a row and
  later write the columns that differ; a sidebar mixes fetched lists, events and
  answers of its own renames, in any order. Correct is: a title a user chose is
  marked as theirs and outlives every categorisation that reads the row later; every
  sidebar of an account with no more conversations than a page lists them all in the end.
* **Ingestion.** Stages depend on what earlier stages stored or hold in memory,
  chunks commit one by one, jobs run side by side, and a resume takes "the table has
  rows" for "the stage is done". Correct is: no job meets a missing parent,
  checkpoints tell the truth, the later row of a key wins, and a resume leaves what a
  complete sync leaves.
* **Tool loop.** The model may ask for tools round after round, make up names,
  send bad arguments or break off; deltas and widgets are already on the screen
  when the turn is saved. Correct is: prompts the API accepts, a terminal event that
  moves nothing, a saved reply that was shown, an end.
* **Tools.** The same record, rate or ranking is computed by different code (SQL in
  one tool, Python in another). Correct is: they agree, also on shootouts, missing
  rows, zero minutes, ties and metrics where less is better.
* **Review page.** Answers of older tabs and pages, decisions, rematches and the
  fallback from an emptied page all set the rows on screen, while other admins, syncs
  and overlapping rematches write the links, and an upsert puts a decided link back
  under its id. Correct is: the rows shown are those of the tab and page shown, as new
  as what the page has been told, and loading ends.

## Modules

| Module | Models | State ↔ code |
|---|---|---|
| `ChatStore` | rows, stream and keys of one conversation | `messages` = `chat_message` by sequence, `failures` = `chat_turn_failure`, `log`/`gone` = the Redis stream and what expired of it, `flag`/`cursor` = the reservation and its value, `cache` = cached history as the set of turns in it |
| `SendMessage` | POST messages | `sendPc[s]` is the await a request stands at; one action per await, `EndpointFails` for each that may raise |
| `ReplyJob` | `generate_chat_reply_task` and `ChatService.send_message` | `job[s]` is the await of the attempt; `cancelled` tells timeout from shutdown, `tries` counts Arq's attempts |
| `ChatTurn` | both, with key expiry | `FlagExpires`, `StreamExpires`, `CacheExpires`; fairness |
| `SerialConversation` | abstract: one turn at a time, a message and at most one reply | |
| `SerialTurns` | `ChatTurn` when no reservation runs out; the refinement mapping (`transcript` ← rows, `current` ← the turn in flight that owns the key) | |
| `ThreadView` | the pure reducers of a thread: `applyLiveEvent`, replay, `mergeHistory` | bubbles; a text is a member of a small set |
| `ChatWatch` | `ChatTurn` with any number of windows | `view` = where the page is, `thread`, `busy`, `position` = last event id, `post` = the fetch of a message |
| `IdentityMatching` | `PlayerIdentityMatchingService` | operators: tiers, confidences in thousandths, the choice in an export; WRatio is the constant `Similarity` |
| `IdentityLinkStore` | `player_identity_link` with its constraints | `links` by `player_id`, `realPlayers` |
| `LinkReview` | approve, reject, reassign | `review[r]` = the await, `seen` = the ORM row as loaded, `wanted` = as changed |
| `LinkJobs` | rematch, sync and resumed sync with their `ingestion_job` | `status` = the row, `task` = the await of the worker ("waiting" for the reads before the `try`, "starting" to "finish" inside it, "failing" in `_fail_job`, "unhandled" when nobody caught it), `found` = the candidates |
| `IdentityLinks` | the two together | fairness, properties |
| `ConversationTitles` | get_or_create, rename, `categorize_conversation_task`, the account's feed | `row` = `conversation` rows, `feed` = `user:events:{id}`, `renaming`/`reading` = a row as a session loaded it |
| `Sidebars` | `useConversationList` in every window, over `ConversationTitles` | `list`, `fetches` under way, `heard` = Last-Event-ID; `covers` (history) = up to where the list shows the feed; `ListLimit` = `limit` of `list_for_user` |
| `IngestionTables` | conflict columns, foreign keys, IDENTITY, and the statements of the ingestion repositories | `db`, `nextTeamId` |
| `SyncStages` | what each stage of a sync writes, from an export | operators: parse, sanitise, scope, aggregate |
| `DataIngestion` | sync, resumed sync, bulk and single uploads as jobs over these tables | `job` = `ingestion_job`, `task` = stages left, chunks to commit and what the attempt knows |
| `ToolLoop` | one attempt of a reply: client, executor, `send_message`, the SSE frames and the bubble | `prompt`, `answer` = `_ChunkAggregator`, `segments`, `stream`, `row` |
| `TournamentTables` | the tables the tools read, filled row by row as an upload does | `match`, `teamStat`, `event`, `playerStat`, `link` |
| `TeamTools` | team analysis, comparison, group table | operators over these tables |
| `PlayerTools` | per-90 rates, benchmarks, rankings, squads, careers | operators |
| `MatchTool` | match detail and its timeline | operators; also holds the properties over all tools of a match |
| `ReviewPage` | the identity links page with the server behind it | `idOf`/`statusOf` = the links (an id is the upsert that inserted the row, with the player), `upserts` counts commits; `view`, `shown`, `latest` = `latestRequestRef`, `requests`, `decisions`, `jobId`, `polls`, `stored` |
| `MC*` | instances for TLC | |
| `*_proofs` | theorems | |

Each window, request and job is a process; one action is the code between two
awaits that others can see. What is read in one session and used later is a
variable, so that it can be stale.

Some decisions a reader should know of:

* `applyLiveEvent` matches the echo of a message by its text. A reply and its
  message have the same `says` in the model, so mixing two turns is visible.
* `LoadHistory` stands for GET messages and for the page's server-side
  hydration; the two SELECTs of GET messages are one step.
* Next's `replaceState` does not change `useParams`, so a window that mints a
  conversation connects after its POST is answered.
* `intact` is a history variable: history and stream met without a gap. It is
  false for a window that came back to a conversation whose stream it then enters
  behind its own last event, whose history already held a finished turn that it
  replays, that sent over an unanswered message, that was away when a message
  was refused or marked another turn's bubble with the refusal, or that was brought
  another turn's message between its own and its echo; what a thread shows then is
  listed under *Statements the code does not keep*.
* Which columns an ORM session writes is what its unit of work flushes: those that
  differ from what the session loaded (`Renamed`, `Categorized`, and `Flushed` in
  `LinkReview`). This is where concurrent sessions can mix.
* `unsaid` (Sidebars), `torn` (DataIngestion) and `covers` are history variables like
  `intact`: a conversation whose event was never published or came before its
  creation's, a sync that stopped between two chunks of a stage or ran beside another
  one, a list that is known to be behind. The properties say what holds without them.
* An export or an upload is a small data set in `MCDataIngestion` with every kind of
  reference the code nulls, drops or refuses; the actions are those of any export.
* Rates are counted in hundredths and percentages in tenths, rounded half to even as
  Python's `round` does, on exact decimals instead of binary floats. Columns the code
  treats alike are one column.
* A prompt is the set of turns in it. Trimming to the token budget is not
  modelled, so `PromptKnowsSavedTurns` is about histories that fit.
* `update_status` reads its row a second time, because SQLAlchemy's identity map
  holds rows weakly; `Flushed` is its UPDATE of the columns that changed.
* A list request answers all conversations of an account, or `ListLimit` of them (50 in
  the code). Which ones is left open: `updated_at` is not modelled, so any full page may
  come back.
* On the review page a sync is its one upsert, and a rematch its wipe, its upsert and its
  success, committed one after the other with other jobs in between. An upsert keeps the
  id of a row that is there and gives it the status of the matching.
* The UNIQUE `real_player_id` is checked row by row, as Postgres does for an
  immediate constraint; `Collides` follows the order of the batch.

## Runs

All names refer to `PROJECT.json`. Deadlock is checked wherever the system has an end
(`Quiet`, `Settled`, `Finished`, `AllDone`, `TurnIsOver` let it stop only when nothing is
under way). It is not checked in `chat_tools`, where a full database is the end, and in
`review_page`, which ends when the bounded clicks are spent.

| Run | Instance | What it shows |
|---|---|---|
| `overlapping_turns` | 2 requests, 2 tries, reservation expiry and worker crashes | even with overlapping turns: nothing is said about an unsaved message, `MessageDone` means saved or warned, a watcher of a turn is given its message |
| `turns_end` | 2 requests; endpoint, LLM, timeout and expiry | every accepted message is answered and every reservation goes, under fairness (with "redis" it is not: the EXPIRE at `chat_tasks.py:122` stands before the `try`, and an error that cannot be published is not heard) |
| `serial_turns` | 2 requests, every fault except those that break the reservation | at most one turn, reservation owned, fresh sequences, replies in order; the rows implement `SerialConversation` |
| `watched_threads` | 2 windows, a message from each, failing turns, drops, sends before the history, Regenerate, a cache that goes at any moment | threads equal a reload; replies under their message; prompts know all answered turns |
| `returning_users` | 1 window that mints, 2 messages, failing turns, leaving, Regenerate | the same for threads; the composer comes back |
| `reviewed_links` | 2 reviews (approve, reassign), a sync, a rematch or resumed sync, every job fault, one re-run | rows stay consistent under stale writes, links have parents; a job that has ended keeps its status; a queued one ends in the table, or its last attempt raised before the `try` or in `_fail_job` |
| `titles` | 1 window, a page of 1; 2 messages of a new conversation, or a message and a rename, with the categorisation, every failure and a re-run; 2 conversations, or 2 renames, without failed requests | a sidebar that heard all shows what is committed; the conversations of an account of one page are listed in the end, unless an event was lost; a title chosen while no categorisation was between its read and its write stays a chosen one |
| `rename_clobbered` (violation) | 1 message, 1 rename | a rename that commits between the SELECT and the UPDATE of `update_category` loses its title, against the repository's docstring |
| `ingestion` | a sync, a resume or a complete upload, a second upload; empty or seeded database; one fault | no sync lacks a parent row, complete uploads are accepted in any file order, checkpoints are true, later rows win, a resume is complete (the table that a later sync is rewriting excepted) |
| `tool_loop` | 2 rounds, 2 deltas and 2 calls each, valid, invalid or made up; a request, a stream, a handler or the save fails | every call answered before the next completion, `message_done` moves nothing, the saved reply was shown, the bubble stops (publishing to Redis and Arq's timeout are in the chat turn's modules, not in this one) |
| `chat_tools` | 3 teams, 3 matches, 3 players; every partial upload | tools that compute the same thing in different code agree; points, goals and records of a group add up; comparisons mirror |
| `review_page` | 2 links on 2 pages, 3 clicks, one rematch, two that overlap, or another admin and syncs | the rows shown belong to tab and page, show a link decided here only after an upsert, nothing older than the last rematch reported; loading ends |

### Bounds

* `Sends`, `Windows`: two actors are what a race needs; three messages are
  needed where a third turn uses what two earlier ones left behind (cache).
  Requests are not numbered: any order of them occurs.
* `MaxDeltas`: a reply needs one delta to have a beginning and an end, none
  where no property looks into a reply. `MaxBubbles` caps a thread and is above
  what the instances reach without a violation.
* `MaxTries`, `MaxReruns`: one repeat shows what an attempt leaves for the next;
  they stand for Arq's default `max_tries` of five. A job whose worker dies, or is shut
  down before the task's `try`, on each of its attempts stays `queued` or `running` for
  ever: the last attempt permitted is one that goes through, and `JobsEnd` is about such
  histories. A last attempt that raises outside the `try` is in the model ("unhandled")
  and is what `JobsEnd` excepts.
* Links: two roster players and two real players are what a collision, a swap
  or a duplicate needs. The matchings are those `MatchRoster` computes from two
  exports: both roster players claim one real player, one of them for certain, or
  each has its own and awaits review. Beside a review only the second job is stopped,
  crashes or is run again (`OneStory` of `MCIdentityLinks`); without one, both are.
* Titles: one rename and one categorisation are the two writers of a row; two posts
  are what a refused second message and a second fetch need; one window, and one fetch
  under way, because windows do not influence each other except through the server. A
  page of one conversation against two is the smallest account with more than a page.
  These are told as stories (`OneStory` of `MCSidebars`): two posts, or a post and a
  rename, with every fault; without failed requests and re-runs, two conversations, the
  second of which begins once the first has its title, and two renames, the second
  of which begins after the job read the row. Proved without these bounds in
  `Sidebars_proofs`, `ConversationsAreListed` excepted.
* Ingestion: `ChunkSize` 2 against tables of one to four rows gives whole, partial and
  several chunks; one fault, because every stage of the three jobs can be its place.
  The faults of an upload and of a sync are the same three.
* Tool loop: `MaxIterations` is 2 (5 in the code): a round behind a round is what the
  order of prompt and segments needs. Proved for every bound in `ToolLoop_proofs`.
* Tools: two meetings of the same teams (group and final), a third team, every score
  up to one goal with every shootout, statistics, cards and player rows present or
  not. `OneTool` fills the tables of one family of tools at a time, because they
  share none.
* Review page: two links are two pages; three clicks reach every pair of crossing
  requests and the answer of a third. Three stories (`OneStory` of `MCReviewPage`): the
  other admin and the syncs; one rematch, which may fail or lose a candidate; two
  rematches that succeed and find the same players, with the page on its first view and
  without an error from then on. `ShownRowsAreCurrent` is proved without these bounds
  in `ReviewPage_proofs`.
* Faults are a set per run, so that a run's name says what may go wrong in it.

### Fairness

Weak fairness of the next step of a request that has begun and of a job that is
queued: the event loop and the worker run what is ready. Weak fairness of key
expiry. In the browser, weak fairness of answers and connections, and strong
fairness of deliveries, because an EventSource that drops and reconnects again
and again does get its next event. No user has to send, open, leave or return,
and no fault has to happen or to stop.

Sidebars: weak fairness of a post's and a categorisation's next step, of fetches
and connections, strong fairness of deliveries; renames, sends and re-runs need not
happen. Tool loop: the worker goes on with the coroutine and the stream ends or is
broken by httpx's timeout (`LoopProgress`); the provider need not send anything.
Ingestion has no liveness property of its own, `JobsEnd` of `reviewed_links` is about
the same task code. Review page: every request for the list is answered or fails.

## Proofs

Checked by TLAPS for any sets of requests, players, admins and jobs, from the
named assumptions of the modules (`NoneAssumption`, `FaultAssumption`,
`BoundsAssumption`, `LeaseAssumption`, `LinkAssumption`, `ReviewAssumption`,
`JobsAssumption`, `LoopBounds`, `TitlesAssumption`, `SidebarsAssumption`,
`PageAssumption`, `SimilarityAssumption`, `ExportAssumption`, `IngestionAssumption`):
they say that ids are distinct from `None` and from each other, that bounds are numbers,
that a roster, the conversations of an account and the teams are finite, and that a
similarity is between 0 and 100. Of an export the proofs use that it has the columns that
are read and that clubs and players have ids (`parse_int` raises on a blank one, before
anything is written); of the tables before the jobs, what their primary and foreign keys
guarantee of clubs, players and tournament rows; of an uploaded row, that it has its key.

* `ChatTurn_proofs`. `TypeCorrect`. `AboutSavedMessages`: the property alone is
  not inductive, a job could start for a message that was never saved; `SavedInv`
  adds that a request past its INSERT has its row and that only accepted
  requests have jobs. `DoneMeansSavedOrWarned`: `DoneInv` adds that a reply on its
  way to `MessageDone` is saved or warned of. No fault is excluded.
  `WatchersSeeTheUserMessage`, as long as no stream expires: the key holds the cursor its
  request read, and every entry of a message lies behind the cursor its request read,
  because `ReadCursor` comes before `XADD` (`ReplayInv`). With "streamTtl" among the
  faults it does not hold: the EXPIRE of a finished turn can take the stream away under
  the next one (see the hazards).
* `SerialTurns_proofs`, under `LeaseAssumption` (no reservation runs out during
  its turn, nothing is run twice). `SerialInv`: a turn in flight owns the key, so
  no other can write rows, so the last row is the user row of a turn whose reply
  is due and the sequence it read is still fresh. From it: `ReservationOwned`,
  `SerialOneTurnAtATime`, `SequencesFresh`, `RepliesInOrder`, and
  `SerialRefinement`, that `SerialTurns` implements `SerialConversation` step by
  step. The assumption is needed: with "lease" among the faults TLC finds two turns at
  once (see below). `PromptsKnowSavedTurns`, without `MemoryFaults` as well (the calls to
  Postgres and Redis succeed, the LLM answers before the timeout), but with a cache that
  goes at any moment: a cache that is there lacks at most the turn that is being written
  back (`MemoryInv`), and a rebuilt one lacks nothing.
* `ChatWatch_proofs`, for any windows, senders, turns and habits. `StreamOrdered`, where
  every turn says on the stream how it ended (`QuietFaults`: the model, the tools and the
  cache may fail at any moment): the stream is one turn after the other, behind the cursor
  each request read, and an open turn at its end is exactly the one whose request or job
  has something left to publish (`StreamInv`, from `SerialInv` and `ReplayInv`). From it
  `ThreadsFollowTheStream`: a window without a gap shows every message it has read, and a
  connection in the middle of a turn has that turn's message at the thread's end
  (`WindowInv`), so that `applyLiveEvent`, which looks only there, writes to the right
  bubble; a connection without Last-Event-ID starts in front of the turn under way
  (`resume_turn_cursor`). `RepliesUnderTheirMessages` is `Tidy` of every such thread, which
  also says whose message each user bubble is. Messages are assumed to have different texts (`DistinctTexts`): the
  echo is recognised by its text, so the second of two equal messages is taken for the
  first where the first still waits. The other faults are excluded, because with them a
  turn may end without a word on the stream, or with two (`PersistenceFailed`), or the
  stream may go under it.
  On this rests what a window shows. `StreamTellsTheRows`: a turn is on the stream once,
  from its message to one end (`TurnsInv`), and the rows, read as `mergeHistory` reads
  them, are what the stream has said so far, or one row ahead of it, that of the message
  or reply which its request or job announces next (`SpeechInv`, `RowsTold`).
  `ThreadsTellTheStream`: the saved messages and finished replies on the thread of a window
  without a gap are those the stream has said up to the last entry it read, and then the
  message it waits with (`Mirrors`); it shows no message twice and none it was not told of
  (`Accounts`); it shows a reply under way only while that turn is (`Expects`). `Mirrors`
  says nothing of a window whose history was ahead of its connection, until it has read the
  end of the turn that the history had (`Ahead`). `MatchInv` is their conjunction; TLC checks it on the instances of
  both watch runs. Once the turns are over and everything is read, both chains meet:
  `ConnectedThreadsShowTheRows` is `ConnectedThreadsMatchTheRows`, for any number of windows, senders and turns.
* `IdentityLinks_proofs`. `LinksInv` relates what a request loaded to the table:
  its change moves method and confidence together or not at all
  (`ConfidenceFollowsMethod`), and a row that was marked as reviewed when it was
  loaded is still marked if it still has its id (`ReviewersMarkTheirLinks`) -
  an upsert keeps id and mark of a row it rewrites, a wipe gives new ids, and
  ids are never given twice (`UpsertedRows`). `JobsInv` ties `ingestion_job` to its
  task: `LinksHaveParents`, `EndingIsFinal`, and the type invariant `LinksTyped`.
  Of `IdentityMatching`, for any roster, export and similarity:
  `OneCandidatePerPlayer`, matching yields what `JobsAssumption` asks of it, so the link
  theorems apply to it; `SureMatchesAreIdentified`, what the table approves by itself
  rests on equal facts and not on a similarity of names alone (`ScaledStaysDoubtful`). That some
  candidate is found whenever one is close enough needs induction over the export and is
  not proved.
* `ToolLoop_proofs`, for any tools, rounds, deltas and calls. `LoopTyped`;
  `CallsAreAnswered`: while a round is dispatched its assistant message stands at a
  place `b` of the prompt, everything before `b` is answered, and what stands behind
  `b` answers the calls that are no longer to do, in order (`RoundOpen`).
  `RepliesDoNotJump` and `SavedRepliesWereShown`: both need what the screen shows at every
  step before (`ScreenInv`): read from first to last, the bubble is the segments followed
  by the content of the completion that streams, although the bubble cuts the text where
  deltas and widgets met and the segments where completions ended. `Said` reads parts
  by one recursion, so that two lists that read the same need not be cut the same.
* `Sidebars_proofs`, for any conversations, posts, renames, windows and failures.
  `TitlesTyped`. `TitlesAreOwned`: marks of ownership are never taken back, so what a
  session read of a row can be staler in one way only (`NoYounger`: the row says
  generated only if the session read generated), and a rename that finds the mark set
  need not write it again. `RenamesOutlive`: a title that is a chosen one while no
  categorisation is between its read and its write is `Safe`: marked, and every job that
  reads the row from then on reads the mark (`SafeThroughJobs`); a rename that read it
  earlier writes another chosen title or nothing (`SafeThroughRequests`). `SidebarsMatch`, for any
  `ListLimit`: every list, on the screen or in an answer under way, is right up to the
  event it covers (`ListFits`): a title that is generated is the first message or, with
  the icon, the category's, the list has the icon once the feed has said so, and where the
  account has no more than a page it has every conversation the feed has told of. A full
  page may leave a conversation out, which a late event then brings back without its
  icon: what the list says of icons reaches to what was heard (`Shows`). `FeedInv` ties rows,
  jobs and feed together while nothing is left unsaid, `AnswersInv` says that an answered
  rename has taken the title out of the generated ones.
* `ReviewPage_proofs`, for any players, matchings, page sizes, clicks, rematches and
  syncs. `PageTyped`; `PageShowsItsView`: alone it is not inductive, because of the
  answers under way. `PageInv` adds that request ids do not exceed the latest
  (`RequestsInv`), that the answer of the latest request was read after everything the
  page has been told (`UpToDate`: decisions answered, successes received), that a link
  decided from the page is not pending under its id unless an upsert was committed since
  (`DecisionsInv`), that a success is final (`JobsInv`), and that only the refresh of a
  decision asks for a view the page is not on (`AskedInv`). That crossing is excepted by
  the property, because the code shows the wrong rows then (`TheCurrentPageIsShown`).

* `DataIngestion_proofs`, for any export, tables, chunk size, uploads, jobs side by side
  and faults. `NoParentLacking`: a sync keeps in memory which clubs and players it knows,
  from the export or, resumed, from the tables, and every later row is filtered or blanked
  by that. `IngestionInv` says that what it knows is stored, or is what the stage at hand
  still has to write (`SeenIsStored`), that every row it has yet to write fits its table
  (`SyncWrites`), and that nothing that is stored goes away (`ReferencesHold`, and that an
  upsert keeps every id: `UpsertedIds`). `UploadsAccepted`: the files in front of the one
  at hand are stored with every id they brought (`FileInv`), parents come before children
  in `INGESTION_ORDER` (`ParentsComeFirst`, a ranking of the ten tables), and no sync or
  other upload takes an id away (`TeamRowsInv`: a sync matches teams by their id and
  creates them without one). `CheckpointsAreStored`: alone it is not inductive, because a
  stage is checkpointed when its last chunk is committed. `StoredInv` adds that every row
  of the part at hand is stored or in a chunk still to be written (`PartInv`), that a
  part opens with all its rows to write (`StageOpens`, `FileOpens`: chunks lose no row and
  a sync that has its first stages behind it filters by the whole export,
  `KnowsExport`), and that an upsert takes no key away, its own rows' duplicates
  included (`CommitKeepsKeys`). Of a resumed sync it says which stages it checkpoints; what
  these hold is `ResumesAreComplete`.
  `LaterRowsPrevail`: what has won stays (`WinsInv`): a row of the chunks committed so far
  is in its table with its values, unless a later row of the upload has its key, and what is
  left to write is the rest of the file, in order, in chunks (`Remains`: the cuts are
  counted, so that the k-th chunk is the rows between two cuts). A commit keeps the last of
  a key (`Deduped`) and touches no row of another key (`ChunkData`); a sync beside it writes
  only the columns of national teams named in `SyncedToo`, and none of a key. The
  hypothesis that no other upload was made is the property's own: two uploads overwrite
  each other in the order of their commits.
  `ResumesAreComplete`: a resume takes a table with rows for a finished stage and reads its
  scope from the tables, so that the proof follows a chain of syncs. `ResumeInv` says, as long
  as no sync has torn a stage (`torn`), that one sync works at a time; that the table of a
  stage holds rows of the export only (`Exact`: rows of one shape are written as they are,
  `UpsertedExact`) and is empty or whole, except the one at which a sync is half-way; that
  behind the sync at work everything is whole and in front of it what it knows is what a
  full sync knows (`Advancing`, `ResumeKnows`); and that of its stage the first rows are
  written and the others remain. It has two hypotheses, which the instance satisfies
  (`ResumeAssumption`). `StartsWhole`: the tables were empty or as a sync of this export left
  them; a resume keeps what a sync of an older export has left, that is what it is for.
  `PlayersAreUnique`: `players.csv` names a player once. Of two rows the full sync stores the
  later one but counts the clubs of both, and a resume finds only the stored one's, so that
  it may skip club games that a full sync writes.
  The stage at which a later sync is half-way is excepted (`HalfWritten`), and that too is
  the code's behaviour: a full sync run again writes a stage chunk by chunk, so that a row
  whose key comes twice in the stage is for a moment the earlier of the two. TLC found this
  with one row per chunk and a player's second transfer of a day.
  What recursions over rows compute is used
  as far as these need it: which rows a scope keeps, how appearances are grouped, that
  files are sorted by table, which teams a list of writes leaves.

A theorem about a recursion over data is proved by the least number at which it
would fail, in a set of numbers (`LeastNumber`, `NumberInduction`, `CountingUp`); the library's
induction theorems take an operator as a parameter and cannot be used. That covers functions such as
`Said`, `Bubble`, `Kept` and `TeamsWritten`, and `FlattenSeq`, whose function is the one
its recursion describes (`Flattened`).

Only model-checked, and why:

* all liveness (`AcceptedTurnsEnd`, `ReservationsEnd`, `ComposerComesBack`, `JobsEnd`,
  `ConversationsAreListed`, `TurnEnds`, `LoadingEnds`): it rests on fairness;
* the tools (`ToolsAgreeOnATeam`, `TournamentAddsUp`, `ComparisonMirrors`,
  `MatchAnswersAgree`, `RankingsAgreeWithComparisons`, `SquadsAgreeWithRankings`,
  `ClubRankingIsOfApprovedCareers`): their lists and sums are made by `SelectSeq`,
  `SetToSortSeq`, `FoldLeft` and `MapThenSumSet`, operators that take an operator, of which
  the provers know nothing without the induction theorems they cannot use.

## Statements the code does not keep

One of them has a run; the others were met while modelling, and the definition named
is in the module, to be added to a run by who changes the code.

| Where it says so | What happens | Definition |
|---|---|---|
| `conversation_repository.py:119-121`: a rename during the job is never clobbered | it is, when it commits between SELECT and UPDATE | `RenamesAreKept` (run `rename_clobbered`) |
| `chat_tasks.py:19-20` (`SET NX` is the one-turn-per-conversation guard), `chat_streams.py:32-33` (the flag never outlives its job) | a job that waits in the queue for longer than the TTL loses the reservation and the next POST is accepted (`conversation_router.py:222`) | `OneTurnAtATime` with "lease" |
| `chat_service.py:298-300`: the cache is rebuildable, its failures are swallowed | a failed save leaves the older history in place, and later turns extend it | `PromptKnowsSavedTurns` with "redis" |
| `chat_streams.py:36-39`: "a reload past this window just reads the persisted" message | a thread remembered with a turn in flight and reopened after its end attaches at the tail, without a history load (`use-chat-thread.ts:179`) | `EveryThreadMatchesTheRows` |
| `chat_streams.py:130-131`: history already loaded is not replayed | a load between the commit of the reply and the release of the key sees the turn twice | `NothingShownTwice` |
| `chat_service.py:278-281`: the failure is non-fatal and the turn finishes | `sse.py:61` frames it as an error, which ends the bubble; `message_done` opens a second one | `OneBubblePerTurn` |
| `apply-live-event.ts:87-88`: a `user_message` that matches the optimistic bubble is ignored | only while that bubble is at the thread's end: if another window's turn comes between a message and its echo, the message is shown twice | `ConnectedThreadsMatchTheRows` without `EchoIsExpected`, two senders |
| `use-chat-thread.ts:281-284`: the thread is no longer this turn's only after a switch | a refusal (409) marks the last assistant bubble even if another window's reply streams into it; what still arrives of that reply opens a second bubble | `ReplyUnderItsMessage` without `RefusalIsIts`, two senders |
| `MessageDoneEvent`'s docstring: a reload is built from `content_segments` | the row keeps the last round's text and the widgets; earlier rounds' text is gone after a reload | `ReloadKeepsTheText` |
| `national_team_schema.py:11-13`: the database assigns the next id | after an upload of teams with explicit ids the sequence hands out a taken id and the sync fails | `CreatedTeamsAreAccepted` |
| `player_identity_matching_service.py:1-12`: a cascade, name and birthday before name and nation | the first exact match of the export is taken (lines 82-93): an earlier namesake of the same nation hides the player with the birthday | `BirthdaysComeFirst` |
| `use-pending-identity-links.ts:14-15`: every action re-fetches the current page | a decision answered after a change of tab or page re-fetches the old one (the `refresh` of the render that was clicked) and shows its rows under the new one | `TheCurrentPageIsShown` |
| `tasks.py:6-7`: on any failure `_fail_job` writes the `failed` status | not on one before the `try` (lines 102-111, 123-134, 143-167, 176-189) or in `_fail_job` itself: Arq does not try again and the row stays queued or running | `FailuresAreRecorded` |

## Not modelled

* Token budgets and the text of prompts; SSE framing, heartbeats and the trimmed-stream
  error; the parsing of CSV cells; columns that carry no key or reference.
* The similarity of two names (rapidfuzz's WRatio) and their normalization.
* The lookup of a team or player by a name the model wrote (`LIMIT 1` over fuzzy
  matches), the binary representation of ties in rounding, and metrics that are computed like one that is modelled.
* Authentication, read-only routers and BFF routes: one request, one answer, no state.
* The ingestion pages: a form and one status request per click, the same hook pattern
  as the rematch part of `ReviewPage`. The search of the reassign dialog.
* Rendering, widgets and panels; migrations and scripts; external services beyond
  their failures.
* Two processes of the API or of the worker differ from one in nothing the models
  use. Redis loses no data except by expiry.

Hazards without a property are in `PROJECT.json` with the reason. Known to bite and
left to a later extension: the endpoint failing between XADD and enqueue; approve
racing reject, both answered 200; `reviewed_by_admin` left on a pending row by a sync;
a manual swap that makes every later sync collide; a resume over a half-filled table;
jobs whose enqueue failed; a list and its total read by two statements
(`identity_link_router.py:80-81`); a date in a tool call that is no ISO date
(`match_analytics_repository.py:108`), which ends the turn although the argument
check passed; an answer of an older rematch's status that overwrites a newer one's.

## Plan

1. The agreement of two tools on a record as a theorem; `MatchesOf` and the sums have to be
   written as functions first, as `Kept` and `TeamsWritten` are.
2. `PromptWindow`: trimming to the budget, with the claim that the newest turns stay.

Every run has its own question; the number of runs is kept small enough that the whole
project is checked in one go.
